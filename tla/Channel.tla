------------------------------ MODULE Channel ------------------------------
(***************************************************************************)
(* What av_thread_message_queue promises (libavutil/threadmessage.h): a    *)
(* bounded first-in first-out channel.  A sender waits while it is full,   *)
(* a receiver while it is empty; an error set on one end turns that end's  *)
(* calls away, a receiver's only once the channel is empty; a flush        *)
(* removes every message.                                                  *)
(*                                                                         *)
(* One action, FlushKeeps, is no promise of the header: it is the          *)
(* exception the code needs.  Without it a queue without a free_func does  *)
(* not implement the channel.                                              *)
(***************************************************************************)
EXTENDS Naturals, Sequences

CONSTANTS Thread, Msg, Capacity

VARIABLES free_func,    \* TRUE: the owner set a free_func, fixed
          queue,        \* the messages, oldest first
          err_send, err_recv,   \* TRUE while the end has an error set
          calls,        \* calls[t]: the running call of t, <<>> for none, Gone
                        \* once the channel is freed
          out           \* what came out last: <<return value, message>> or
                        \* <<"freed", messages given to free_func>> of a flush

vars == <<free_func, queue, err_send, err_recv, calls, out>>

Gone == <<[op |-> "gone"]>>
Call == [op : {"send"}, msg : Msg, nonblock : BOOLEAN] \cup
        [op : {"recv"}, nonblock : BOOLEAN]

Init == /\ free_func \in BOOLEAN
        /\ queue = <<>>
        /\ err_send = FALSE /\ err_recv = FALSE
        /\ calls = [t \in Thread |-> <<>>]
        /\ out = <<>>

Begin(t) == /\ calls[t] = <<>>
            /\ \E c \in Call : calls' = [calls EXCEPT ![t] = <<c>>]
            /\ UNCHANGED <<free_func, queue, err_send, err_recv, out>>

\* A call of kind op can end with ret, and the message a receive got.
Ends(t, op, ret) == /\ calls[t] # <<>> /\ calls[t][1].op = op
                    /\ calls' = [calls EXCEPT ![t] = <<>>]
                    /\ out' = ret

Accept(t) == /\ Ends(t, "send", <<"OK">>)
             /\ ~err_send /\ Len(queue) < Capacity
             /\ queue' = Append(queue, calls[t][1].msg)
             /\ UNCHANGED <<free_func, err_send, err_recv>>

Deliver(t) == /\ queue # <<>>
              /\ Ends(t, "recv", <<"OK", Head(queue)>>)
              /\ queue' = Tail(queue)
              /\ UNCHANGED <<free_func, err_send, err_recv>>

Refuse(t) == /\ \/ err_send /\ Ends(t, "send", <<"ERR">>)
                \/ err_recv /\ queue = <<>> /\ Ends(t, "recv", <<"ERR">>)
             /\ UNCHANGED <<free_func, queue, err_send, err_recv>>

TryAgain(t) ==
  /\ \/ /\ ~err_send /\ Len(queue) = Capacity
        /\ Ends(t, "send", <<"EAGAIN">>)
     \/ /\ ~err_recv /\ queue = <<>>
        /\ Ends(t, "recv", <<"EAGAIN">>)
  /\ calls[t][1].nonblock
  /\ UNCHANGED <<free_func, queue, err_send, err_recv>>

Alive == \E t \in Thread : calls[t] # Gone

SetErrSend == /\ Alive /\ err_send' \in BOOLEAN
              /\ UNCHANGED <<free_func, queue, err_recv, calls, out>>

SetErrRecv == /\ Alive /\ err_recv' \in BOOLEAN
              /\ UNCHANGED <<free_func, queue, err_send, calls, out>>

\* "Mostly equivalent to reading and free-ing every message" (threadmessage.h
\* 106-112).  The callback is optional.
RemoveAll == /\ queue' = <<>>
             /\ out' = <<"freed", IF free_func THEN queue ELSE <<>>>>

Flush == /\ Alive /\ RemoveAll
         /\ UNCHANGED <<free_func, err_send, err_recv, calls>>

\* The exception: without a free_func a flush may remove nothing
\* (threadmessage.c 233-234, against the header and the comment of 235).
FlushKeeps == /\ Alive /\ ~free_func
              /\ out' = <<"freed", <<>>>>
              /\ UNCHANGED <<free_func, queue, err_send, err_recv, calls>>

\* The owner frees the channel when no call runs, and no message is read from
\* it any more.
Free == /\ \A t \in Thread : calls[t] = <<>>
        /\ out' = <<"freed", IF free_func THEN queue ELSE <<>>>>
        /\ queue' = IF free_func THEN <<>> ELSE queue
        /\ calls' = [t \in Thread |-> Gone]
        /\ UNCHANGED <<free_func, err_send, err_recv>>

Next == \/ \E t \in Thread : Begin(t) \/ Accept(t) \/ Deliver(t) \/ Refuse(t) \/ TryAgain(t)
        \/ SetErrSend \/ SetErrRecv \/ Flush \/ FlushKeeps \/ Free

\* While the channel has room some waiting sender gets on, while it has
\* messages some waiting receiver; and an error reaches every caller.
Spec == /\ Init /\ [][Next]_vars
        /\ WF_vars(\E t \in Thread : Accept(t))
        /\ WF_vars(\E t \in Thread : Deliver(t))
        /\ \A t \in Thread : WF_vars(Refuse(t) \/ TryAgain(t))
=============================================================================
