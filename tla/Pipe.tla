-------------------------------- MODULE Pipe --------------------------------
(***************************************************************************)
(* What the send/receive API of libavcodec promises to a client (doc       *)
(* comment of libavcodec/avcodec.h, 88-180): one first-in first-out queue  *)
(* of units.  Output comes in the order its units went in, a unit          *)
(* disappears only with an error that the client sees (or because the      *)
(* codec has no output for it), and the end of stream is announced only    *)
(* once the queue is closed and empty.                                     *)
(*                                                                         *)
(* It is written in the terms of a decoder (packets in, frames out).  Both *)
(* Decoder and Encoder implement it: see their definition Refinement.      *)
(***************************************************************************)
EXTENDS Naturals, Sequences

CONSTANTS Unit,       \* coded units; a unit decodes to one frame
          Packet,     \* non-empty sequences of units a client may send
          Hidden      \* units whose frame is never given to the client

VARIABLES queue,      \* units accepted and not yet delivered, oldest first
          closed,     \* TRUE once the client signalled the end of stream
          frame,      \* the client's frame: <<>> when blank, else <<unit>>
          result      \* last completed call: [of |-> ..., ret |-> ...]

vars == <<queue, closed, frame, result>>

Returned(call, ret) == result' = [of |-> call, ret |-> ret]

\* s without the elements from position i to j (nothing when j < i).
Without(s, i, j) == SubSeq(s, 1, i - 1) \o SubSeq(s, j + 1, Len(s))

Init == /\ queue = <<>>
        /\ closed = FALSE
        /\ frame = <<>>
        /\ result = [of |-> "none", ret |-> "OK"]

-----------------------------------------------------------------------------
(* The client's side.                                                      *)

\* A packet enters the queue; the call completes here or in a later step.
Accept == /\ ~closed
          /\ \E p \in Packet : queue' = queue \o p
          /\ Returned("send", "OK") \/ UNCHANGED result
          /\ UNCHANGED <<closed, frame>>

\* No packet is refused without a reason: a full queue, a closed one, or
\* input that is malformed.
Refuse == /\ \/ queue # <<>> /\ Returned("send", "EAGAIN")
             \/ closed /\ Returned("send", "EOF")
             \/ ~closed /\ Returned("send", "EINVAL")
          /\ UNCHANGED <<queue, closed, frame>>

Close == /\ ~closed
         /\ closed' = TRUE
         /\ Returned("send", "OK") \/ UNCHANGED result
         /\ UNCHANGED <<queue, frame>>

\* A receive call first blanks the client's frame.
Ask == /\ frame' = <<>>
       /\ UNCHANGED <<queue, closed, result>>

\* avcodec_flush_buffers: forget everything, open again.
Reset == /\ queue' = <<>>
         /\ closed' = FALSE
         /\ Returned("none", "OK")
         /\ UNCHANGED frame

-----------------------------------------------------------------------------
(* The queue's side.                                                       *)

SendDone == /\ Returned("send", "OK")
            /\ UNCHANGED <<queue, closed, frame>>

Deliver == /\ queue # <<>>
           /\ Head(queue) \notin Hidden
           /\ frame' = <<Head(queue)>>
           /\ queue' = Tail(queue)
           /\ Returned("receive", "OK")
           /\ UNCHANGED closed

Hide == /\ queue # <<>>
        /\ Head(queue) \in Hidden
        /\ queue' = Tail(queue)
        /\ UNCHANGED <<closed, frame, result>>

\* A decoding error may cost a run of consecutive units, and is reported.
Lose == /\ \E i \in 1 .. Len(queue) + 1 : \E j \in i - 1 .. Len(queue) :
             queue' = Without(queue, i, j)
        /\ \E call \in {"send", "receive"}, ret \in {"ERR", "BUG"} :
             Returned(call, ret)
        /\ UNCHANGED <<closed, frame>>

Starve == /\ ~closed
          /\ Returned("receive", "EAGAIN")
          /\ UNCHANGED <<queue, closed, frame>>

End == /\ closed
       /\ queue = <<>>
       /\ Returned("receive", "EOF")
       /\ UNCHANGED <<queue, closed, frame>>

Next == \/ Accept \/ Refuse \/ Close \/ Ask \/ Reset
        \/ SendDone \/ Deliver \/ Hide \/ Lose \/ Starve \/ End

Spec == Init /\ [][Next]_vars
=============================================================================
