----------------------------- MODULE FrameQueue -----------------------------
(***************************************************************************)
(* What ff_thread_decode_frame promises to the decoding layer above it     *)
(* (libavcodec/thread.h, and the comments of the function): packets are    *)
(* decoded several at a time, yet their results come out one by one in the *)
(* order the packets went in.  No result is passed over, and a draining    *)
(* call returns neither frame nor error only when nothing is left inside.  *)
(***************************************************************************)
EXTENDS Naturals, Sequences

CONSTANT Capacity       \* packets inside at one time

VARIABLES count,        \* packets accepted so far; numbers the next one
          inside,       \* the accepted packets, oldest first: records of
                        \* number and outcome
          flushing,     \* a flush or the end discards what is inside
          ret           \* what the last call returned

vars == <<count, inside, flushing, ret>>

Outcome == {"none", "frame", "error"}

Init == count = 0 /\ inside = <<>> /\ flushing = FALSE /\ ret = <<"none">>

\* The call may return at once, with no frame.
Accept == /\ Len(inside) < Capacity
          /\ count' = count + 1
          /\ inside' = Append(inside, [number |-> count + 1, outcome |-> "pending"])
          /\ ret' \in {ret, <<"none">>}
          /\ UNCHANGED flushing

Refuse == /\ ret' = <<"refused">>
          /\ UNCHANGED <<count, inside, flushing>>

\* Decoding ends in any order.
Decode == /\ \E k \in DOMAIN inside, o \in Outcome :
               /\ inside[k].outcome = "pending"
               /\ inside' = [inside EXCEPT ![k].outcome = o]
          /\ UNCHANGED <<count, flushing, ret>>

Deliver == /\ inside # <<>> /\ Head(inside).outcome \in {"frame", "error"}
           /\ ret' = <<Head(inside).outcome, Head(inside).number>>
           /\ inside' = Tail(inside)
           /\ UNCHANGED <<count, flushing>>

\* A packet that decoded to nothing.
Skip == /\ inside # <<>> /\ Head(inside).outcome = "none"
        /\ inside' = Tail(inside)
        /\ \/ ret' \in {ret, <<"none">>}
           \/ inside' = <<>> /\ ret' = <<"eof">>
        /\ UNCHANGED <<count, flushing>>

Starve == /\ inside = <<>>
          /\ ret' \in {<<"none">>, <<"eof">>}
          /\ UNCHANGED <<count, inside, flushing>>

\* avcodec_flush_buffers and the end give up what is inside.
BeginFlush == /\ flushing' = TRUE
              /\ UNCHANGED <<count, inside, ret>>

Forget == /\ flushing
          /\ \E k \in DOMAIN inside : inside' = [inside EXCEPT ![k].outcome = "none"]
          /\ UNCHANGED <<count, flushing, ret>>

EndFlush == /\ flushing
            /\ inside' = <<>> /\ flushing' = FALSE /\ ret' = <<"none">>
            /\ UNCHANGED count

Next == \/ Accept \/ Refuse \/ Decode \/ Deliver \/ Skip \/ Starve
        \/ BeginFlush \/ Forget \/ EndFlush

Spec == Init /\ [][Next]_vars
=============================================================================
