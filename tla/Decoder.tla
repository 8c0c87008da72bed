------------------------------ MODULE Decoder ------------------------------
(***************************************************************************)
(* The decoding pipeline of one AVCodecContext behind                      *)
(* avcodec_send_packet / avcodec_receive_frame (libavcodec/decode.c), with *)
(* the null bitstream filter every decoder without filters of its own gets *)
(* (libavcodec/bsf.c, bsf/null.c), as every decoding program of src/src    *)
(* drives it: one thread, a codec of the FF_CODEC_CB_TYPE_DECODE kind.     *)
(*                                                                         *)
(*   client -> buffer_pkt -> bsf_pkt -> in_pkt -> codec -> buffer_frame    *)
(*                                                      \-> frame          *)
(*                                                                         *)
(* A packet is a non-empty sequence of units: one unit for video (the code *)
(* sets consumed = pkt->size), one unit per coded frame for audio (a codec *)
(* may consume part of a packet).  The codec callback is modelled by its   *)
(* contract in codec_internal.h: it reads some of the packet, may output a *)
(* frame, may fail; with AV_CODEC_CAP_DELAY it holds CodecDelay frames     *)
(* back until it is drained with empty packets.                            *)
(*                                                                         *)
(* A call of the client is one action that enters the library; the loops   *)
(* inside run as small steps under pc until the call returns.              *)
(***************************************************************************)
EXTENDS Naturals, Sequences

CONSTANTS Unit,         \* coded units; a unit decodes to one frame
          Packet,       \* the packets the client may send
          CodecDelay,   \* frames the codec holds back; > 0: AV_CODEC_CAP_DELAY
          Corrupt,      \* units the codec rejects with an error
          Hidden,       \* units whose frame is flagged DISCARD or all skipped
          DrainFails,   \* TRUE: the codec may fail when it is drained
          NbErrorsMax   \* nb_errors_max (21 in the code without threads)

ASSUME PacketAssumption == Packet \subseteq Seq(Unit) \ {<<>>}
ASSUME CodecAssumption == CodecDelay \in Nat /\ DrainFails \in BOOLEAN
ASSUME NbErrorsAssumption == NbErrorsMax \in Nat

VARIABLES buffer_pkt,          \* avci->buffer_pkt, <<>> when empty
          bsf_pkt, bsf_eof,    \* bsfi->buffer_pkt, bsfi->eof
          in_pkt,              \* avci->in_pkt: what the codec has not read yet
          codec,               \* frames the codec holds back, oldest first
          buffer_frame,        \* avci->buffer_frame, <<>> or <<unit>>
          frame,               \* the client's AVFrame, <<>> or <<unit>>
          draining_started,    \* dc->draining_started: NULL was sent
          draining,            \* avci->draining: the end reached the codec
          draining_done,       \* avci->draining_done: never call it again
          nb_draining_errors,  \* dc->nb_draining_errors
          pc,                  \* where the running call is
          call,                \* the running call, "none" when idle
          result               \* the last call that returned since Init or a flush

vars == <<buffer_pkt, bsf_pkt, bsf_eof, in_pkt, codec, buffer_frame, frame,
          draining_started, draining, draining_done, nb_draining_errors,
          pc, call, result>>

packets == <<buffer_pkt, bsf_pkt, bsf_eof, in_pkt>>
frames  == <<codec, buffer_frame, frame>>
drain   == <<draining_started, draining, draining_done, nb_draining_errors>>

TypeOK ==
  /\ buffer_pkt \in Seq(Unit)
  /\ bsf_pkt \in Seq(Unit)
  /\ bsf_eof \in BOOLEAN
  /\ in_pkt \in Seq(Unit)
  /\ codec \in Seq(Unit)
  /\ buffer_frame \in Seq(Unit)
  /\ frame \in Seq(Unit)
  /\ draining_started \in BOOLEAN
  /\ draining \in BOOLEAN
  /\ draining_done \in BOOLEAN
  /\ nb_draining_errors \in Nat
  /\ pc \in {"idle", "simple", "fetch", "decode"}
  /\ call \in {"none", "send", "receive"}
  /\ result \in [of : {"none", "send", "receive"},
                 ret : {"OK", "EAGAIN", "EOF", "ERR", "BUG"}]

Init == /\ buffer_pkt = <<>> /\ bsf_pkt = <<>> /\ bsf_eof = FALSE
        /\ in_pkt = <<>> /\ codec = <<>>
        /\ buffer_frame = <<>> /\ frame = <<>>
        /\ draining_started = FALSE /\ draining = FALSE
        /\ draining_done = FALSE /\ nb_draining_errors = 0
        /\ pc = "idle" /\ call = "none"
        /\ result = [of |-> "none", ret |-> "OK"]

-----------------------------------------------------------------------------
(* Entering and leaving the library.                                       *)

\* A call that needs the codec: control goes to decode_simple_internal.
Enter(c) == pc' = "simple" /\ call' = c /\ UNCHANGED result

\* A call that returns without running the codec.
Answer(c, ret) == /\ result' = [of |-> c, ret |-> ret]
                  /\ UNCHANGED <<pc, call>>

\* The codec loop ends with ret, and with frame f when ret is "OK".  Send
\* keeps the frame in buffer_frame and forgets EAGAIN and EOF; receive gives
\* both to its caller.
Return(ret, f) ==
  /\ pc' = "idle" /\ call' = "none"
  /\ \/ /\ call = "send"
        /\ buffer_frame' = f
        /\ result' = [of |-> "send",
                      ret |-> IF ret \in {"EAGAIN", "EOF"} THEN "OK" ELSE ret]
        /\ UNCHANGED frame
     \/ /\ call = "receive"
        /\ frame' = f
        /\ result' = [of |-> "receive", ret |-> ret]
        /\ UNCHANGED buffer_frame

-----------------------------------------------------------------------------
(* The client's calls, each made only when no other call is running.       *)

SendPacket(p) ==
  /\ pc = "idle"
  /\ ~draining_started
  /\ buffer_pkt = <<>>
  /\ buffer_pkt' = p
  /\ IF buffer_frame = <<>> THEN Enter("send") ELSE Answer("send", "OK")
  /\ UNCHANGED <<bsf_pkt, bsf_eof, in_pkt, frames, drain>>

SendRefused ==
  /\ pc = "idle"
  /\ \/ draining_started /\ Answer("send", "EOF")
     \/ /\ ~draining_started /\ buffer_pkt # <<>>
        /\ Answer("send", "EAGAIN")
  /\ UNCHANGED <<packets, frames, drain>>

\* avcodec_send_packet(avctx, NULL), or a blank packet.
SendNull ==
  /\ pc = "idle"
  /\ ~draining_started
  /\ draining_started' = TRUE
  /\ Answer("send", "OK")
  /\ UNCHANGED <<packets, frames, draining, draining_done, nb_draining_errors>>

\* Variant with a bug: the frame send already decoded is not looked at.
ReceiveFrameSkipping ==
  /\ pc = "idle"
  /\ frame' = <<>>
  /\ Enter("receive")
  /\ UNCHANGED <<packets, codec, buffer_frame, drain>>

ReceiveFrame ==
  /\ pc = "idle"
  /\ frame' = buffer_frame
  /\ buffer_frame' = <<>>
  /\ IF buffer_frame # <<>> THEN Answer("receive", "OK") ELSE Enter("receive")
  /\ UNCHANGED <<packets, codec, drain>>

FlushBuffers ==
  /\ pc = "idle"
  /\ buffer_pkt' = <<>> /\ bsf_pkt' = <<>> /\ bsf_eof' = FALSE /\ in_pkt' = <<>>
  /\ codec' = <<>> /\ buffer_frame' = <<>>
  /\ draining_started' = FALSE /\ draining' = FALSE
  /\ draining_done' = FALSE /\ nb_draining_errors' = 0
  /\ result' = [of |-> "none", ret |-> "OK"]
  /\ UNCHANGED <<frame, pc, call>>

-----------------------------------------------------------------------------
(* decode_simple_internal: first make sure there is something to decode.   *)

SimpleStart ==
  /\ pc = "simple"
  /\ pc' = IF in_pkt = <<>> /\ ~draining THEN "fetch" ELSE "decode"
  /\ UNCHANGED <<packets, frames, drain, call, result>>

(* ff_decode_get_packet: alternate av_bsf_receive_packet and               *)
(* av_bsf_send_packet.  The null filter (ff_bsf_get_packet_ref) tests eof  *)
(* before it looks at its packet.                                          *)

\* Variant with a bug: the client's end of stream is taken for the filter's.
FetchEofEarly ==
  /\ pc = "fetch" /\ draining_started
  /\ draining' = TRUE
  /\ pc' = "decode"
  /\ UNCHANGED <<packets, frames, draining_started, draining_done,
                 nb_draining_errors, call, result>>

FetchEof ==
  /\ pc = "fetch"
  /\ bsf_eof
  /\ draining' = TRUE
  /\ pc' = "decode"
  /\ UNCHANGED <<packets, frames, draining_started, draining_done,
                 nb_draining_errors, call, result>>

FetchPacket ==
  /\ pc = "fetch"
  /\ ~bsf_eof /\ bsf_pkt # <<>>
  /\ in_pkt' = bsf_pkt
  /\ bsf_pkt' = <<>>
  /\ pc' = "decode"
  /\ UNCHANGED <<buffer_pkt, bsf_eof, frames, drain, call, result>>

\* Variant with a bug: the packet is copied to the filter, not moved.
FetchFeedCopy ==
  /\ pc = "fetch" /\ ~bsf_eof /\ bsf_pkt = <<>>
  /\ buffer_pkt # <<>> \/ draining_started
  /\ bsf_pkt' = buffer_pkt
  /\ bsf_eof' = (buffer_pkt = <<>>)
  /\ UNCHANGED <<buffer_pkt, in_pkt, frames, drain, pc, call, result>>

\* The filter is hungry and there is a packet, or the end, to feed it.
FetchFeed ==
  /\ pc = "fetch"
  /\ ~bsf_eof /\ bsf_pkt = <<>>
  /\ buffer_pkt # <<>> \/ draining_started
  /\ bsf_pkt' = buffer_pkt
  /\ buffer_pkt' = <<>>
  /\ bsf_eof' = (buffer_pkt = <<>>)
  /\ UNCHANGED <<in_pkt, frames, drain, pc, call, result>>

\* Variant with a bug: a hungry filter is reported before it is fed.
FetchNothingUnfed ==
  /\ pc = "fetch" /\ ~bsf_eof /\ bsf_pkt = <<>>
  /\ ~draining_started
  /\ Return("EAGAIN", <<>>)
  /\ UNCHANGED <<packets, codec, drain>>

FetchNothing ==
  /\ pc = "fetch"
  /\ ~bsf_eof /\ bsf_pkt = <<>>
  /\ buffer_pkt = <<>> /\ ~draining_started
  /\ Return("EAGAIN", <<>>)
  /\ UNCHANGED <<packets, codec, drain>>

-----------------------------------------------------------------------------
(* decode_simple_internal: run the codec once.                             *)

\* The codec is never called again after the end, nor drained without a delay.
Exhausted == draining_done \/ (in_pkt = <<>> /\ CodecDelay = 0)

DecodeEof ==
  /\ pc = "decode"
  /\ Exhausted
  /\ draining_done' = TRUE
  /\ Return("EOF", <<>>)
  /\ UNCHANGED <<packets, codec, draining_started, draining, nb_draining_errors>>

\* The oldest frame leaves the codec, which then holds rest: the loop ends
\* with it, or drops it and goes on when the frame is not for output.
Output(held) ==
  /\ codec' = Tail(held)
  /\ IF Head(held) \in Hidden
       THEN /\ pc' = "simple"
            /\ UNCHANGED <<buffer_frame, frame, call, result>>
       ELSE Return("OK", <<Head(held)>>)

DecodeUnit ==
  /\ pc = "decode" /\ ~Exhausted
  /\ in_pkt # <<>> /\ Head(in_pkt) \notin Corrupt
  /\ in_pkt' = Tail(in_pkt)
  /\ LET held == Append(codec, Head(in_pkt))
     IN IF Len(held) > CodecDelay
          THEN Output(held)
          ELSE /\ codec' = held
               /\ pc' = "simple"
               /\ UNCHANGED <<buffer_frame, frame, call, result>>
  /\ UNCHANGED <<buffer_pkt, bsf_pkt, bsf_eof, drain>>

\* An error costs the rest of the packet: av_packet_unref(in_pkt).
DecodeError ==
  /\ pc = "decode" /\ ~Exhausted
  /\ in_pkt # <<>> /\ Head(in_pkt) \in Corrupt
  /\ in_pkt' = <<>>
  /\ Return("ERR", <<>>)
  /\ UNCHANGED <<buffer_pkt, bsf_pkt, bsf_eof, codec, drain>>

DrainFrame ==
  /\ pc = "decode" /\ ~Exhausted
  /\ in_pkt = <<>> /\ codec # <<>>
  /\ Output(codec)
  /\ UNCHANGED <<packets, drain>>

\* No frame and no error: the codec is empty, the next round reports EOF.
DrainEnd ==
  /\ pc = "decode" /\ ~Exhausted
  /\ in_pkt = <<>> /\ codec = <<>>
  /\ draining_done' = TRUE
  /\ pc' = "simple"
  /\ UNCHANGED <<packets, frames, draining_started, draining,
                 nb_draining_errors, call, result>>

\* Variant with a bug: errors are counted but never end the draining.
DrainErrorForever ==
  /\ pc = "decode" /\ ~Exhausted
  /\ in_pkt = <<>> /\ DrainFails
  /\ codec' = codec \/ (codec # <<>> /\ codec' = Tail(codec))
  /\ nb_draining_errors' = IF nb_draining_errors < NbErrorsMax
                             THEN nb_draining_errors + 1 ELSE nb_draining_errors
  /\ Return("ERR", <<>>)
  /\ UNCHANGED <<packets, draining_started, draining, draining_done>>

\* A failing codec may drop the frame it was to output, or keep it; it is
\* asked again until it failed too often.
DrainError ==
  /\ pc = "decode" /\ ~Exhausted
  /\ in_pkt = <<>> /\ DrainFails
  /\ codec' = codec \/ (codec # <<>> /\ codec' = Tail(codec))
  /\ nb_draining_errors' = nb_draining_errors + 1
  /\ draining_done' = (nb_draining_errors >= NbErrorsMax)
  /\ Return(IF draining_done' THEN "BUG" ELSE "ERR", <<>>)
  /\ UNCHANGED <<packets, draining_started, draining>>

-----------------------------------------------------------------------------
Library == \/ SimpleStart
           \/ FetchEof \/ FetchPacket \/ FetchFeed \/ FetchNothing
           \/ DecodeEof \/ DecodeUnit \/ DecodeError
           \/ DrainFrame \/ DrainEnd \/ DrainError

Client == \/ \E p \in Packet : SendPacket(p)
          \/ SendRefused \/ SendNull \/ ReceiveFrame \/ FlushBuffers

Next == Client \/ Library

Spec == Init /\ [][Next]_vars

\* The library runs a call to its end: it has no reason to stop on the way.
\* A polling client is one that keeps asking for frames.
FairSpec == Spec /\ WF_vars(Library) /\ WF_vars(ReceiveFrame)

-----------------------------------------------------------------------------
(* Properties.                                                             *)

\* Everything accepted and neither delivered nor lost, oldest first.
Held == buffer_frame \o codec \o in_pkt \o bsf_pkt \o buffer_pkt

\* The codec was cut off because it failed too often (decode.c 454-464).
CutOff == draining_done /\ nb_draining_errors > NbErrorsMax

Idle == pc = "idle"

\* How the flags of three layers (send, bitstream filter, codec) follow one
\* another: the end never overtakes a packet (the null filter answers EOF
\* without looking at its packet, and the feeding loop would drop buffer_pkt
\* with it), and the codec is drained only when nothing is left upstream.
DrainOrder ==
  /\ bsf_eof => /\ draining_started
                /\ buffer_pkt = <<>> /\ bsf_pkt = <<>> /\ in_pkt = <<>>
  /\ draining => bsf_eof /\ buffer_frame = <<>>
  /\ draining_done => draining /\ (codec = <<>> \/ CutOff)
  /\ pc = "decode" /\ in_pkt = <<>> => draining

\* receive reports the end of stream only when every accepted unit has been
\* delivered, lost with an error or hidden - or the codec was cut off.
EofMeansEmpty ==
  result = [of |-> "receive", ret |-> "EOF"] => Held = <<>> \/ CutOff

\* avcodec.h 144-145: in draining mode receive never asks for more input.
NoEagainWhenDraining ==
  [][draining_started /\ result' # result => result'.ret # "EAGAIN"]_vars

\* avcodec.h 2528-2529: when receive asks for input it has read everything
\* that was sent, so the next packet is taken.
HungryMeansAccepting ==
  Idle /\ result = [of |-> "receive", ret |-> "EAGAIN"]
    => /\ ~draining_started
       /\ buffer_frame = <<>> /\ in_pkt = <<>> /\ buffer_pkt = <<>>

\* A call of the library always returns, whatever the codec does.
CallsReturn == ~Idle ~> Idle

\* A client that keeps polling sees the end of stream even when the codec
\* fails forever (decode.c 454-455), unless it resets the decoder.
DrainTerminates ==
  draining_started ~> \/ result = [of |-> "receive", ret |-> "EOF"]
                      \/ ~draining_started

\* The pipeline is a first-in first-out queue.  A codec that was cut off may
\* still hold frames: they are lost.
Queue == IF draining_done THEN <<>> ELSE Held
Refinement ==
  INSTANCE Pipe WITH queue <- Queue, closed <- draining_started
PipeSpec == Refinement!Spec
=============================================================================
