------------------------------ MODULE Encoder ------------------------------
(***************************************************************************)
(* The encoding pipeline of one AVCodecContext behind avcodec_send_frame / *)
(* avcodec_receive_packet (libavcodec/encode.c), for a codec of the        *)
(* FF_CODEC_CB_TYPE_ENCODE kind without frame threads:                     *)
(*                                                                         *)
(*   client -> buffer_frame -> codec -> buffer_pkt                         *)
(*                                  \-> packet                             *)
(*                                                                         *)
(* Unlike the decoder it has one flag for the end of stream, runs the      *)
(* codec in the very call that sends it, and gives up draining at the      *)
(* first error.  A packet is named by the frame it encodes.                *)
(***************************************************************************)
EXTENDS Naturals, Sequences

CONSTANTS Frame,        \* the frames the client may send
          CodecDelay,   \* frames the codec may hold; > 0: AV_CODEC_CAP_DELAY
          Skipped,      \* frames the codec makes no packet of
          EncodeFails,  \* TRUE: the codec may fail
          Sized,        \* audio without AV_CODEC_CAP_VARIABLE_FRAME_SIZE
          Short,        \* frames with less samples than frame_size
          Unfit,        \* frames with too many samples, or without a format
          Flushable     \* AV_CODEC_CAP_ENCODER_FLUSH

ASSUME FrameAssumption == /\ Skipped \subseteq Frame /\ Short \subseteq Frame
                          /\ Unfit \subseteq Frame \ Short
ASSUME CodecAssumption == /\ CodecDelay \in Nat
                          /\ {EncodeFails, Sized, Flushable} \subseteq BOOLEAN

VARIABLES buffer_frame,      \* avci->buffer_frame, <<>> or <<frame>>
          codec,             \* frames the codec holds, oldest first
          buffer_pkt,        \* avci->buffer_pkt, <<>> or <<frame>>
          packet,            \* the client's AVPacket, <<>> or <<frame>>
          last_audio_frame,  \* ec->last_audio_frame
          draining,          \* avci->draining: NULL was sent
          draining_done,     \* avci->draining_done
          pc,                \* "idle", or "encode" inside a call
          call,              \* the running call, "none" when idle
          result             \* the last call that returned since Init or a flush

vars == <<buffer_frame, codec, buffer_pkt, packet, last_audio_frame, draining,
          draining_done, pc, call, result>>

TypeOK ==
  /\ buffer_frame \in Seq(Frame) /\ Len(buffer_frame) <= 1
  /\ codec \in Seq(Frame) /\ Len(codec) <= CodecDelay
  /\ buffer_pkt \in Seq(Frame) /\ Len(buffer_pkt) <= 1
  /\ packet \in Seq(Frame) /\ Len(packet) <= 1
  /\ {last_audio_frame, draining, draining_done} \subseteq BOOLEAN
  /\ pc \in {"idle", "encode"}
  /\ call \in {"none", "send", "receive"}
  /\ result \in [of : {"none", "send", "receive"},
                 ret : {"OK", "EAGAIN", "EOF", "EINVAL", "ERR"}]

Init == /\ buffer_frame = <<>> /\ codec = <<>>
        /\ buffer_pkt = <<>> /\ packet = <<>>
        /\ last_audio_frame = FALSE
        /\ draining = FALSE /\ draining_done = FALSE
        /\ pc = "idle" /\ call = "none"
        /\ result = [of |-> "none", ret |-> "OK"]

-----------------------------------------------------------------------------
(* Entering and leaving the library.                                       *)

Enter(c) == pc' = "encode" /\ call' = c /\ UNCHANGED result

Answer(c, ret) == /\ result' = [of |-> c, ret |-> ret]
                  /\ UNCHANGED <<pc, call>>

\* The codec loop ends with ret, and with packet p when ret is "OK".  Send
\* keeps the packet in buffer_pkt and forgets EAGAIN and EOF.
Return(ret, p) ==
  /\ pc' = "idle" /\ call' = "none"
  /\ \/ /\ call = "send"
        /\ buffer_pkt' = p
        /\ result' = [of |-> "send",
                      ret |-> IF ret \in {"EAGAIN", "EOF"} THEN "OK" ELSE ret]
        /\ UNCHANGED packet
     \/ /\ call = "receive"
        /\ packet' = p
        /\ result' = [of |-> "receive", ret |-> ret]
        /\ UNCHANGED buffer_pkt

-----------------------------------------------------------------------------
(* The client's calls.                                                     *)

Accepting == pc = "idle" /\ ~draining /\ buffer_frame = <<>>

\* encode_send_frame_internal: a short audio frame has to be the last one.
Fits(f) == f \notin Unfit /\ ~(Sized /\ last_audio_frame)

SendFrame(f) ==
  /\ Accepting /\ Fits(f)
  /\ buffer_frame' = <<f>>
  /\ last_audio_frame' = (last_audio_frame \/ (Sized /\ f \in Short))
  /\ IF buffer_pkt = <<>> THEN Enter("send") ELSE Answer("send", "OK")
  /\ UNCHANGED <<codec, buffer_pkt, packet, draining, draining_done>>

SendInvalid(f) ==
  /\ Accepting /\ ~Fits(f)
  /\ Answer("send", "EINVAL")
  /\ UNCHANGED <<buffer_frame, codec, buffer_pkt, packet, last_audio_frame,
                 draining, draining_done>>

SendRefused ==
  /\ pc = "idle"
  /\ \/ draining /\ Answer("send", "EOF")
     \/ ~draining /\ buffer_frame # <<>> /\ Answer("send", "EAGAIN")
  /\ UNCHANGED <<buffer_frame, codec, buffer_pkt, packet, last_audio_frame,
                 draining, draining_done>>

\* Variant with a bug: the end is accepted while a frame waits.
SendNullUnchecked ==
  /\ pc = "idle" /\ ~draining
  /\ draining' = TRUE
  /\ IF buffer_pkt = <<>> THEN Enter("send") ELSE Answer("send", "OK")
  /\ UNCHANGED <<buffer_frame, codec, buffer_pkt, packet, last_audio_frame,
                 draining_done>>

SendNull ==
  /\ Accepting
  /\ draining' = TRUE
  /\ IF buffer_pkt = <<>> THEN Enter("send") ELSE Answer("send", "OK")
  /\ UNCHANGED <<buffer_frame, codec, buffer_pkt, packet, last_audio_frame,
                 draining_done>>

ReceivePacket ==
  /\ pc = "idle"
  /\ packet' = buffer_pkt
  /\ buffer_pkt' = <<>>
  /\ IF buffer_pkt # <<>> THEN Answer("receive", "OK") ELSE Enter("receive")
  /\ UNCHANGED <<buffer_frame, codec, last_audio_frame, draining, draining_done>>

\* avcodec_flush_buffers does nothing to other encoders, and nothing at all
\* to last_audio_frame.
FlushBuffers ==
  /\ pc = "idle" /\ Flushable
  /\ buffer_frame' = <<>> /\ codec' = <<>> /\ buffer_pkt' = <<>>
  /\ draining' = FALSE /\ draining_done' = FALSE
  /\ result' = [of |-> "none", ret |-> "OK"]
  /\ UNCHANGED <<packet, last_audio_frame, pc, call>>

-----------------------------------------------------------------------------
(* encode_simple_internal, one round of the loop around it per step.       *)

\* The codec's oldest frame leaves it as a packet, or as nothing.
Output(held) ==
  /\ codec' = Tail(held)
  /\ IF Head(held) \in Skipped
       THEN UNCHANGED <<buffer_pkt, packet, pc, call, result>>
       ELSE Return("OK", <<Head(held)>>)

\* Variant with a bug: input is asked for before the frame is looked at.
EncodeHungryUntaken ==
  /\ pc = "encode" /\ ~draining
  /\ Return("EAGAIN", <<>>)
  /\ UNCHANGED <<buffer_frame, codec, last_audio_frame, draining, draining_done>>

EncodeHungry ==
  /\ pc = "encode" /\ ~draining /\ buffer_frame = <<>>
  /\ Return("EAGAIN", <<>>)
  /\ UNCHANGED <<buffer_frame, codec, last_audio_frame, draining, draining_done>>

\* Variant with a bug: the newest frame leaves the codec first.
EncodeFrameNewest ==
  /\ pc = "encode" /\ ~draining /\ buffer_frame # <<>>
  /\ buffer_frame' = <<>>
  /\ \/ Output(buffer_frame \o codec)
     \/ /\ Len(codec) < CodecDelay
        /\ codec' = codec \o buffer_frame
        /\ UNCHANGED <<buffer_pkt, packet, pc, call, result>>
  /\ UNCHANGED <<last_audio_frame, draining, draining_done>>

EncodeFrame ==
  /\ pc = "encode" /\ ~draining /\ buffer_frame # <<>>
  /\ buffer_frame' = <<>>
  /\ \/ Output(codec \o buffer_frame)
     \/ /\ Len(codec) < CodecDelay
        /\ codec' = codec \o buffer_frame
        /\ UNCHANGED <<buffer_pkt, packet, pc, call, result>>
  /\ UNCHANGED <<last_audio_frame, draining, draining_done>>

EncodeError ==
  /\ pc = "encode" /\ ~draining /\ buffer_frame # <<>> /\ EncodeFails
  /\ buffer_frame' = <<>>
  /\ Return("ERR", <<>>)
  /\ UNCHANGED <<codec, last_audio_frame, draining, draining_done>>

\* Draining is over, or the codec is not one to be drained.
EncodeEof ==
  /\ pc = "encode" /\ draining
  /\ draining_done \/ CodecDelay = 0
  /\ draining_done' = TRUE
  /\ Return("EOF", <<>>)
  /\ UNCHANGED <<buffer_frame, codec, last_audio_frame, draining>>

\* Draining a codec that takes its NULL frame while it has one to encode.
Draining == pc = "encode" /\ draining /\ ~draining_done /\ CodecDelay > 0

\* A drained codec passes over a skipped frame within one of its own calls: a
\* call without a packet means that it has nothing left.
DrainSkips ==
  /\ Draining /\ codec # <<>> /\ Head(codec) \in Skipped
  /\ codec' = Tail(codec)
  /\ UNCHANGED <<buffer_frame, buffer_pkt, packet, last_audio_frame, draining,
                 draining_done, pc, call, result>>

DrainPacket ==
  /\ Draining /\ codec # <<>> /\ Head(codec) \notin Skipped
  /\ codec' = Tail(codec)
  /\ Return("OK", <<Head(codec)>>)
  /\ UNCHANGED <<buffer_frame, last_audio_frame, draining, draining_done>>

DrainEnd ==
  /\ Draining /\ codec = <<>>
  /\ draining_done' = TRUE
  /\ UNCHANGED <<buffer_frame, codec, buffer_pkt, packet, last_audio_frame,
                 draining, pc, call, result>>

\* The first error ends the draining, whatever the codec still holds.
DrainError ==
  /\ Draining /\ EncodeFails
  /\ draining_done' = TRUE
  /\ Return("ERR", <<>>)
  /\ UNCHANGED <<buffer_frame, codec, last_audio_frame, draining>>

-----------------------------------------------------------------------------
Library == \/ EncodeHungry \/ EncodeFrame \/ EncodeError \/ EncodeEof
           \/ DrainSkips \/ DrainPacket \/ DrainEnd \/ DrainError

Client == \/ \E f \in Frame : SendFrame(f) \/ SendInvalid(f)
          \/ SendRefused \/ SendNull \/ ReceivePacket \/ FlushBuffers

Next == Client \/ Library

Spec == Init /\ [][Next]_vars

\* The library runs a call to its end.
FairSpec == Spec /\ WF_vars(Library)

-----------------------------------------------------------------------------
(* Properties.                                                             *)

\* Everything accepted and neither delivered nor lost, oldest first.
Held == buffer_pkt \o codec \o buffer_frame

Idle == pc = "idle"

\* One flag has to do for the whole pipeline: the end is accepted only when no
\* frame waits, and the codec is given up only when it is empty or failed.
DrainOrder ==
  /\ draining => buffer_frame = <<>>
  /\ draining_done => draining /\ (codec = <<>> \/ EncodeFails)

\* avcodec.h 119-121: a receive that asks for input has given out and encoded
\* all that was sent, so the next frame, or the end, is taken.
HungryMeansAccepting ==
  Idle /\ result = [of |-> "receive", ret |-> "EAGAIN"]
    => Accepting /\ buffer_pkt = <<>>

\* avcodec.h 3041-3046: a flushed encoder can be used for another stream.
FlushedIsFresh ==
  [][result.of = "none" => result' # [of |-> "send", ret |-> "EINVAL"]]_vars

\* The pipeline is a first-in first-out queue; what a codec that failed while
\* it was drained still holds is lost.
Queue == IF draining_done THEN <<>> ELSE Held
Refinement ==
  INSTANCE Pipe WITH Unit <- Frame, Packet <- {<<f>> : f \in Frame},
                     Hidden <- Skipped, queue <- Queue, closed <- draining,
                     frame <- packet
PipeSpec == Refinement!Spec
=============================================================================
