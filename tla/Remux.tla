------------------------------- MODULE Remux -------------------------------
(***************************************************************************)
(* The remuxer src/src/mp4toflv.c over the interleaving muxer it drives    *)
(* (module Muxer): map the audio, video and subtitle streams of the input  *)
(* to output streams, write the header, copy every packet with its         *)
(* timestamps in the time base of the output, write the trailer.           *)
(*                                                                         *)
(* The loop looks two things up with the index a packet has in the input:  *)
(* the entry of handleStreamIndexArray, and outFmtCtx->streams, which has  *)
(* output streams only.  Reading past the end of the latter is undefined   *)
(* behaviour: the model stops there.                                       *)
(***************************************************************************)
EXTENDS Muxer, Selection

CONSTANTS NbInStreams,  \* inFmtCtx->nb_streams
          Kept,         \* input streams of type VIDEO, AUDIO or SUBTITLE
          InBase,       \* InBase[i]: length of a tick of input stream i
          Inputs        \* sequences of packets [stream, dts]

InStream == 0 .. NbInStreams - 1

ASSUME KeptAssumption == NbInStreams \in Nat /\ Kept \subseteq InStream
                         /\ NbStreams = Cardinality(Kept)
ASSUME InBaseAssumption == InBase \in [InStream -> Nat \ {0}]

VARIABLES input,        \* what the demuxer returns, fixed
          pos,          \* packets read so far
          at            \* where the program is

remuxVars == <<muxVars, input, pos, at>>

RemuxInit == MuxInit /\ input \in Inputs /\ pos = 0 /\ at = "read"

-----------------------------------------------------------------------------
(* Looking streams up.                                                     *)

handleStreamIndexArray ==
  [i \in InStream |-> IF i \in Kept THEN Cardinality({k \in Kept : k < i})
                                    ELSE -1]

\* array[packet->stream_index == -1]: the test reads element 0.  The first
\* half of the test, stream_index >= streamCount, is for streams found while
\* reading; inputs have streams of InStream only.
Released == handleStreamIndexArray[0] # 0

\* av_packet_unref leaves a blank packet, and the loop goes on with it.
Blank == [stream |-> 0, dts |-> NoDts]

\* av_rescale_q with AV_ROUND_NEAR_INF from ticks of b to ticks of c.  What
\* AV_NOPTS_VALUE becomes does not matter: that packet has no output stream.
Rescale(a, b, c) ==
  IF a = NoDts THEN NoDts
  ELSE IF a < 0 THEN -((c \div 2 - b * a) \div c)
  ELSE (b * a + c \div 2) \div c

\* Variant with a bug: the time base of the first output stream for all.
OutBaseFirst(i) == TimeBase[0]

\* outStream->time_base, looked up with the index of the input.
OutBase(i) == TimeBase[i]

-----------------------------------------------------------------------------
(* The copy loop.                                                          *)

Copy ==
  /\ at = "read" /\ pos < Len(input)
  /\ pos' = pos + 1
  /\ LET pkt == IF Released THEN Blank ELSE input[pos + 1]
         s   == handleStreamIndexArray[pkt.stream]
         dts == Rescale(pkt.dts, InBase[pkt.stream], OutBase(pkt.stream))
     IN  IF pkt.stream \in Stream
           THEN /\ at' = "write"
                /\ Accept(s, dts) \/ Refuse(s, dts)
           ELSE at' = "fault" /\ UNCHANGED muxVars
  /\ UNCHANGED input

Copied ==
  /\ at = "write" /\ mpc = "idle"
  /\ at' = IF ret = "OK" THEN "read" ELSE "aborted"
  /\ UNCHANGED <<muxVars, input, pos>>

\* The end of the input, or an error: both end the loop the same way.
ReadFails ==
  /\ at = "read"
  /\ at' = "trailer"
  /\ WriteTrailer
  /\ UNCHANGED <<input, pos>>

TrailerWritten ==
  /\ at = "trailer" /\ mpc = "done"
  /\ at' = "done"
  /\ UNCHANGED <<muxVars, input, pos>>

Muxing == MuxStep /\ UNCHANGED <<input, pos, at>>

RemuxOver == at \in {"done", "aborted", "fault"} /\ UNCHANGED remuxVars

RemuxNext == Copy \/ Copied \/ ReadFails \/ TrailerWritten \/ Muxing \/ RemuxOver

RemuxSpec == RemuxInit /\ [][RemuxNext]_remuxVars

\* One thread runs program and library: it never stops on its own.
RemuxFairSpec == RemuxSpec /\ WF_remuxVars(RemuxNext)

-----------------------------------------------------------------------------
(* Properties.                                                             *)

\* The packets of stream i in s.
Of(s, i) == Omit(s, {p \in Entries(s) : p.stream # i})

\* The dts that input stream i should have in the file, from what was read.
Expected(i) ==
  LET mine == Of(SubSeq(input, 1, pos), i)
      base == TimeBase[handleStreamIndexArray[i]]
  IN  [k \in 1 .. Len(mine) |-> Rescale(mine[k].dts, InBase[i], base)]

Copies(i) ==
  LET mine == Of(written \o packet_buffer, handleStreamIndexArray[i])
  IN  [k \in 1 .. Len(mine) |-> mine[k].dts]

\* Between rounds, and at the end, the muxer has every packet of every kept
\* stream that was read, in order and in its own stream's time base.
RemuxFaithful ==
  at \in {"read", "trailer", "done"} /\ lost = {}
    => \A i \in Kept : Copies(i) = Expected(i)

\* What the two lookups let through: a packet of a handled stream, if the
\* first stream of the input is handled (mp4toflv.c 108) and the packet's
\* index is also one of an output stream (115).
Placeable(pkt) == pkt.stream \in Kept \cap Stream /\ 0 \in Kept

\* A remux without write errors stops early at the first packet it cannot
\* place, and there only: the muxer refuses none of the others, although
\* rescaling may make timestamps equal.  Packets of a stream that the comment
\* of mp4toflv.c 62 says is not handled are not skipped: they end the remux.
StopsAtUnplaceable ==
  lost = {} /\ at # "write" =>
    (at \in {"aborted", "fault"} <=> pos > 0 /\ ~Placeable(input[pos]))

\* A file that got its trailer without errors has everything that was read,
\* across the streams in the order of the timestamps unless forced.
FileComplete ==
  at = "done" /\ ret = "OK"
    => /\ packet_buffer = <<>>
       /\ Len(written) = pos
       /\ ~forced => Sorted(written)

=============================================================================
