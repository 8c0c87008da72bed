------------------------------- MODULE Muxer -------------------------------
(***************************************************************************)
(* The interleaving muxer of libavformat/mux.c: av_interleaved_write_frame *)
(* and av_write_trailer over ff_interleave_packet_per_dts.  Packets wait   *)
(* in one list ordered by dts until every stream has one, the list spans   *)
(* more than max_interleave_delta, or the client flushes; then the head is *)
(* written, one packet per step, and any write may fail.                   *)
(*                                                                         *)
(* One stream alone is passed through: the list then holds its packet for  *)
(* an instant only, and nothing else differs.                              *)
(***************************************************************************)
EXTENDS Integers, Sequences, FiniteSets

CONSTANTS NbStreams,    \* s->nb_streams: streams are 0 .. NbStreams - 1
          TimeBase,     \* TimeBase[s]: length of a tick of stream s
          Subtitle,     \* streams of type SUBTITLE
          Data,         \* streams of type DATA
          Sparse,       \* streams of codec VP8, VP9 or SMPTE_2038
          TsNonstrict,  \* the format's flag AVFMT_TS_NONSTRICT
          MaxDelta,     \* max_interleave_delta, 0: unlimited
          WriteFails,   \* TRUE: writing a packet may fail
          NoDts,        \* AV_NOPTS_VALUE
          Dts,          \* the dts the client may use
          MaxPackets    \* packets accepted are counted up to here

Stream == 0 .. NbStreams - 1

ASSUME StreamAssumption == NbStreams \in Nat /\ Subtitle \subseteq Stream
                           /\ Data \subseteq Stream /\ Sparse \subseteq Stream
ASSUME TimeAssumption == TimeBase \in [Stream -> Nat \ {0}] /\ MaxDelta \in Nat
ASSUME DtsAssumption == Dts \subseteq Int /\ NoDts \notin Int
ASSUME FlagAssumption == TsNonstrict \in BOOLEAN /\ WriteFails \in BOOLEAN
ASSUME BoundAssumption == MaxPackets \in Nat

VARIABLES packet_buffer,  \* si->packet_buffer: records [id, stream, dts]
          last,           \* last_in_packet_buffer: id of the entry, 0 for NULL
          cur_dts,        \* sti->cur_dts
          mpc,            \* "idle", or the running call
          ret,            \* what the last call returned
          written,        \* the packets in the file, in order
          lost,           \* history: packets whose write failed
          forced,         \* history: a packet was put out ahead of a stream
          nb_accepted     \* history: packets accepted, also the last id given

muxVars == <<packet_buffer, last, cur_dts, mpc, ret, written, lost, forced,
             nb_accepted>>

Entry == [id : Nat, stream : Stream, dts : Int]
Entries(s) == {s[i] : i \in 1 .. Len(s)}

MuxInit ==
  /\ packet_buffer = <<>>
  /\ last = [s \in Stream |-> 0]
  /\ cur_dts = [s \in Stream |-> NoDts]
  /\ mpc = "idle" /\ ret = "OK"
  /\ written = <<>> /\ lost = {}
  /\ forced = FALSE /\ nb_accepted = 0

-----------------------------------------------------------------------------
(* Accepting a packet: write_packets_common.                               *)

\* Variant with a bug: the format's flag is not looked at.
MonotoneStrict(s, dts) ==
  cur_dts[s] \notin {NoDts, 0} => cur_dts[s] < dts

\* compute_muxer_pkt_fields refuses a dts that does not grow; a current dts
\* of 0 is taken for an unset one.
Monotone(s, dts) ==
  cur_dts[s] \notin {NoDts, 0} =>
    \/ cur_dts[s] < dts
    \/ cur_dts[s] = dts /\ (TsNonstrict \/ s \in Subtitle \cup Data)

\* interleave_compare_dts(next, pkt): next has to come after pkt.
After(next, pkt) ==
  LET t == TimeBase[next.stream] * next.dts
      u == TimeBase[pkt.stream] * pkt.dts
  IN  t > u \/ (t = u /\ pkt.stream < next.stream)

Insert(s, i, e) == SubSeq(s, 1, i - 1) \o <<e>> \o SubSeq(s, i, Len(s))

\* Where the search starts: behind the stream's last packet, or at the head.
SearchFrom(s) == 1 + Cardinality({i \in 1 .. Len(packet_buffer) :
                   \E j \in i .. Len(packet_buffer) : packet_buffer[j].id = last[s]})

\* Variant with a bug: the packet goes right behind the stream's last one.
PositionUnscanned(pkt) == SearchFrom(pkt.stream)

\* ff_interleave_add_packet: the tail decides whether a scan is needed.
Position(pkt) ==
  LET from == SearchFrom(pkt.stream)
      end  == Len(packet_buffer) + 1
      later == {i \in from .. end - 1 : After(packet_buffer[i], pkt)}
  IN  IF from < end /\ After(packet_buffer[end - 1], pkt)
        THEN CHOOSE i \in later : \A j \in later : i <= j
        ELSE end

Accept(s, dts) ==
  /\ mpc = "idle"
  /\ s \in Stream /\ Monotone(s, dts)
  /\ nb_accepted' = nb_accepted + 1
  /\ LET pkt == [id |-> nb_accepted', stream |-> s, dts |-> dts]
     IN  /\ packet_buffer' = Insert(packet_buffer, Position(pkt), pkt)
         /\ last' = [last EXCEPT ![s] = pkt.id]
  /\ cur_dts' = [cur_dts EXCEPT ![s] = dts]
  /\ mpc' = "write"
  /\ UNCHANGED <<ret, written, lost, forced>>

\* check_packet and compute_muxer_pkt_fields.
Refuse(s, dts) ==
  /\ mpc = "idle"
  /\ s \in Stream => ~Monotone(s, dts)
  /\ ret' = "EINVAL"
  /\ UNCHANGED <<packet_buffer, last, cur_dts, mpc, written, lost, forced,
                 nb_accepted>>

\* av_interleaved_write_frame(s, NULL).
FlushQueue == /\ mpc = "idle" /\ mpc' = "flush"
              /\ UNCHANGED <<packet_buffer, last, cur_dts, ret, written, lost,
                             forced, nb_accepted>>

WriteTrailer == /\ mpc = "idle" /\ mpc' = "trailer"
                /\ UNCHANGED <<packet_buffer, last, cur_dts, ret, written, lost,
                               forced, nb_accepted>>

-----------------------------------------------------------------------------
(* interleaved_write_packet: put packets out while the interleaver allows. *)

Waiting(s) == last[s] # 0

\* Variant with a bug: one waiting stream is enough.
SomeStreamWaits == \E s \in Stream : Waiting(s)

EveryStreamWaits == \A s \in Stream : Waiting(s)

Time(e) == TimeBase[e.stream] * e.dts

\* Variant with a bug: the limit holds back packets below it, not above.
OverdueBelow ==
  /\ MaxDelta > 0
  /\ \A s \in Sparse : Waiting(s)
  /\ \E e \in Entries(packet_buffer) :
       /\ e.id = last[e.stream] /\ e.stream \notin Subtitle
       /\ Time(packet_buffer[1]) - Time(e) > MaxDelta

\* The list spans more than max_interleave_delta, subtitles not counted; a
\* stream of Sparse without a packet switches the rule off.
Overdue ==
  /\ MaxDelta > 0
  /\ \A s \in Sparse : Waiting(s)
  /\ \E e \in Entries(packet_buffer) :
       /\ e.id = last[e.stream] /\ e.stream \notin Subtitle
       /\ Time(e) - Time(packet_buffer[1]) > MaxDelta

Outputs == /\ packet_buffer # <<>>
           /\ mpc \in {"flush", "trailer"} \/ EveryStreamWaits \/ Overdue

\* Variant with a bug: the loop ends on an error only, not when it is done.
FinishedLooping == IF mpc = "trailer" THEN "done" ELSE mpc

Finished == IF mpc = "trailer" THEN "done" ELSE "idle"

Pop == LET e == Head(packet_buffer)
       IN  /\ packet_buffer' = Tail(packet_buffer)
           /\ last' = IF last[e.stream] = e.id THEN [last EXCEPT ![e.stream] = 0]
                                               ELSE last

PutOut ==
  /\ mpc \in {"write", "flush", "trailer"} /\ Outputs
  /\ Pop
  /\ written' = Append(written, Head(packet_buffer))
  /\ forced' = (forced \/ (mpc # "trailer" /\ ~EveryStreamWaits))
  /\ UNCHANGED <<cur_dts, mpc, ret, lost, nb_accepted>>

\* Variant with a bug: the packet that failed stays in the list.
PutOutFailsKeeping ==
  /\ mpc \in {"write", "flush", "trailer"} /\ Outputs /\ WriteFails
  /\ lost' = lost \cup {Head(packet_buffer)}
  /\ mpc' = Finished /\ ret' = "EIO"
  /\ UNCHANGED <<packet_buffer, last, cur_dts, written, forced, nb_accepted>>

\* A failing write ends the call; the rest of the list stays where it is.
PutOutFails ==
  /\ mpc \in {"write", "flush", "trailer"} /\ Outputs /\ WriteFails
  /\ Pop
  /\ lost' = lost \cup {Head(packet_buffer)}
  /\ mpc' = Finished /\ ret' = "EIO"
  /\ forced' = (forced \/ (mpc # "trailer" /\ ~EveryStreamWaits))
  /\ UNCHANGED <<cur_dts, written, nb_accepted>>

CallReturns ==
  /\ mpc \in {"write", "flush", "trailer"} /\ ~Outputs
  /\ mpc' = Finished /\ ret' = "OK"
  /\ UNCHANGED <<packet_buffer, last, cur_dts, written, lost, forced, nb_accepted>>

MuxStep == PutOut \/ PutOutFails \/ CallReturns

-----------------------------------------------------------------------------
(* The muxer with a client that sends anything, up to MaxPackets packets.  *)

MuxClient ==
  \/ \E s \in -1 .. NbStreams, dts \in Dts :
       (nb_accepted < MaxPackets /\ Accept(s, dts)) \/ Refuse(s, dts)
  \/ FlushQueue \/ WriteTrailer

MuxOver == mpc = "done" /\ UNCHANGED muxVars

MuxNext == MuxClient \/ MuxStep \/ MuxOver

MuxSpec == MuxInit /\ [][MuxNext]_muxVars

\* A call of the library runs to its end; clients need not call at all.
MuxFairSpec == MuxSpec /\ WF_muxVars(MuxStep)

-----------------------------------------------------------------------------
(* Properties.                                                             *)

Sorted(s) == \A i, j \in 1 .. Len(s) : i < j => ~After(s[i], s[j])

\* The representation: the list is ordered, and each stream's pointer names
\* the stream's last entry in it, NULL when there is none.  A pointer to an
\* entry that was written would be a use after free.
ListSound ==
  /\ Sorted(packet_buffer)
  /\ \A s \in Stream :
       LET mine == {i \in 1 .. Len(packet_buffer) : packet_buffer[i].stream = s}
       IN  IF mine = {} THEN last[s] = 0
           ELSE \E i \in mine : /\ packet_buffer[i].id = last[s]
                                /\ \A j \in mine : j <= i

\* Correct interleaving (avformat.h 2544-2546): the file is ordered by dts,
\* over all streams, and no waiting packet should already be in it - unless
\* the delay limit or the client forced packets out.  Forced or not, a
\* stream's packets keep the order they were sent in.
Interleaved ==
  LET all == written \o packet_buffer
  IN  /\ ~forced => Sorted(all)
      /\ \A i, j \in 1 .. Len(all) :
           i < j /\ all[i].stream = all[j].stream => all[i].id < all[j].id

\* Every accepted packet is in exactly one place: the file, the list, or
\* lost with a write that failed.
Conserved ==
  LET all == written \o packet_buffer
  IN  /\ Len(all) + Cardinality(lost) = nb_accepted
      /\ {e.id : e \in Entries(all) \cup lost} = 1 .. nb_accepted

\* A trailer that succeeds leaves nothing behind.  Any other call that
\* succeeds leaves nothing waiting that could be written: some stream has no
\* packet yet, and no packet but a subtitle is further from the head of the
\* list than the limit, when the limit applies.
NothingWithheld ==
  ret = "OK" /\ packet_buffer # <<>> =>
    /\ mpc # "done"
    /\ mpc = "idle" =>
         /\ ~EveryStreamWaits
         /\ MaxDelta > 0 /\ (\A s \in Sparse : Waiting(s)) =>
              \A e \in Entries(packet_buffer) :
                e.stream \notin Subtitle =>
                  Time(e) - Time(packet_buffer[1]) <= MaxDelta

\* Every call returns, and the trailer is the last one.
MuxCallsReturn == mpc \in {"write", "flush", "trailer"} ~> mpc \in {"idle", "done"}
=============================================================================
