----------------------------- MODULE DecodeLoop -----------------------------
(***************************************************************************)
(* The loop of the six decoding programs of src/src, composed with the     *)
(* decoder they drive (module Decoder): read a packet from the demuxer,    *)
(* send it if it belongs to the chosen stream, receive frames until the    *)
(* decoder has none, write each of them, release the packet, read again;   *)
(* at the end of the input send NULL and drain.                            *)
(*                                                                         *)
(* The programs differ in a few decisions, kept in a record per program:   *)
(*   audio      packets may hold several coded frames, for video just one  *)
(*   aborts     a failing send ends the program (decodeVideo returns -1)   *)
(*   unrefsAll  every packet is released, not only those of the stream     *)
(*   endless    the loop is while (1): reading never ends it (capture)     *)
(*                                                                         *)
(* expected is a history variable: the frames the packets sent so far      *)
(* decode to.                                                              *)
(***************************************************************************)
EXTENDS Decoder, Selection

CONSTANTS Programs,   \* the programs a run looks at
          Inputs      \* the inputs it looks at

\* An input is a sequence of packets of the chosen stream and of others.
Read == [own : {TRUE}, data : Packet] \cup [own : {FALSE}, data : {<<>>}]
ASSUME InputsAssumption == Inputs \subseteq Seq(Read)

VARIABLES program,    \* the running program, fixed
          input,      \* what the demuxer has not returned yet
          packet,     \* the program's AVPacket: <<>> blank, else <<record>>
          at,         \* where the program is
          out,        \* the frames written to the output file
          expected    \* history: frames of the packets sent

loopVars == <<program, input, packet, at, out, expected>>
decVars == vars
allVars == <<decVars, loopVars>>

decodeVideo == [name |-> "decodeVideo", audio |-> FALSE,
                aborts |-> TRUE, unrefsAll |-> FALSE, endless |-> FALSE]
decodeVideoChange == [name |-> "decodeVideoChange", audio |-> FALSE,
                aborts |-> TRUE, unrefsAll |-> FALSE, endless |-> FALSE]
decodeImage == [name |-> "decodeImage", audio |-> FALSE,
                aborts |-> TRUE, unrefsAll |-> FALSE, endless |-> FALSE]
decodeAudio == [name |-> "decodeAudio", audio |-> TRUE,
                aborts |-> FALSE, unrefsAll |-> TRUE, endless |-> FALSE]
captureAudio == [name |-> "captureAudio", audio |-> TRUE,
                aborts |-> FALSE, unrefsAll |-> TRUE, endless |-> TRUE]
captureVideo == [name |-> "captureVideo", audio |-> FALSE,
                aborts |-> FALSE, unrefsAll |-> TRUE, endless |-> TRUE]

\* The frames of packet p that reach the client: an error costs the rest.
Decodable(p) ==
  LET good == {n \in 0 .. Len(p) : \A i \in 1 .. n : p[i] \notin Corrupt}
      upto == CHOOSE n \in good : \A k \in good : k <= n
  IN  SubSeq(p, 1, upto)
Visible(s) == Omit(s, Hidden)

LoopInit == /\ Init
            /\ program \in Programs
            /\ input \in Inputs
            /\ program.audio \/ \A i \in 1 .. Len(input) : Len(input[i].data) <= 1
            /\ packet = <<>>
            /\ at = "read"
            /\ out = <<>> /\ expected = <<>>

Goto(l) == at' = l

-----------------------------------------------------------------------------
(* Reading.  av_read_frame overwrites the packet without releasing it: what *)
(* it still holds is lost.                                                 *)

ReadFrame ==
  /\ at = "read" /\ input # <<>>
  /\ packet' = <<Head(input)>>
  /\ input' = Tail(input)
  /\ Goto(IF Head(input).own THEN "send" ELSE "unref")
  /\ UNCHANGED <<decVars, program, out, expected>>

\* The end of the input or a read error: neither program tells them apart.
\* An endless loop reads again; a device may have something new later.
ReadFails ==
  /\ at = "read"
  /\ packet' = <<>>
  /\ Goto(IF program.endless THEN "unref" ELSE "flush")
  /\ UNCHANGED <<decVars, program, input, out, expected>>

\* The video file programs release packets of their own stream only
\* (decodeVideo.c 141-153): those of other streams leak at the next read.
Unref ==
  /\ at = "unref"
  /\ packet' = IF packet # <<>> /\ ~packet[1].own /\ ~program.unrefsAll
                 THEN packet ELSE <<>>
  /\ Goto("read")
  /\ UNCHANGED <<decVars, program, input, out, expected>>

-----------------------------------------------------------------------------
(* Decoding one packet, and draining: the same function with NULL.         *)

Send ==
  /\ at = "send"
  /\ LET p == packet[1].data
     IN \/ SendPacket(p) /\ expected' = expected \o Visible(Decodable(p))
        \/ SendRefused /\ UNCHANGED expected
  /\ Goto("sent")
  /\ UNCHANGED <<program, input, packet, out>>

\* Variant with a bug: the frames are fetched at the end only.
SentNoReceive ==
  /\ at = "sent" /\ Idle
  /\ Goto("unref")
  /\ UNCHANGED <<decVars, program, input, packet, out, expected>>

Sent ==
  /\ at = "sent" /\ Idle
  /\ \/ result.ret = "OK" /\ Goto("receive") /\ UNCHANGED packet
     \/ result.ret # "OK" /\ program.aborts /\ Goto("aborted") /\ packet' = <<>>
     \/ result.ret # "OK" /\ ~program.aborts /\ Goto("unref") /\ UNCHANGED packet
  /\ UNCHANGED <<decVars, program, input, out, expected>>

Flush ==
  /\ at = "flush"
  /\ SendNull \/ SendRefused
  /\ Goto("flushed")
  /\ UNCHANGED <<program, input, packet, out, expected>>

Flushed ==
  /\ at = "flushed"
  /\ Goto(IF result.ret = "OK" THEN "drain" ELSE "done")
  /\ UNCHANGED <<decVars, program, input, packet, out, expected>>

Receive ==
  /\ \/ at = "receive" /\ Goto("received")
     \/ at = "drain" /\ Goto("drained")
  /\ ReceiveFrame
  /\ UNCHANGED <<program, input, packet, out, expected>>

\* Variants with a bug: one receive per send; the loop waits for the end of
\* stream.
ReceivedOnce ==
  /\ at \in {"received", "drained"} /\ Idle
  /\ out' = IF result.ret = "OK" THEN out \o frame ELSE out
  /\ Goto(IF at = "received" THEN "unref" ELSE "done")
  /\ UNCHANGED <<decVars, program, input, packet, expected>>

ReceivedUntilEof ==
  /\ at \in {"received", "drained"} /\ Idle
  /\ out' = IF result.ret = "OK" THEN out \o frame ELSE out
  /\ Goto(IF result.ret = "EOF" THEN "done"
           ELSE IF at = "received" THEN "receive" ELSE "drain")
  /\ UNCHANGED <<decVars, program, input, packet, expected>>

\* A frame is written; anything else, EAGAIN, EOF or an error, ends the loop.
Received ==
  /\ at \in {"received", "drained"} /\ Idle
  /\ IF result.ret = "OK"
       THEN out' = out \o frame /\ Goto(IF at = "received" THEN "receive" ELSE "drain")
       ELSE Goto(IF at = "received" THEN "unref" ELSE "done") /\ UNCHANGED out
  /\ UNCHANGED <<decVars, program, input, packet, expected>>

-----------------------------------------------------------------------------
Decode == Library /\ UNCHANGED loopVars

Stopped == at \in {"done", "aborted"} /\ UNCHANGED allVars

LoopNext == \/ ReadFrame \/ ReadFails \/ Unref
            \/ Send \/ Sent \/ Flush \/ Flushed \/ Receive \/ Received
            \/ Decode \/ Stopped

LoopSpec == LoopInit /\ [][LoopNext]_allVars

\* One thread runs program and library: it never stops on its own.
LoopFairSpec == LoopSpec /\ WF_allVars(LoopNext)

-----------------------------------------------------------------------------
(* Properties.                                                             *)

\* Back at av_read_frame the pipeline holds nothing but the codec's delay:
\* what was sent was written, in order, or is still in the codec.  So these
\* loops never meet a refusal: each receives until EAGAIN before the next
\* send, also after an error (avcodec.h 130-131).
NothingPending ==
  /\ at = "read" => out \o Visible(codec) = expected
  /\ at = "sent" /\ Idle => result.ret \notin {"EAGAIN", "EOF"}

\* A program that reaches its end with a codec that drains well has written
\* every frame, exactly once and in order.
CompleteOutput ==
  at = "done" /\ nb_draining_errors = 0 => out = expected

\* The file programs come to an end, whatever the decoder answers, and the
\* capture programs keep reading: no packet wedges the loop.
Terminates == IF program.endless THEN []<>(at = "read") ELSE <>(at \in {"done", "aborted"})
=============================================================================
