----------------------------- MODULE EncodeLoop -----------------------------
(***************************************************************************)
(* encodeAudioDemo.c and encodeVideoDemo.c composed with the encoder they  *)
(* drive (module Encoder): read raw data into the one frame of the         *)
(* program, send it, receive packets until the encoder has none and write  *)
(* them; at the end of the input the same with NULL.  Both ignore what     *)
(* their encode function returns.                                          *)
(*                                                                         *)
(* The programs differ in two decisions, kept in a record per program:     *)
(*   looks      the result of avcodec_receive_packet is looked at          *)
(*              (encodeVideoDemo.c 24 does not assign it)                  *)
(*   describes  the frame has its format set, so that it can be referenced *)
(*              (encodeVideoDemo.c sets neither format nor size)           *)
(*                                                                         *)
(* expected is a history variable: what the frames accepted so far become. *)
(***************************************************************************)
EXTENDS Encoder, Selection

CONSTANTS Programs,     \* the programs a run looks at
          InputLen      \* bound on the frames an input holds

ASSUME InputLenAssumption == InputLen \in Nat

VARIABLES program,      \* the running program, fixed
          input,        \* the frames not read yet
          sending,      \* the frame in the program's buffer, <<>> for NULL
          at,           \* where the program is
          out,          \* the packets written to the output file
          expected      \* history: packets of the frames the encoder took

loopVars == <<program, input, sending, at, out, expected>>
encVars == vars
allVars == <<encVars, loopVars>>

encodeAudioDemo == [name |-> "encodeAudioDemo", looks |-> TRUE, describes |-> TRUE]
encodeVideoDemo == [name |-> "encodeVideoDemo", looks |-> FALSE, describes |-> FALSE]

Visible(s) == Omit(s, Skipped)

\* A frame without a format is one that send cannot reference.
LoopInit ==
  /\ Init
  /\ program \in Programs
  /\ input \in UNION {[1 .. n -> IF program.describes THEN Frame \ Unfit ELSE Unfit] :
                        n \in 0 .. InputLen}
  /\ sending = <<>> /\ at = "read"
  /\ out = <<>> /\ expected = <<>>

\* encodeAudio and encodeVideo return: main reads on, or ends after NULL.
Back == IF sending = <<>> THEN "done" ELSE "read"

-----------------------------------------------------------------------------
\* fread overwrites the samples of the one frame the program has.
Read ==
  /\ at = "read"
  /\ sending' = IF input = <<>> THEN <<>> ELSE <<Head(input)>>
  /\ input' = IF input = <<>> THEN <<>> ELSE Tail(input)
  /\ at' = "send"
  /\ UNCHANGED <<encVars, program, out, expected>>

Send ==
  /\ at = "send"
  /\ IF sending = <<>> THEN SendNull \/ SendRefused
                       ELSE \/ SendFrame(sending[1])
                            \/ SendInvalid(sending[1])
                            \/ SendRefused
  /\ at' = "sent"
  /\ UNCHANGED <<program, input, sending, out, expected>>

\* Variant with a bug: packets are received after NULL only.
SentNoReceive ==
  /\ at = "sent" /\ Idle
  /\ expected' = IF result.ret = "OK" THEN expected \o Visible(sending) ELSE expected
  /\ at' = IF result.ret = "OK" /\ sending = <<>> THEN "receive" ELSE Back
  /\ UNCHANGED <<encVars, program, input, sending, out>>

Sent ==
  /\ at = "sent" /\ Idle
  /\ IF result.ret = "OK"
       THEN /\ expected' = expected \o Visible(sending)
            /\ at' = "receive"
       ELSE /\ at' = Back
            /\ UNCHANGED expected
  /\ UNCHANGED <<encVars, program, input, sending, out>>

Receive ==
  /\ at = "receive"
  /\ ReceivePacket
  /\ at' = "received"
  /\ UNCHANGED <<program, input, sending, out, expected>>

\* Variants with a bug: one receive per send; the loop waits for the end of
\* stream.
ReceivedOnce ==
  /\ at = "received" /\ Idle
  /\ out' = out \o packet
  /\ at' = Back
  /\ UNCHANGED <<encVars, program, input, sending, expected>>

ReceivedUntilEof ==
  /\ at = "received" /\ Idle
  /\ out' = out \o packet
  /\ at' = IF result.ret # "EOF" \/ ~program.looks THEN "receive" ELSE Back
  /\ UNCHANGED <<encVars, program, input, sending, expected>>

\* A packet is written, a blank one without effect; a program that looks at
\* the answer leaves the loop at EAGAIN, EOF or an error.
Received ==
  /\ at = "received" /\ Idle
  /\ out' = out \o packet
  /\ at' = IF result.ret = "OK" \/ ~program.looks THEN "receive" ELSE Back
  /\ UNCHANGED <<encVars, program, input, sending, expected>>

-----------------------------------------------------------------------------
Encode == Library /\ UNCHANGED loopVars

Stopped == at = "done" /\ UNCHANGED allVars

LoopNext == \/ Read \/ Send \/ Sent \/ Receive \/ Received \/ Encode \/ Stopped

LoopSpec == LoopInit /\ [][LoopNext]_allVars

\* One thread runs program and library: it never stops on its own.
LoopFairSpec == LoopSpec /\ WF_allVars(LoopNext)

-----------------------------------------------------------------------------
(* Properties.                                                             *)

\* A program that ends has written a packet for every frame the encoder took,
\* in order; only what a codec that failed still holds may be missing.
CompleteOutput ==
  at = "done" => /\ out \o Visible(codec) = expected
                 /\ codec = <<>> \/ result.ret = "ERR"

\* encodeAudioDemo.c 116 and encodeVideoDemo.c 112 read into the buffers of a
\* frame without asking whether the encoder still has a reference to them:
\* avcodec_send_frame's must be gone by then.
SamplesFree == at = "read" => buffer_frame = <<>>

\* A program that looks at what receive answers comes to its end, whatever
\* that is (avcodec.h 143-144); encodeVideoDemo.c 24 does not, and has none.
Terminates == program.looks => <>(at = "done")
=============================================================================
