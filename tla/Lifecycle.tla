----------------------------- MODULE Lifecycle -----------------------------
(***************************************************************************)
(* How the programs of src/src acquire and release what they own: the      *)
(* format and codec contexts, files, packets, frames and buffers of main.  *)
(*                                                                         *)
(* A main is a sequence of acquisitions and checks.  A failing one returns *)
(* at once, or goes to the cleanup block, jumping over the declarations in *)
(* between: a pointer declared after the goto holds garbage there, and a   *)
(* cleanup that tests it reads an indeterminate value.  Each program is a  *)
(* table of its steps and of its cleanup; one interpreter runs them all,   *)
(* every call failing or not.  Reading garbage, using a pointer that is    *)
(* not live and releasing twice are undefined behaviour: the run halts     *)
(* there with a fault.                                                     *)
(***************************************************************************)
EXTENDS Naturals, Sequences

CONSTANTS Programs,     \* the programs a run looks at
          Rounds        \* rounds of a main loop are counted up to here

ASSUME RoundsAssumption == Rounds \in Nat

VARIABLES program,      \* the running program, fixed
          phase,        \* "body", "cleanup", "exit" or "halt"
          step,         \* index of the next step of the body or the cleanup
          round,        \* rounds of the loop done
          value,        \* value[r]: what the pointer r holds
          fault         \* the undefined behaviour met, <<kind, resource>>

vars == <<program, phase, step, round, value, fault>>

Resource == {"inFmtCtx", "outFmtCtx", "codecCtx", "bsfCtx", "swsCtx",
             "src_fp", "dest_fp", "packet", "frame", "destFrame", "buffer"}

(* "garbage": not initialised; "null"; "live": allocated; "open": a format *)
(* context with an open input; "stale": released, the pointer was kept.    *)
Value == {"garbage", "null", "live", "open", "stale"}
Owned == {"live", "open"}

-----------------------------------------------------------------------------
(* The vocabulary of the tables.                                           *)

\* What a failing step does.
Ignore == [to |-> "next", frees |-> {}]
Return == [to |-> "exit", frees |-> {}]
Fail   == [to |-> "cleanup", frees |-> {}]
ReturnFreeing(rs) == [to |-> "exit", frees |-> rs]

Get(r, as, f)  == [op |-> "get", res |-> r, as |-> as, fail |-> f]
Open(r, f)     == Get(r, "open", f)
Alloc(r, f)    == Get(r, "live", f)
Use(r)         == [op |-> "use", res |-> r]
Declare(r)     == [op |-> "declare", res |-> r]
Try(f)         == [op |-> "try", fail |-> f]
Drop(r, left)  == [op |-> "drop", res |-> r, left |-> left]
\* A loop that reads with the resources uses, and releases drops each round.
Loop(uses, drops, ends, f) ==
  [op |-> "loop", uses |-> uses, drops |-> drops, ends |-> ends, fail |-> f]

\* Entries of a cleanup block: if (r) release(r).
Freeing(r)   == [res |-> r, closes |-> TRUE,  left |-> "null"]
Closing(r)   == [res |-> r, closes |-> TRUE,  left |-> "stale"]
FreeOnly(r)  == [res |-> r, closes |-> FALSE, left |-> "stale"]

-----------------------------------------------------------------------------
(* The programs.                                                           *)

decodeVideo ==
  [name |-> "decodeVideo",
   body |-> << Open("inFmtCtx", Return), Try(Fail), Try(Fail),
               Alloc("codecCtx", Fail), Try(Fail), Try(Fail),
               Open("dest_fp", Fail), Alloc("packet", Ignore),
               Loop({"inFmtCtx", "packet", "codecCtx", "dest_fp"}, {}, TRUE, Fail) >>,
   cleanup |-> << Freeing("inFmtCtx"), Freeing("codecCtx"), Closing("dest_fp") >>]

\* decodeVideoChange and decodeImage share their structure: they scale into
\* destFrame, whose picture is outBuffer.
Scaling ==
  << Try(Return), Open("inFmtCtx", Return), Try(Fail), Try(Fail),
     Alloc("codecCtx", Fail), Try(Fail), Try(Fail), Alloc("swsCtx", Fail),
     Alloc("destFrame", Ignore), Alloc("buffer", Ignore), Use("destFrame"),
     Open("dest_fp", Fail), Alloc("packet", Ignore),
     Loop({"inFmtCtx", "packet", "codecCtx", "swsCtx", "destFrame", "buffer",
           "dest_fp"}, {}, TRUE, Fail) >>

decodeVideoChange ==
  [name |-> "decodeVideoChange",
   body |-> Scaling,
   cleanup |-> << Freeing("inFmtCtx"), Freeing("codecCtx"), Closing("dest_fp"),
                  Freeing("destFrame"), Closing("buffer") >>]

decodeImage ==
  [name |-> "decodeImage",
   body |-> Scaling,
   cleanup |-> << Freeing("inFmtCtx"), Freeing("codecCtx"), Closing("dest_fp"),
                  Freeing("destFrame"), Closing("buffer") >>]

\* nb_samples is still 0: the buffer size is an error and av_malloc fails.
decodeAudio ==
  [name |-> "decodeAudio",
   body |-> << Open("inFmtCtx", Return), Try(Fail), Try(Fail),
               Alloc("codecCtx", Fail), Try(Fail), Try(Fail),
               Open("dest_fp", Fail), Alloc("frame", Ignore), Use("frame"),
               Declare("buffer"),
               Alloc("packet", Ignore),
               Loop({"inFmtCtx", "packet", "codecCtx", "frame", "dest_fp"},
                    {}, TRUE, Ignore) >>,
   cleanup |-> << Freeing("inFmtCtx"), Freeing("codecCtx"), Freeing("frame"),
                  Closing("buffer"), Closing("dest_fp") >>]

captureAudio ==
  [name |-> "captureAudio",
   body |-> << Alloc("inFmtCtx", Ignore), Try(Fail), Open("inFmtCtx", Fail),
               Try(Fail), Try(Fail), Alloc("codecCtx", Ignore), Use("codecCtx"),
               Try(Fail), Try(Fail), Try(Fail), Open("dest_fp", Fail),
               Alloc("packet", Ignore),
               Loop({"inFmtCtx", "packet", "codecCtx", "dest_fp"}, {}, FALSE, Ignore) >>,
   cleanup |-> << FreeOnly("inFmtCtx"), Freeing("codecCtx"), Closing("dest_fp") >>]

captureVideo ==
  [name |-> "captureVideo",
   body |-> << Alloc("inFmtCtx", Ignore), Try(Fail), Open("inFmtCtx", Fail),
               Try(Fail), Try(Fail), Alloc("codecCtx", Ignore), Use("codecCtx"),
               Try(Fail), Try(Fail), Try(Fail), Alloc("destFrame", Ignore),
               Alloc("buffer", Ignore), Use("destFrame"), Alloc("swsCtx", Fail),
               Open("dest_fp", Fail), Alloc("packet", Ignore),
               Loop({"inFmtCtx", "packet", "codecCtx", "swsCtx", "destFrame",
                     "buffer", "dest_fp"}, {}, FALSE, Ignore) >>,
   cleanup |-> << FreeOnly("inFmtCtx"), Freeing("codecCtx"), Closing("dest_fp"),
                  Freeing("buffer") >>]

encodeAudioDemo ==
  [name |-> "encodeAudioDemo",
   body |-> << Alloc("frame", Return), Try(Fail), Alloc("codecCtx", Fail),
               Try(Fail), Open("src_fp", Fail), Open("dest_fp", Ignore),
               Alloc("packet", Ignore),
               Loop({"frame", "codecCtx", "src_fp", "dest_fp", "packet"},
                    {}, TRUE, Ignore) >>,
   cleanup |-> << Freeing("frame"), Freeing("codecCtx"), Closing("src_fp"),
                  Closing("dest_fp") >>]

encodeVideoDemo ==
  [name |-> "encodeVideoDemo",
   body |-> << Try(Return), Try(Return), Alloc("codecCtx", Return), Try(Fail),
               Open("src_fp", Fail), Open("dest_fp", Fail),
               Alloc("frame", Ignore), Alloc("buffer", Ignore),
               Use("frame"), Alloc("packet", Ignore),
               Loop({"frame", "buffer", "codecCtx", "src_fp", "dest_fp", "packet"},
                    {}, TRUE, Ignore) >>,
   cleanup |-> << Freeing("codecCtx"), Closing("src_fp"), Closing("dest_fp"),
                  Freeing("buffer") >>]

\* buffer is handleStreamIndexArray; failing checks in the stream loop and of
\* the output file, then the copy loop, then the trailer.
mp4toflv ==
  [name |-> "mp4toflv",
   body |-> << Open("inFmtCtx", Return), Try(Fail), Alloc("outFmtCtx", Fail),
               Alloc("buffer", Fail), Try(Fail), Try(Fail), Try(Fail),
               Alloc("packet", Ignore),
               Loop({"inFmtCtx", "outFmtCtx", "buffer", "packet"}, {}, TRUE, Fail),
               Try(Ignore) >>,
   cleanup |-> << Freeing("inFmtCtx"), Closing("outFmtCtx"), Freeing("buffer") >>]

mp4toh264 ==
  [name |-> "mp4toh264",
   body |-> << Open("inFmtCtx", Return), Try(Fail), Try(Fail),
               Open("dest_fp", Fail), Alloc("packet", Ignore), Try(Fail),
               Alloc("bsfCtx", Ignore), Use("bsfCtx"),
               Loop({"inFmtCtx", "packet", "bsfCtx", "dest_fp"},
                    {"packet"}, TRUE, Ignore),
               Drop("dest_fp", "stale") >>,
   cleanup |-> << Freeing("inFmtCtx"), Freeing("bsfCtx"), Closing("dest_fp") >>]

demuxing_video ==
  [name |-> "demuxing_video",
   body |-> << Open("inFmtCtx", Return), Try(Fail), Try(Fail),
               Open("dest_fp", Fail), Alloc("packet", Ignore),
               Loop({"inFmtCtx", "packet", "dest_fp"}, {"packet"}, TRUE, Ignore),
               Drop("dest_fp", "stale") >>,
   cleanup |-> << Freeing("inFmtCtx"), Closing("dest_fp") >>]

\* Variants with a bug: a failing fopen forgets the input; the packet is
\* freed after each round.
demuxing_audioLeaky ==
  [name |-> "demuxing_audio",
   body |-> << Open("inFmtCtx", Return), Try(ReturnFreeing({"inFmtCtx"})),
               Alloc("packet", ReturnFreeing({"inFmtCtx"})),
               Open("dest_fp", ReturnFreeing({"packet"})) >>,
   cleanup |-> << Freeing("inFmtCtx"), Closing("dest_fp"), Freeing("packet") >>]
demuxing_audioFreeing ==
  [name |-> "demuxing_audio",
   body |-> << Open("inFmtCtx", Return),
               Alloc("packet", ReturnFreeing({"inFmtCtx"})),
               Open("dest_fp", ReturnFreeing({"inFmtCtx", "packet"})),
               Loop({"inFmtCtx", "packet", "dest_fp"}, {"packet"}, TRUE, Ignore) >>,
   cleanup |-> << Freeing("inFmtCtx"), Closing("dest_fp"), Freeing("packet") >>]

demuxing_audio ==
  [name |-> "demuxing_audio",
   body |-> << Open("inFmtCtx", Return),
               Try(ReturnFreeing({"inFmtCtx"})), Try(ReturnFreeing({"inFmtCtx"})),
               Alloc("packet", ReturnFreeing({"inFmtCtx"})),
               Open("dest_fp", ReturnFreeing({"inFmtCtx", "packet"})),
               Loop({"inFmtCtx", "packet", "dest_fp"}, {}, TRUE,
                    ReturnFreeing({"dest_fp", "inFmtCtx", "packet"})) >>,
   cleanup |-> << Freeing("inFmtCtx"), Closing("dest_fp"), Freeing("packet") >>]

dumpMetaData ==
  [name |-> "dumpMetaData",
   body |-> << Open("inFmtCtx", Return) >>,
   cleanup |-> << Freeing("inFmtCtx") >>]

Mains == {decodeVideo, decodeVideoChange, decodeImage, decodeAudio, captureAudio,
          captureVideo, encodeAudioDemo, encodeVideoDemo, mp4toflv, mp4toh264,
          demuxing_video, demuxing_audio, dumpMetaData}

ASSUME ProgramsAssumption == Programs \subseteq Mains

-----------------------------------------------------------------------------
(* The interpreter.                                                        *)

Manages(p) == {p.cleanup[i].res : i \in 1 .. Len(p.cleanup)}

Init == /\ program \in Programs
        /\ phase = "body" /\ step = 1 /\ round = 0
        /\ value = [r \in Resource |-> "garbage"]
        /\ fault = <<>>

InBody(op) == /\ phase = "body" /\ step <= Len(program.body)
              /\ program.body[step].op = op
This == program.body[step]

Halt(kind, r) == /\ phase' = "halt"
                 /\ fault' = <<kind, r>>
                 /\ UNCHANGED <<program, step, round, value>>

Advance == /\ phase' = "body" /\ step' = step + 1
           /\ UNCHANGED <<program, round, fault>>

\* Failing: release what the branch releases, then go where it goes.
FailTo(f, val) ==
  /\ value' = [r \in Resource |-> IF r \in f.frees THEN "null" ELSE val[r]]
  /\ phase' = IF f.to = "next" THEN "body" ELSE f.to
  /\ step' = IF f.to = "next" THEN step + 1 ELSE 1
  /\ UNCHANGED <<program, round, fault>>

GetOk == /\ InBody("get")
         /\ value' = [value EXCEPT ![This.res] = This.as]
         /\ Advance

GetFails == /\ InBody("get")
            /\ FailTo(This.fail, [value EXCEPT ![This.res] = "null"])

DeclareNull == /\ InBody("declare")
               /\ value' = [value EXCEPT ![This.res] = "null"]
               /\ Advance

UseLive == InBody("use") /\ value[This.res] \in Owned /\ Advance /\ UNCHANGED value
UseDead == InBody("use") /\ value[This.res] \notin Owned /\ Halt("dead", This.res)

TryOk == InBody("try") /\ Advance /\ UNCHANGED value
TryFails == InBody("try") /\ FailTo(This.fail, value)

DropOne == /\ InBody("drop")
           /\ IF value[This.res] \in Owned
                THEN Advance /\ value' = [value EXCEPT ![This.res] = This.left]
                ELSE Halt("double", This.res)

\* One round: every resource of the loop is used, then some are released.
LoopRound ==
  /\ InBody("loop")
  /\ This.uses \subseteq {r \in Resource : value[r] \in Owned}
  /\ round' = IF round < Rounds THEN round + 1 ELSE Rounds
  /\ value' = [r \in Resource |-> IF r \in This.drops THEN "null" ELSE value[r]]
  /\ UNCHANGED <<program, phase, step, fault>>

LoopUsesDead ==
  /\ InBody("loop")
  /\ \E r \in This.uses : value[r] \notin Owned /\ Halt("dead", r)

LoopEnds == /\ InBody("loop") /\ This.ends
            /\ This.uses \subseteq {r \in Resource : value[r] \in Owned}
            /\ Advance /\ UNCHANGED value

LoopFails == /\ InBody("loop") /\ round > 0 /\ This.fail.to # "next"
             /\ FailTo(This.fail, value)

BodyEnds == /\ phase = "body" /\ step > Len(program.body)
            /\ phase' = "cleanup" /\ step' = 1
            /\ UNCHANGED <<program, round, value, fault>>

\* if (r) release(r): garbage may pass the test or not, it was read.
Cleanup ==
  /\ phase = "cleanup" /\ step <= Len(program.cleanup)
  /\ LET c == program.cleanup[step]
     IN  \/ /\ value[c.res] = "garbage" /\ Halt("indeterminate", c.res)
         \/ /\ value[c.res] = "stale" /\ Halt("double", c.res)
         \/ /\ value[c.res] = "open" /\ ~c.closes /\ Halt("unclosed", c.res)
         \/ /\ value[c.res] \in {"null", "live"} \/ (value[c.res] = "open" /\ c.closes)
            /\ value' = IF value[c.res] = "null" THEN value
                        ELSE [value EXCEPT ![c.res] = c.left]
            /\ step' = step + 1
            /\ UNCHANGED <<program, phase, round, fault>>

Exit == /\ phase = "cleanup" /\ step > Len(program.cleanup)
        /\ phase' = "exit"
        /\ UNCHANGED <<program, step, round, value, fault>>

Over == phase \in {"exit", "halt"} /\ UNCHANGED vars

Next == \/ GetOk \/ GetFails \/ DeclareNull \/ UseLive \/ UseDead \/ TryOk \/ TryFails \/ DropOne
        \/ LoopRound \/ LoopUsesDead \/ LoopEnds \/ LoopFails
        \/ BodyEnds \/ Cleanup \/ Exit \/ Over

Spec == Init /\ [][Next]_vars

-----------------------------------------------------------------------------
(* Properties.                                                             *)

Faulty(kind) == fault # <<>> /\ fault[1] = kind

\* Whatever fails on the way, a program that exits has released everything
\* its cleanup block answers for.
ReleasesAll == phase = "exit" => \A r \in Manages(program) : value[r] \notin Owned

\* Undefined behaviour comes from the acquisitions only.  The programs whose
\* failing branches release and return, without a goto, have none at all; the
\* others none once their loop has run, however it ends, and never because
\* something is released twice.  Two programs are exempt: their loop frees the
\* packet of its next round and their output is closed twice
\* (demuxing_video.c 70, 73 and 81; mp4toh264.c 88, 91 and 103).
WellDefined ==
  \/ fault = <<>>
  \/ program.name \in {"demuxing_video", "mp4toh264"}
  \/ /\ program.name \notin {"demuxing_audio", "dumpMetaData"}
     /\ round = 0 /\ ~Faulty("double")
=============================================================================
