--------------------------- MODULE DecoderProofs ---------------------------
(***************************************************************************)
(* Proofs about Decoder and about the programs that drive it (DecodeLoop), *)
(* for every set of units and packets, every codec delay and every bound   *)
(* on draining errors.                                                     *)
(*                                                                         *)
(* DrainOrder and HungryMeansAccepting are not inductive: they also need   *)
(* to know where the running call is (CallShape).  IInv adds that.         *)
(***************************************************************************)
EXTENDS DecodeLoop, SelectionProofs, SequenceTheorems, TLAPS

\* What holds inside a call: the filter's packet exists only while the fetch
\* loop runs, and no call runs while a decoded frame waits in buffer_frame.
CallShape ==
  /\ pc = "fetch" => in_pkt = <<>> /\ ~draining
  /\ pc # "fetch" => bsf_pkt = <<>>
  /\ pc # "idle" => buffer_frame = <<>> /\ call \in {"send", "receive"}
  /\ pc = "idle" => call = "none"
  /\ call = "send" => ~draining_started
  /\ CodecDelay = 0 => codec = <<>>
  /\ result = [of |-> "receive", ret |-> "EOF"] => draining_done

IInv == TypeOK /\ DrainOrder /\ CallShape /\ HungryMeansAccepting

-----------------------------------------------------------------------------
\* Facts about the sequences of units every action handles.
LEMMA UnitSeqs ==
  /\ <<>> \in Seq(Unit)
  /\ \A u \in Unit : <<u>> \in Seq(Unit)
  /\ \A s \in Seq(Unit) : s # <<>> => Head(s) \in Unit /\ Tail(s) \in Seq(Unit)
  /\ \A s \in Seq(Unit), u \in Unit :
        Append(s, u) \in Seq(Unit) /\ Append(s, u) # <<>>
<1>1. <<>> \in Seq(Unit)
  BY EmptySeq
<1>2. \A u \in Unit : <<u>> \in Seq(Unit)
  OBVIOUS
<1>3. \A s \in Seq(Unit) : s # <<>> => Head(s) \in Unit /\ Tail(s) \in Seq(Unit)
  BY HeadTailProperties
<1>4. \A s \in Seq(Unit), u \in Unit :
        Append(s, u) \in Seq(Unit) /\ Append(s, u) # <<>>
  BY AppendProperties
<1> QED
  BY <1>1, <1>2, <1>3, <1>4

\* A returning call leaves well-typed results and frames.
LEMMA ReturnTypes ==
  ASSUME TypeOK, NEW f \in Seq(Unit),
         NEW ret \in {"OK", "EAGAIN", "EOF", "ERR", "BUG"}, Return(ret, f)
  PROVE  /\ pc' = "idle" /\ call' = "none"
         /\ buffer_frame' \in Seq(Unit)
         /\ frame' \in Seq(Unit)
         /\ result' \in [of : {"none", "send", "receive"},
                         ret : {"OK", "EAGAIN", "EOF", "ERR", "BUG"}]
<1>1. CASE call = "send"
  BY <1>1 DEF Return, TypeOK
<1>2. CASE call = "receive"
  BY <1>2 DEF Return, TypeOK
<1> QED
  BY <1>1, <1>2 DEF Return

\* A frame leaving the codec goes to a frame of the call, or nowhere.
LEMMA OutputTypes ==
  ASSUME TypeOK, NEW held \in Seq(Unit), held # <<>>, Output(held)
  PROVE  /\ codec' \in Seq(Unit)
         /\ pc' \in {"idle", "simple"} /\ call' \in {"none", "send", "receive"}
         /\ buffer_frame' \in Seq(Unit)
         /\ frame' \in Seq(Unit)
         /\ result' \in [of : {"none", "send", "receive"},
                         ret : {"OK", "EAGAIN", "EOF", "ERR", "BUG"}]
<1>1. codec' \in Seq(Unit) /\ <<Head(held)>> \in Seq(Unit)
  BY UnitSeqs DEF Output
<1>2. CASE Head(held) \in Hidden
  BY <1>1, <1>2 DEF Output, TypeOK
<1>3. CASE Head(held) \notin Hidden
  BY <1>1, <1>3, ReturnTypes DEF Output
<1> QED
  BY <1>2, <1>3

-----------------------------------------------------------------------------
LEMMA InitTypes == Init => TypeOK
<1> SUFFICES ASSUME Init PROVE TypeOK
  OBVIOUS
<1>1. nb_draining_errors \in Nat
  BY DEF Init
<1>2. /\ bsf_eof \in BOOLEAN /\ draining_started \in BOOLEAN
      /\ draining \in BOOLEAN /\ draining_done \in BOOLEAN
  BY Zenon DEF Init
<1> QED
  BY <1>1, <1>2, UnitSeqs DEF Init, TypeOK

\* Every step keeps every queue of the pipeline a sequence of units.
LEMMA TypeStep == TypeOK /\ [Next]_vars => TypeOK'
<1> SUFFICES ASSUME TypeOK, [Next]_vars PROVE TypeOK'
  OBVIOUS
<1> USE DEF TypeOK, packets, frames, drain
<1>1. ASSUME NEW p \in Packet, SendPacket(p) PROVE TypeOK'
  <2>1. p \in Seq(Unit)
    BY PacketAssumption
  <2> QED
    BY <1>1, <2>1 DEF SendPacket, Enter, Answer
<1>2. CASE SendRefused
  BY <1>2, UnitSeqs DEF SendRefused, Answer
<1>3. CASE SendNull
  BY <1>3, UnitSeqs DEF SendNull, Answer
<1>4. CASE ReceiveFrame
  BY <1>4, UnitSeqs DEF ReceiveFrame, Enter, Answer
<1>5. CASE FlushBuffers
  BY <1>5, UnitSeqs DEF FlushBuffers
<1>6. CASE SimpleStart
  BY <1>6, UnitSeqs DEF SimpleStart
<1>7. CASE FetchEof
  BY <1>7, UnitSeqs DEF FetchEof
<1>8. CASE FetchPacket
  BY <1>8, UnitSeqs DEF FetchPacket
<1>9. CASE FetchFeed
  BY <1>9, UnitSeqs DEF FetchFeed
<1>10. CASE FetchNothing
  BY <1>10, UnitSeqs, ReturnTypes DEF FetchNothing
<1>11. CASE DecodeEof
  <2>1. draining_done' \in BOOLEAN
    BY <1>11, Zenon DEF DecodeEof
  <2> QED
    BY <1>11, <2>1, UnitSeqs, ReturnTypes DEF DecodeEof
<1>12. CASE DecodeUnit
  <2> DEFINE held == Append(codec, Head(in_pkt))
  <2>1. in_pkt' \in Seq(Unit) /\ held \in Seq(Unit) /\ held # <<>>
    BY <1>12, UnitSeqs DEF DecodeUnit
  <2> HIDE DEF held
  <2>2. CASE Len(held) > CodecDelay
    <3>1. Output(held)
      BY <1>12, <2>2 DEF DecodeUnit, held
    <3> QED
      BY <1>12, <2>1, <3>1, OutputTypes DEF DecodeUnit
  <2>3. CASE ~(Len(held) > CodecDelay)
    BY <1>12, <2>1, <2>3 DEF DecodeUnit, held
  <2> QED
    BY <2>2, <2>3
<1>13. CASE DecodeError
  BY <1>13, UnitSeqs, ReturnTypes DEF DecodeError
<1>14. CASE DrainFrame
  BY <1>14, OutputTypes DEF DrainFrame
<1>15. CASE DrainEnd
  <2>1. draining_done' \in BOOLEAN
    BY <1>15, Zenon DEF DrainEnd
  <2> QED
    BY <1>15, <2>1 DEF DrainEnd
<1>16. CASE DrainError
  <2>1. draining_done' \in BOOLEAN
    BY <1>16 DEF DrainError
  <2>2. codec' \in Seq(Unit)
    BY <1>16, UnitSeqs DEF DrainError
  <2>3. nb_draining_errors' \in Nat
    BY <1>16 DEF DrainError
  <2>4. PICK ret \in {"BUG", "ERR"} : Return(ret, <<>>)
    BY <1>16 DEF DrainError
  <2>5. /\ pc' = "idle" /\ call' = "none"
        /\ buffer_frame' \in Seq(Unit) /\ frame' \in Seq(Unit)
        /\ result' \in [of : {"none", "send", "receive"},
                        ret : {"OK", "EAGAIN", "EOF", "ERR", "BUG"}]
    BY <2>4, UnitSeqs, ReturnTypes
  <2> QED
    BY <1>16, <2>1, <2>2, <2>3, <2>5 DEF DrainError
<1>17. CASE UNCHANGED vars
  BY <1>17, UnitSeqs DEF vars
<1> QED
  BY <1>1, <1>2, <1>3, <1>4, <1>5, <1>6, <1>7, <1>8, <1>9, <1>10, <1>11,
     <1>12, <1>13, <1>14, <1>15, <1>16, <1>17 DEF Next, Client, Library

\* TypeOK is an invariant of the pipeline of decode.c.
THEOREM TypeCorrect == Spec => []TypeOK
<1> QED
  BY InitTypes, TypeStep, PTL DEF Spec

-----------------------------------------------------------------------------
\* Every step of the library and of its client preserves IInv.
LEMMA IInvStep == IInv /\ [Next]_vars => IInv'
<1> SUFFICES ASSUME IInv, [Next]_vars PROVE IInv'
  OBVIOUS
<1>0. TypeOK'
  BY TypeStep DEF IInv
<1> USE <1>0 DEF IInv, TypeOK, DrainOrder, CutOff, CallShape,
       HungryMeansAccepting, Idle, packets, frames, drain
<1>1. ASSUME NEW p \in Packet, SendPacket(p) PROVE IInv'
  BY <1>1, PacketAssumption DEF SendPacket, Enter, Answer
<1>2. CASE SendRefused
  BY <1>2 DEF SendRefused, Answer
<1>3. CASE SendNull
  BY <1>3 DEF SendNull, Answer
<1>4. CASE ReceiveFrame
  BY <1>4 DEF ReceiveFrame, Enter, Answer
<1>5. CASE FlushBuffers
  BY <1>5 DEF FlushBuffers
<1>6. CASE SimpleStart
  BY <1>6 DEF SimpleStart
<1>7. CASE FetchEof
  BY <1>7 DEF FetchEof
<1>8. CASE FetchPacket
  BY <1>8 DEF FetchPacket
<1>9. CASE FetchFeed
  BY <1>9 DEF FetchFeed
<1>10. CASE FetchNothing
  BY <1>10 DEF FetchNothing, Return
<1>11. CASE DecodeEof
  BY <1>11 DEF DecodeEof, Exhausted, Return
<1>12. CASE DecodeUnit
  <2> DEFINE held == Append(codec, Head(in_pkt))
  <2>1. ~draining /\ ~draining_done /\ in_pkt' \in Seq(Unit)
    BY <1>12, UnitSeqs DEF DecodeUnit, Exhausted
  <2>2. CodecDelay = 0 => Len(held) > CodecDelay /\ Tail(held) = <<>>
    BY <1>12, UnitSeqs DEF DecodeUnit
  <2> HIDE DEF held
  <2>3. CASE Len(held) > CodecDelay
    <3>1. Output(held)
      BY <1>12, <2>3 DEF DecodeUnit, held
    <3>2. CodecDelay = 0 => codec' = <<>>
      BY <2>2, <3>1 DEF Output
    <3> QED
      BY <1>12, <2>1, <3>1, <3>2 DEF DecodeUnit, Output, Return
  <2>4. CASE ~(Len(held) > CodecDelay)
    BY <1>12, <2>1, <2>2, <2>4 DEF DecodeUnit, held
  <2> QED
    BY <2>3, <2>4
<1>13. CASE DecodeError
  BY <1>13 DEF DecodeError, Exhausted, Return
<1>14. CASE DrainFrame
  BY <1>14, UnitSeqs DEF DrainFrame, Exhausted, Output, Return
<1>15. CASE DrainEnd
  BY <1>15 DEF DrainEnd, Exhausted
<1>16. CASE DrainError
  BY <1>16, UnitSeqs, NbErrorsAssumption DEF DrainError, Exhausted, Return
<1>17. CASE UNCHANGED vars
  BY <1>17 DEF vars
<1> QED
  BY <1>1, <1>2, <1>3, <1>4, <1>5, <1>6, <1>7, <1>8, <1>9, <1>10, <1>11,
     <1>12, <1>13, <1>14, <1>15, <1>16, <1>17 DEF Next, Client, Library

LEMMA IInvCorrect == Spec => []IInv
<1>1. Init => IInv
  <2>1. Init => TypeOK
    BY InitTypes
  <2>2. Init => DrainOrder /\ CallShape /\ HungryMeansAccepting
    BY DEF Init, DrainOrder, CallShape, HungryMeansAccepting
  <2> QED
    BY <2>1, <2>2 DEF IInv
<1> QED
  BY <1>1, IInvStep, PTL DEF Spec

-----------------------------------------------------------------------------
\* DrainOrder: the end of stream never overtakes a packet on its way through
\* send, the bitstream filter and the codec (decode.c 220-245, 387-402).
THEOREM DrainOrderCorrect == Spec => []DrainOrder
BY IInvCorrect, PTL DEF IInv

\* EofMeansEmpty: when receive answers EOF every accepted unit has been
\* delivered, hidden, or lost with an error, unless the codec was cut off
\* after nb_errors_max failures (decode.c 450-468).
THEOREM EofCorrect == Spec => []EofMeansEmpty
<1>1. IInv => EofMeansEmpty
  <2> SUFFICES ASSUME IInv, result = [of |-> "receive", ret |-> "EOF"], ~CutOff
               PROVE  Held = <<>>
    BY DEF EofMeansEmpty
  <2>1. draining_done /\ draining /\ bsf_eof
    BY DEF IInv, CallShape, DrainOrder
  <2>2. /\ buffer_frame = <<>> /\ codec = <<>> /\ in_pkt = <<>>
        /\ bsf_pkt = <<>> /\ buffer_pkt = <<>>
    BY <2>1 DEF IInv, CallShape, DrainOrder
  <2> QED
    BY <2>2, EmptySeq, ConcatEmptySeq DEF Held
<1> QED
  BY <1>1, IInvCorrect, PTL

\* HungryMeansAccepting: after receive asked for input the next packet is
\* accepted (avcodec.h 2528-2529).
THEOREM HungryCorrect == Spec => []HungryMeansAccepting
BY IInvCorrect, PTL DEF IInv

\* NoEagainWhenDraining: in draining mode receive never asks for more input
\* (avcodec.h 144-145).
THEOREM NoEagainCorrect == Spec => NoEagainWhenDraining
<1>1. IInv /\ [Next]_vars
        => [draining_started /\ result' # result => result'.ret # "EAGAIN"]_vars
  <2> SUFFICES ASSUME IInv, Next, draining_started, result' # result
               PROVE  result'.ret # "EAGAIN"
    BY DEF vars
  <2>1. CASE Client
    BY <2>1 DEF Client, SendPacket, SendRefused, SendNull, ReceiveFrame,
       FlushBuffers, Enter, Answer
  <2>2. CASE SimpleStart \/ FetchEof \/ FetchPacket \/ FetchFeed \/ FetchNothing
    BY <2>2 DEF SimpleStart, FetchEof, FetchPacket, FetchFeed, FetchNothing
  <2>3. CASE DecodeEof \/ DecodeError \/ DrainEnd
    <3>1. DecodeEof \/ DecodeError \/ UNCHANGED result
      BY <2>3, Zenon DEF DrainEnd
    <3>2. DecodeEof \/ DecodeError => Return("EOF", <<>>) \/ Return("ERR", <<>>)
      BY DEF DecodeEof, DecodeError
    <3> QED
      BY <3>1, <3>2 DEF Return
  <2>4. CASE DrainError
    <3>1. PICK ret \in {"BUG", "ERR"} : Return(ret, <<>>)
      BY <2>4 DEF DrainError
    <3> QED
      BY <3>1 DEF Return
  <2>5. CASE DecodeUnit \/ DrainFrame
    BY <2>5 DEF DecodeUnit, DrainFrame, Output, Return
  <2> QED
    BY <2>1, <2>2, <2>3, <2>4, <2>5 DEF Next, Library
<1> QED
  BY <1>1, IInvCorrect, PTL DEF Spec, NoEagainWhenDraining
-----------------------------------------------------------------------------
(***************************************************************************)
(* Decoder implements Pipe.                                                *)
(*                                                                         *)
(* Packets and frames only change their place in Held, until the codec's   *)
(* oldest frame leaves it.  That a frame kept for the client is one that   *)
(* it may see, and that a receive runs with a blank frame, is FrameInv.    *)
(***************************************************************************)

FrameInv ==
  /\ buffer_frame # <<>> => \E u \in Unit \ Hidden : buffer_frame = <<u>>
  /\ pc # "idle" /\ call = "receive" => frame = <<>>

PipeInv == IInv /\ FrameInv

-----------------------------------------------------------------------------
\* Facts about the sequences that make up Held.
LEMMA HeldSeqs ==
  /\ <<>> \in Seq(Unit)
  /\ \A s, t \in Seq(Unit) : s \o t \in Seq(Unit)
  /\ \A s \in Seq(Unit) : s \o <<>> = s /\ <<>> \o s = s
  /\ \A s, t, u \in Seq(Unit) : (s \o t) \o u = s \o (t \o u)
  /\ \A s, t \in Seq(Unit) : s \o t = <<>> => s = <<>> /\ t = <<>>
<1>1. \A s, t \in Seq(Unit) : s \o t \in Seq(Unit)
  BY ConcatProperties
<1>2. \A s \in Seq(Unit) : s \o <<>> = s /\ <<>> \o s = s
  BY ConcatEmptySeq
<1>3. \A s, t, u \in Seq(Unit) : (s \o t) \o u = s \o (t \o u)
  BY ConcatAssociative
<1>4. \A s, t \in Seq(Unit) : s \o t = <<>> => s = <<>> /\ t = <<>>
  BY ConcatSimplifications!concIsEmpty
<1> QED
  BY <1>1, <1>2, <1>3, <1>4, EmptySeq

\* The first unit of a sequence, put before it and taken from it.
LEMMA Uncons ==
  ASSUME NEW s \in Seq(Unit), s # <<>>
  PROVE  s = <<Head(s)>> \o Tail(s)
<1>1. s[1] = Head(s) /\ Len(s) \in 1 .. Len(s) /\ 1 \in 1 .. Len(s)
  BY EmptySeq
<1>2. SubSeq(s, 1, Len(s)) = <<s[1]>> \o SubSeq(s, 2, Len(s))
  BY <1>1, SubSeqRecursiveFirst
<1> QED
  BY <1>1, <1>2, SubSeqFull, TailIsSubSeq

LEMMA HeadOfUnit ==
  ASSUME NEW u \in Unit, NEW s \in Seq(Unit)
  PROVE  /\ Head(<<u>> \o s) = u /\ Tail(<<u>> \o s) = s
         /\ <<u>> \o s # <<>> /\ <<u>> \o s \in Seq(Unit)
<1> DEFINE q == <<u>> \o s
<1>1. <<u>> \in Seq(Unit) /\ Len(<<u>>) = 1 /\ Len(s) \in Nat
  BY LenProperties
<1>2. /\ q \in Seq(Unit) /\ Len(q) = 1 + Len(s)
      /\ \A i \in 1 .. 1 + Len(s) : q[i] = IF i <= 1 THEN <<u>>[i] ELSE s[i - 1]
  BY <1>1, ConcatProperties
<1> HIDE DEF q
<1>3. q # <<>> /\ q[1] = u
  BY <1>1, <1>2, EmptySeq
<1>4. /\ Head(q) = q[1] /\ Tail(q) \in Seq(Unit) /\ Len(Tail(q)) = Len(s)
      /\ \A i \in 1 .. Len(s) : Tail(q)[i] = q[i + 1]
  BY <1>1, <1>2, <1>3, HeadTailProperties
<1>5. \A i \in 1 .. Len(Tail(q)) : Tail(q)[i] = s[i]
  BY <1>1, <1>2, <1>4
<1>6. Tail(q) = s
  BY <1>4, <1>5, SeqEqual
<1> QED
  BY <1>2, <1>3, <1>4, <1>6 DEF q

\* Cutting a run out of the middle of a sequence.
LEMMA CutOut ==
  ASSUME NEW a \in Seq(Unit), NEW g \in Seq(Unit), NEW b \in Seq(Unit),
         NEW q \in Seq(Unit), q = (a \o g) \o b
  PROVE  \E i \in 1 .. Len(q) + 1 : \E j \in i - 1 .. Len(q) :
           Refinement!Without(q, i, j) = a \o b
<1> DEFINE i == Len(a) + 1
           j == Len(a) + Len(g)
<1>1. Len(a) \in Nat /\ Len(g) \in Nat /\ Len(b) \in Nat
  BY LenProperties
<1>2. /\ a \o g \in Seq(Unit) /\ Len(a \o g) = j
      /\ \A k \in 1 .. j : (a \o g)[k] = IF k <= Len(a) THEN a[k] ELSE g[k - Len(a)]
  BY ConcatProperties
<1>3. /\ q \in Seq(Unit) /\ Len(q) = j + Len(b)
      /\ \A k \in 1 .. j + Len(b) : q[k] = IF k <= j THEN (a \o g)[k] ELSE b[k - j]
  BY <1>2, ConcatProperties
<1>4. \A k \in 1 .. Len(q) : q[k] \in Unit
  BY <1>3, ElementOfSeq
<1>5. SubSeq(q, 1, i - 1) = a
  <2>1. \A k \in 1 .. Len(a) : q[k] = a[k]
    BY <1>1, <1>2, <1>3
  <2>2. /\ SubSeq(q, 1, Len(a)) \in Seq(Unit)
        /\ Len(SubSeq(q, 1, Len(a))) = Len(a)
        /\ \A k \in 1 .. Len(a) : SubSeq(q, 1, Len(a))[k] = q[k]
    BY <1>1, <1>3, <1>4, SubSeqProperties
  <2> QED
    BY <1>1, <2>1, <2>2, SeqEqual
<1>6. SubSeq(q, j + 1, Len(q)) = b
  <2>1. \A k \in 1 .. Len(b) : q[j + k] = b[k]
    BY <1>1, <1>3
  <2>2. /\ SubSeq(q, j + 1, Len(q)) \in Seq(Unit)
        /\ Len(SubSeq(q, j + 1, Len(q))) = Len(b)
        /\ \A k \in 1 .. Len(b) : SubSeq(q, j + 1, Len(q))[k] = q[j + k]
    <3>1. \A k \in j + 1 .. Len(q) : q[k] \in Unit
      BY <1>1, <1>3, <1>4
    <3>2. j + 1 \in Int /\ Len(q) \in Int /\ Len(q) - (j + 1) + 1 = Len(b)
      BY <1>1, <1>3
    <3>3. \A k \in 1 .. Len(b) : j + 1 + k - 1 = j + k
      BY <1>1
    <3>4. IF j + 1 <= Len(q) THEN Len(q) - (j + 1) + 1 = Len(b) ELSE 0 = Len(b)
      BY <1>1, <1>3
    <3> HIDE DEF j
    <3> QED
      BY SMTT(60), <3>1, <3>2, <3>3, <3>4, SubSeqProperties
  <2> QED
    BY <1>1, <2>1, <2>2, SeqEqual
<1>7. i \in 1 .. Len(q) + 1 /\ j \in i - 1 .. Len(q)
  BY <1>1, <1>3
<1>8. Refinement!Without(q, i, j) = a \o b
  BY <1>5, <1>6 DEF Refinement!Without
<1> QED
  BY <1>7, <1>8

-----------------------------------------------------------------------------
\* A codec that gives up a frame, hidden or not.
LEMMA OutputFrame ==
  ASSUME PipeInv, pc # "idle", NEW held \in Seq(Unit), held # <<>>, Output(held)
  PROVE  FrameInv'
<1>1. PICK u \in Unit : u = Head(held)
  BY UnitSeqs
<1>2. buffer_frame = <<>>
  BY DEF PipeInv, IInv, CallShape
<1>3. CASE u \in Hidden
  BY <1>1, <1>2, <1>3 DEF Output, PipeInv, FrameInv
<1>4. CASE u \notin Hidden
  <2>1. Return("OK", <<u>>)
    BY <1>1, <1>4 DEF Output
  <2> QED
    BY <1>2, <1>4, <2>1 DEF Return, FrameInv
<1> QED
  BY <1>3, <1>4

LEMMA FrameInvStep == PipeInv /\ [Next]_vars => FrameInv'
<1> SUFFICES ASSUME PipeInv, [Next]_vars PROVE FrameInv'
  OBVIOUS
<1> USE DEF FrameInv, packets, frames, drain
<1>0. FrameInv /\ IInv
  BY DEF PipeInv
<1>1. ASSUME NEW p \in Packet, SendPacket(p) PROVE FrameInv'
  BY <1>0, <1>1 DEF SendPacket, Enter, Answer
<1>2. CASE SendRefused
  BY <1>0, <1>2 DEF SendRefused, Answer
<1>3. CASE SendNull
  BY <1>0, <1>3 DEF SendNull, Answer
<1>4. CASE ReceiveFrame
  BY <1>0, <1>4 DEF ReceiveFrame, Enter, Answer
<1>5. CASE FlushBuffers
  BY <1>5 DEF FlushBuffers
<1>6. CASE SimpleStart \/ FetchEof \/ FetchPacket \/ FetchFeed \/ DrainEnd
  <2>1. pc # "idle" /\ UNCHANGED <<buffer_frame, frame, call>>
    BY <1>6 DEF SimpleStart, FetchEof, FetchPacket, FetchFeed, DrainEnd
  <2> QED
    BY <1>0, <2>1
<1>7. ASSUME NEW ret, Return(ret, <<>>), pc # "idle" PROVE FrameInv'
  BY <1>0, <1>7 DEF Return, IInv, CallShape
<1>8. CASE FetchNothing \/ DecodeEof \/ DecodeError \/ DrainError
  <2>1. pc # "idle" /\ \E ret \in {"EAGAIN", "EOF", "ERR", "BUG"} : Return(ret, <<>>)
    BY <1>8 DEF FetchNothing, DecodeEof, DecodeError, DrainError
  <2> QED
    BY <1>7, <2>1
<1>9. CASE DecodeUnit
  <2> DEFINE held == Append(codec, Head(in_pkt))
  <2>1. held \in Seq(Unit) /\ held # <<>>
    BY <1>0, <1>9, UnitSeqs DEF DecodeUnit, IInv, TypeOK
  <2> HIDE DEF held
  <2>2. pc # "idle" /\ (Output(held) \/ (UNCHANGED <<buffer_frame, frame, call>>))
    BY <1>9 DEF DecodeUnit, held
  <2> QED
    BY <1>0, <2>1, <2>2, OutputFrame
<1>10. CASE DrainFrame
  <2>1. pc # "idle" /\ codec \in Seq(Unit) /\ codec # <<>> /\ Output(codec)
    BY <1>0, <1>10 DEF DrainFrame, IInv, TypeOK
  <2> QED
    BY <2>1, OutputFrame
<1>11. CASE UNCHANGED vars
  BY <1>0, <1>11 DEF vars
<1> QED
  BY <1>1, <1>2, <1>3, <1>4, <1>5, <1>6, <1>8, <1>9, <1>10, <1>11
  DEF Next, Client, Library

LEMMA PipeInvCorrect == Spec => []PipeInv
<1>1. Init => FrameInv
  BY DEF Init, FrameInv
<1>2. IInv /\ FrameInv /\ [Next]_vars => FrameInv'
  BY FrameInvStep DEF PipeInv
<1> QED
  BY <1>1, <1>2, IInvCorrect, PTL DEF Spec, PipeInv

-----------------------------------------------------------------------------
\* A return from the library, seen from the queue: send announces success
\* unless the codec failed, receive hands out what it got.
LEMMA ReturnMaps ==
  ASSUME PipeInv, pc # "idle", NEW f, NEW ret, Return(ret, f)
  PROVE  \/ call = "send" /\ frame' = frame
            /\ buffer_frame = <<>> /\ buffer_frame' = f
            /\ result' = [of |-> "send",
                          ret |-> IF ret \in {"EAGAIN", "EOF"} THEN "OK" ELSE ret]
         \/ call = "receive" /\ frame = <<>> /\ frame' = f
            /\ buffer_frame = <<>> /\ buffer_frame' = <<>>
            /\ result' = [of |-> "receive", ret |-> ret]
BY DEF Return, PipeInv, FrameInv, IInv, CallShape

\* An error makes the queue lose the units in gone.
LEMMA LoseMaps ==
  ASSUME PipeInv, pc # "idle", NEW a \in Seq(Unit), NEW gone \in Seq(Unit),
         NEW b \in Seq(Unit), Queue = (a \o gone) \o b, Queue' = a \o b,
         NEW ret \in {"ERR", "BUG"}, Return(ret, <<>>),
         draining_started' = draining_started
  PROVE  [Refinement!Next]_(Refinement!vars)
<1>1. \E i \in 1 .. Len(Queue) + 1 : \E j \in i - 1 .. Len(Queue) :
        Queue' = Refinement!Without(Queue, i, j)
  <2>1. PICK q \in Seq(Unit) : q = Queue /\ q = (a \o gone) \o b
    BY HeldSeqs
  <2>2. \E i \in 1 .. Len(q) + 1 : \E j \in i - 1 .. Len(q) :
          Refinement!Without(q, i, j) = a \o b
    BY ZenonT(40), <2>1, CutOut
  <2> QED
    BY <2>1, <2>2
<1>2. \E c \in {"send", "receive"} : Refinement!Returned(c, ret)
  BY ReturnMaps DEF Refinement!Returned
<1>3. UNCHANGED <<draining_started, frame>>
  BY ReturnMaps
<1>4. Refinement!Lose
  <2>1. \E c \in {"send", "receive"}, r \in {"ERR", "BUG"} : Refinement!Returned(c, r)
    BY <1>2
  <2> QED
    BY <1>1, <1>3, <2>1 DEF Refinement!Lose
<1> QED
  BY <1>4 DEF Refinement!Next

\* The codec gives up its oldest frame, hidden or for the client.
LEMMA PipeOutput ==
  ASSUME PipeInv, pc # "idle", NEW u \in Unit, NEW s \in Seq(Unit),
         Queue = <<u>> \o s, draining_started' = draining_started,
         \/ u \in Hidden /\ Queue' = s /\ UNCHANGED <<frame, result>>
         \/ /\ u \notin Hidden /\ Return("OK", <<u>>)
            /\ Queue' = IF call = "send" THEN <<u>> \o s ELSE s
  PROVE  [Refinement!Next]_(Refinement!vars)
<1>1. Head(Queue) = u /\ Tail(Queue) = s /\ Queue # <<>>
  BY HeadOfUnit
<1>2. CASE u \in Hidden /\ Queue' = s /\ UNCHANGED <<frame, result>>
  BY <1>1, <1>2 DEF Refinement!Hide, Refinement!Next
<1>3. CASE /\ u \notin Hidden /\ Return("OK", <<u>>)
           /\ Queue' = IF call = "send" THEN <<u>> \o s ELSE s
  <2>1. CASE call = "send"
    <3>1. frame' = frame /\ result' = [of |-> "send", ret |-> "OK"]
      BY <1>3, <2>1, ReturnMaps
    <3> QED
      BY <1>3, <2>1, <3>1 DEF Refinement!SendDone, Refinement!Returned, Refinement!Next
  <2>2. CASE call = "receive"
    <3>1. frame' = <<u>> /\ result' = [of |-> "receive", ret |-> "OK"]
      BY <1>3, <2>2, ReturnMaps
    <3> QED
      BY <1>1, <1>3, <2>2, <3>1
      DEF Refinement!Deliver, Refinement!Returned, Refinement!Next
  <2> QED
    BY <2>1, <2>2 DEF PipeInv, IInv, CallShape
<1> QED
  BY <1>2, <1>3

\* The steps of a client, one by one.
LEMMA PipeClient == PipeInv /\ Client => [Refinement!Next]_(Refinement!vars)
<1> SUFFICES ASSUME PipeInv, Client PROVE [Refinement!Next]_(Refinement!vars)
  OBVIOUS
<1> USE DEF Refinement!Returned, packets, frames, drain
<1>0. /\ buffer_frame \in Seq(Unit) /\ codec \in Seq(Unit) /\ in_pkt \in Seq(Unit)
      /\ bsf_pkt \in Seq(Unit) /\ buffer_pkt \in Seq(Unit)
      /\ draining_done => draining_started /\ buffer_frame = <<>>
  BY DEF PipeInv, IInv, TypeOK, DrainOrder
<1> DEFINE inner == ((buffer_frame \o codec) \o in_pkt) \o bsf_pkt
<1>01. inner \in Seq(Unit) /\ Held = inner \o buffer_pkt
  <2>1. inner \in Seq(Unit)
    BY <1>0, HeldSeqs
  <2> QED
    BY <2>1 DEF Held
<1>1. ASSUME NEW p \in Packet, SendPacket(p) PROVE Refinement!Accept
  <2>1. Queue = inner
    BY <1>0, <1>01, <1>1, HeldSeqs DEF SendPacket, Queue
  <2>2. Queue' = inner \o p
    BY <1>0, <1>1 DEF SendPacket, Queue, Held
  <2> QED
    BY <1>1, <2>1, <2>2 DEF Refinement!Accept, SendPacket, Enter, Answer
<1>2. CASE SendRefused
  <2>1. CASE draining_started
    BY <1>2, <2>1 DEF SendRefused, Answer, Refinement!Refuse, Refinement!Next, Queue, Held
  <2>2. CASE ~draining_started /\ buffer_pkt # <<>>
    <3>1. Queue # <<>>
      BY <1>0, <1>01, <2>2, HeldSeqs DEF Queue
    <3> QED
      BY <1>2, <2>2, <3>1 DEF SendRefused, Answer, Refinement!Refuse, Refinement!Next,
         Queue, Held
  <2> QED
    BY <1>2, <2>1, <2>2 DEF SendRefused
<1>3. CASE SendNull
  BY <1>3 DEF SendNull, Answer, Refinement!Close, Refinement!Next, Queue, Held
<1>4. CASE ReceiveFrame
  <2>1. CASE buffer_frame = <<>>
    BY <1>4, <2>1 DEF ReceiveFrame, Enter, Refinement!Ask, Refinement!Next, Queue, Held
  <2>2. CASE buffer_frame # <<>>
    <3>1. PICK u \in Unit \ Hidden : buffer_frame = <<u>>
      BY <2>2 DEF PipeInv, FrameInv
    <3> DEFINE rest == ((codec \o in_pkt) \o bsf_pkt) \o buffer_pkt
    <3>2. rest \in Seq(Unit) /\ <<u>> \in Seq(Unit)
      BY <1>0, HeldSeqs, UnitSeqs
    <3>3. Queue = <<u>> \o rest
      <4>1. Queue = ((((<<u>> \o codec) \o in_pkt) \o bsf_pkt) \o buffer_pkt)
        BY <1>0, <2>2, <3>1 DEF Queue, Held
      <4>2. ((<<u>> \o codec) \o in_pkt) = <<u>> \o (codec \o in_pkt)
        BY <1>0, <3>2, HeldSeqs
      <4>3. (<<u>> \o (codec \o in_pkt)) \o bsf_pkt
               = <<u>> \o ((codec \o in_pkt) \o bsf_pkt)
        BY <1>0, <3>2, HeldSeqs
      <4>4. (<<u>> \o ((codec \o in_pkt) \o bsf_pkt)) \o buffer_pkt = <<u>> \o rest
        BY SMTT(60), <1>0, <3>2, HeldSeqs
      <4> QED
        BY <4>1, <4>2, <4>3, <4>4
    <3>4. Queue' = rest
      <4>1. UNCHANGED <<codec, in_pkt, bsf_pkt, buffer_pkt>> /\ buffer_frame' = <<>>
            /\ ~draining_done'
        BY <1>0, <1>4, <2>2 DEF ReceiveFrame
      <4>2. Queue' = ((((<<>> \o codec) \o in_pkt) \o bsf_pkt) \o buffer_pkt)
        BY <4>1 DEF Queue, Held
      <4> QED
        BY <1>0, <4>2, HeldSeqs
    <3> HIDE DEF rest
    <3>5. Head(Queue) = u /\ Tail(Queue) = rest /\ Queue # <<>>
      BY <3>2, <3>3, HeadOfUnit
    <3>6. /\ frame' = <<u>> /\ result' = [of |-> "receive", ret |-> "OK"]
          /\ draining_started' = draining_started
      BY <1>4, <2>2, <3>1 DEF ReceiveFrame, Answer
    <3> QED
      BY <3>1, <3>4, <3>5, <3>6 DEF Refinement!Deliver, Refinement!Next
  <2> QED
    BY <2>1, <2>2
<1>5. CASE FlushBuffers
  <2>1. Queue' = <<>>
    BY <1>5, HeldSeqs DEF FlushBuffers, Queue, Held
  <2> QED
    BY <1>5, <2>1 DEF FlushBuffers, Refinement!Reset, Refinement!Next
<1> QED
  BY <1>1, <1>2, <1>3, <1>4, <1>5 DEF Client, Refinement!Next

\* The steps of the library that move a packet or report its absence.
LEMMA PipeFetch ==
  ASSUME PipeInv, SimpleStart \/ FetchEof \/ FetchPacket \/ FetchFeed \/ FetchNothing
  PROVE  [Refinement!Next]_(Refinement!vars)
<1> USE DEF packets, frames, drain
<1>0. /\ buffer_frame \in Seq(Unit) /\ codec \in Seq(Unit) /\ in_pkt \in Seq(Unit)
      /\ bsf_pkt \in Seq(Unit) /\ buffer_pkt \in Seq(Unit)
      /\ pc = "fetch" => in_pkt = <<>> /\ ~draining_done
  BY DEF PipeInv, IInv, TypeOK, DrainOrder, CallShape
<1>1. buffer_frame \o codec \in Seq(Unit)
  BY <1>0, HeldSeqs
<1>2. CASE SimpleStart \/ FetchEof
  BY <1>2 DEF SimpleStart, FetchEof, Refinement!vars, Queue, Held
<1>3. CASE FetchPacket
  <2>1. Held' = (((buffer_frame \o codec) \o bsf_pkt) \o <<>>) \o buffer_pkt
    BY <1>3 DEF FetchPacket, Held
  <2>2. Held = (((buffer_frame \o codec) \o <<>>) \o bsf_pkt) \o buffer_pkt
    BY <1>0, <1>3 DEF FetchPacket, Held
  <2>3. (buffer_frame \o codec) \o bsf_pkt \in Seq(Unit)
    BY <1>0, <1>1, HeldSeqs
  <2>4. Held' = Held
    BY <1>1, <2>1, <2>2, <2>3, HeldSeqs
  <2> QED
    BY <1>3, <2>4 DEF FetchPacket, Refinement!vars, Queue
<1>4. CASE FetchFeed
  <2> DEFINE kept == (buffer_frame \o codec) \o in_pkt
  <2>1. kept \in Seq(Unit) /\ kept \o buffer_pkt \in Seq(Unit)
    BY <1>0, <1>1, HeldSeqs
  <2>2. Held' = (kept \o buffer_pkt) \o <<>>
    BY <1>4 DEF FetchFeed, Held
  <2>3. Held = (kept \o <<>>) \o buffer_pkt
    BY <1>4 DEF FetchFeed, Held
  <2> HIDE DEF kept
  <2>4. Held' = Held
    BY <2>1, <2>2, <2>3, HeldSeqs
  <2> QED
    BY <1>4, <2>4 DEF FetchFeed, Refinement!vars, Queue
<1>5. CASE FetchNothing
  <2>1. /\ pc # "idle" /\ Return("EAGAIN", <<>>) /\ ~draining_started
        /\ UNCHANGED <<packets, codec, drain>>
    BY <1>5 DEF FetchNothing
  <2>2. /\ buffer_frame' = buffer_frame /\ frame' = frame
        /\ \/ result' = [of |-> "send", ret |-> "OK"]
           \/ result' = [of |-> "receive", ret |-> "EAGAIN"]
    BY <2>1, ReturnMaps
  <2>3. Queue' = Queue
    BY <2>1, <2>2 DEF Queue, Held
  <2> QED
    BY <2>1, <2>2, <2>3
    DEF Refinement!SendDone, Refinement!Starve, Refinement!Returned, Refinement!Next
<1> QED
  BY <1>2, <1>3, <1>4, <1>5

\* The steps of the library that run the codec, or find it exhausted.
LEMMA PipeDecode ==
  ASSUME PipeInv, DecodeEof \/ DecodeUnit \/ DecodeError \/ DrainFrame \/ DrainEnd
                  \/ DrainError
  PROVE  [Refinement!Next]_(Refinement!vars)
<1> USE DEF packets, frames, drain
<1>0. /\ codec \in Seq(Unit) /\ in_pkt \in Seq(Unit) /\ buffer_pkt \in Seq(Unit)
      /\ pc = "decode" /\ buffer_frame = <<>> /\ bsf_pkt = <<>>
      /\ in_pkt = <<>> => draining_started /\ buffer_pkt = <<>>
      /\ draining_done => draining_started
      /\ CodecDelay = 0 => codec = <<>>
  BY DEF PipeInv, IInv, TypeOK, DrainOrder, CallShape, DecodeEof, DecodeUnit,
     DecodeError, DrainFrame, DrainEnd, DrainError
<1>1. Held = (codec \o in_pkt) \o buffer_pkt
  BY <1>0, HeldSeqs DEF Held
<1>2. in_pkt = <<>> => Held = codec
  BY <1>0, <1>1, HeldSeqs
<1>3. CASE DecodeEof
  <2>1. Queue = <<>>
    BY <1>0, <1>2, <1>3, HeldSeqs DEF DecodeEof, Exhausted, Queue
  <2>2. Queue' = <<>> /\ draining_started /\ draining_started' = draining_started
    BY <1>0, <1>3 DEF DecodeEof, Exhausted, Queue
  <2>3. /\ frame' = frame
        /\ \/ result' = [of |-> "send", ret |-> "OK"]
           \/ result' = [of |-> "receive", ret |-> "EOF"]
    BY <1>0, <1>3, ReturnMaps DEF DecodeEof
  <2> QED
    BY <2>1, <2>2, <2>3
    DEF Refinement!SendDone, Refinement!End, Refinement!Returned, Refinement!Next
<1>4. CASE DecodeUnit
  <2> DEFINE held == Append(codec, Head(in_pkt))
             rest == Tail(in_pkt) \o buffer_pkt
  <2>1. /\ pc # "idle" /\ in_pkt # <<>> /\ in_pkt' = Tail(in_pkt)
        /\ buffer_pkt' = buffer_pkt /\ bsf_pkt' = <<>>
        /\ ~draining_done /\ ~draining_done' /\ draining_started' = draining_started
    BY <1>0, <1>4 DEF DecodeUnit, Exhausted
  <2>2. PICK h \in Unit, tl \in Seq(Unit) : h = Head(in_pkt) /\ tl = Tail(in_pkt)
    BY <1>0, <2>1, UnitSeqs
  <2>3. /\ <<h>> \in Seq(Unit) /\ held \in Seq(Unit) /\ held # <<>>
        /\ held = codec \o <<h>> /\ rest \in Seq(Unit)
    <3>1. <<h>> \in Seq(Unit) /\ <<h>> # <<>>
      BY <2>2, UnitSeqs
    <3>2. held = codec \o <<h>>
      BY <1>0, <2>2, AppendIsConcat
    <3>3. held \in Seq(Unit)
      BY <1>0, <3>1, <3>2, HeldSeqs
    <3>4. held # <<>>
      BY <1>0, <2>2, UnitSeqs
    <3>5. rest \in Seq(Unit)
      BY <1>0, <2>2, HeldSeqs
    <3> QED
      BY <3>1, <3>2, <3>3, <3>4, <3>5
  <2>4. Queue = held \o rest
    <3>1. Queue = (codec \o in_pkt) \o buffer_pkt
      BY <1>1, <2>1 DEF Queue
    <3>2. in_pkt = <<h>> \o tl
      BY <1>0, <2>1, <2>2, Uncons
    <3>3. codec \o (<<h>> \o tl) = (codec \o <<h>>) \o tl
      BY SMTT(60), <1>0, <2>2, <2>3, HeldSeqs
    <3>4. ((codec \o <<h>>) \o tl) \o buffer_pkt = (codec \o <<h>>) \o (tl \o buffer_pkt)
      <4>1. PICK c \in Seq(Unit), b \in Seq(Unit) : c = codec \o <<h>> /\ b = buffer_pkt
        BY <1>0, <2>3, HeldSeqs
      <4>2. (c \o tl) \o b = c \o (tl \o b)
        BY SMTT(60), <2>2, <4>1, HeldSeqs
      <4> QED
        BY <4>1, <4>2
    <3> QED
      BY <2>2, <2>3, <3>1, <3>2, <3>3, <3>4
  <2>5. rest = in_pkt' \o buffer_pkt'
    BY <2>1
  <2> HIDE DEF held, rest
  <2>6. ASSUME NEW c \in Seq(Unit), codec' = c, buffer_frame' = <<>>
        PROVE  Queue' = c \o rest
    <3>1. in_pkt' \in Seq(Unit) /\ buffer_pkt' \in Seq(Unit)
      BY <1>0, <2>1, <2>2
    <3>2. Queue' = (((<<>> \o c) \o in_pkt') \o <<>>) \o buffer_pkt'
      BY <2>1, <2>6 DEF Queue, Held
    <3>3. <<>> \o c = c /\ (c \o in_pkt') \o <<>> = c \o in_pkt'
      BY <2>6, <3>1, HeldSeqs
    <3>4. (c \o in_pkt') \o buffer_pkt' = c \o (in_pkt' \o buffer_pkt')
      BY <2>6, <3>1, HeldSeqs
    <3> QED
      BY <2>5, <3>2, <3>3, <3>4
  <2>7. CASE Output(held)
    <3>1. PICK u \in Unit, tail \in Seq(Unit) : u = Head(held) /\ tail = Tail(held)
      BY <2>3, UnitSeqs
    <3>2. Queue = <<u>> \o (tail \o rest)
      <4>1. held = <<u>> \o tail /\ <<u>> \in Seq(Unit)
        BY <2>3, <3>1, Uncons, UnitSeqs
      <4> QED
        BY SMTT(60), <2>3, <2>4, <3>1, <4>1, HeldSeqs
    <3>3. tail \o rest \in Seq(Unit)
      BY <2>3, <3>1, HeldSeqs
    <3>4. codec' = tail
      BY <2>7, <3>1 DEF Output
    <3>5. CASE u \in Hidden
      <4>1. Queue' = tail \o rest
        BY <1>0, <2>6, <2>7, <3>1, <3>4, <3>5 DEF Output
      <4> QED
        BY <2>1, <2>7, <3>1, <3>2, <3>3, <3>5, <4>1, PipeOutput DEF Output
    <3>6. CASE u \notin Hidden
      <4>1. Return("OK", <<u>>)
        BY <2>7, <3>1, <3>6 DEF Output
      <4>2. Queue' = IF call = "send" THEN <<u>> \o (tail \o rest) ELSE tail \o rest
        <5>1. CASE call = "receive"
          <6>1. buffer_frame' = <<>>
            BY <2>1, <4>1, <5>1, ReturnMaps
          <6> QED
            BY <2>6, <3>1, <3>4, <5>1, <6>1
        <5>2. CASE call = "send"
          <6>1. buffer_frame' = <<u>> /\ <<u>> \in Seq(Unit)
            BY <2>1, <4>1, <5>2, ReturnMaps, UnitSeqs
          <6>2. Queue' = (((<<u>> \o tail) \o in_pkt') \o <<>>) \o buffer_pkt'
            BY <2>1, <3>4, <6>1 DEF Queue, Held
          <6>3. PICK p \in Seq(Unit), b \in Seq(Unit) : p = in_pkt' /\ b = buffer_pkt'
            BY <1>0, <2>1, <2>2
          <6>4. ((<<u>> \o tail) \o p) \o <<>> = <<u>> \o (tail \o p)
            BY <3>1, <6>1, <6>3, HeldSeqs
          <6>5. (<<u>> \o (tail \o p)) \o b = <<u>> \o ((tail \o p) \o b)
            BY <3>1, <6>1, <6>3, HeldSeqs
          <6>6. (tail \o p) \o b = tail \o (p \o b)
            BY SMTT(60), <3>1, <6>3, HeldSeqs
          <6> QED
            BY <2>5, <5>2, <6>2, <6>3, <6>4, <6>5, <6>6
        <5>3. call \in {"send", "receive"}
          BY <2>1, <4>1, ReturnMaps
        <5> QED
          BY <5>1, <5>2, <5>3
      <4> QED
        BY <2>1, <3>1, <3>2, <3>3, <3>6, <4>1, <4>2, PipeOutput
    <3> QED
      BY <3>5, <3>6
  <2>8. CASE codec' = held /\ UNCHANGED <<buffer_frame, frame, result>>
    <3>1. Queue' = Queue
      BY <1>0, <2>3, <2>4, <2>6, <2>8
    <3> QED
      BY <2>1, <2>8, <3>1 DEF Refinement!vars
  <2> QED
    BY <1>4, <2>7, <2>8 DEF DecodeUnit, held
<1>5. CASE DecodeError
  <2>1. /\ pc # "idle" /\ Return("ERR", <<>>) /\ draining_started' = draining_started
        /\ ~draining_done /\ ~draining_done' /\ in_pkt' = <<>> /\ codec' = codec
        /\ buffer_pkt' = buffer_pkt /\ bsf_pkt' = <<>>
    BY <1>0, <1>5 DEF DecodeError, Exhausted
  <2>2. buffer_frame' = <<>>
    BY <2>1, ReturnMaps
  <2>3. Queue' = codec \o buffer_pkt
    BY <1>0, <2>1, <2>2, HeldSeqs DEF Queue, Held
  <2>4. Queue = (codec \o in_pkt) \o buffer_pkt
    BY <1>1, <2>1 DEF Queue
  <2> QED
    BY <1>0, <2>1, <2>3, <2>4, LoseMaps
<1>6. CASE DrainFrame
  <2>1. /\ pc # "idle" /\ in_pkt = <<>> /\ codec # <<>> /\ Output(codec)
        /\ UNCHANGED <<packets, drain>> /\ ~draining_done
    BY <1>6 DEF DrainFrame, Exhausted
  <2>2. PICK u \in Unit, tail \in Seq(Unit) : u = Head(codec) /\ tail = Tail(codec)
    BY <1>0, <2>1, UnitSeqs
  <2>3. Queue = <<u>> \o tail /\ <<u>> \in Seq(Unit)
    BY <1>0, <1>2, <2>1, <2>2, Uncons, UnitSeqs DEF Queue
  <2>4. ASSUME NEW f \in Seq(Unit), buffer_frame' = f
        PROVE  Queue' = f \o tail
    <3>1. codec' = tail
      BY <2>1, <2>2 DEF Output
    <3>2. Queue' = (((f \o tail) \o <<>>) \o <<>>) \o <<>>
      BY <1>0, <2>1, <2>4, <3>1 DEF Queue, Held
    <3> QED
      BY <2>2, <2>4, <3>2, HeldSeqs
  <2>5. CASE u \in Hidden
    <3>1. UNCHANGED <<buffer_frame, frame, result>>
      BY <2>1, <2>2, <2>5 DEF Output
    <3>2. Queue' = tail
      BY <1>0, <2>2, <2>4, <3>1, HeldSeqs
    <3> QED
      BY <2>1, <2>2, <2>3, <2>5, <3>1, <3>2, PipeOutput
  <2>6. CASE u \notin Hidden
    <3>1. Return("OK", <<u>>)
      BY <2>1, <2>2, <2>6 DEF Output
    <3>2. buffer_frame' = IF call = "send" THEN <<u>> ELSE <<>>
      BY <2>1, <3>1, ReturnMaps
    <3>3. Queue' = IF call = "send" THEN <<u>> \o tail ELSE tail
      BY <2>2, <2>3, <2>4, <3>2, HeldSeqs
    <3> QED
      BY <2>1, <2>2, <2>3, <2>6, <3>1, <3>3, PipeOutput
  <2> QED
    BY <2>5, <2>6
<1>7. CASE DrainEnd
  <2>1. Queue = <<>> /\ Queue' = <<>>
    BY <1>2, <1>7 DEF DrainEnd, Exhausted, Queue
  <2> QED
    BY <1>7, <2>1 DEF DrainEnd, Refinement!vars
<1>8. CASE DrainError
  <2>1. /\ pc # "idle" /\ in_pkt = <<>> /\ ~draining_done
        /\ UNCHANGED <<packets, draining_started>>
        /\ codec' = codec \/ (codec # <<>> /\ codec' = Tail(codec))
    BY <1>8 DEF DrainError, Exhausted
  <2>2. PICK ret \in {"ERR", "BUG"} : Return(ret, <<>>)
    BY <1>8 DEF DrainError
  <2>3. Queue = codec /\ buffer_frame' = <<>>
    BY <1>2, <2>1, <2>2, ReturnMaps DEF Queue
  <2>4. Queue' \in {<<>>, codec} \/ (codec # <<>> /\ Queue' = Tail(codec))
    <3>1. CASE draining_done'
      BY <3>1 DEF Queue
    <3>2. CASE ~draining_done'
      <4>1. codec' \in Seq(Unit)
        BY <1>0, <2>1, UnitSeqs
      <4>2. Queue' = (((<<>> \o codec') \o <<>>) \o <<>>) \o <<>>
        BY <1>0, <2>1, <2>3, <3>2 DEF Queue, Held
      <4> QED
        BY <2>1, <4>1, <4>2, HeldSeqs
    <3> QED
      BY <3>1, <3>2
  <2>5. CASE Queue' = <<>>
    <3>1. Queue = (<<>> \o codec) \o <<>> /\ Queue' = <<>> \o <<>>
      BY <1>0, <2>3, <2>5, HeldSeqs
    <3> QED
      BY <1>0, <2>1, <2>2, <3>1, HeldSeqs, LoseMaps
  <2>6. CASE Queue' = codec
    <3>1. Queue = (codec \o <<>>) \o <<>> /\ Queue' = codec \o <<>>
      BY <1>0, <2>3, <2>6, HeldSeqs
    <3> QED
      BY <1>0, <2>1, <2>2, <3>1, HeldSeqs, LoseMaps
  <2>7. CASE codec # <<>> /\ Queue' = Tail(codec)
    <3>1. PICK u \in Unit, tail \in Seq(Unit) : u = Head(codec) /\ tail = Tail(codec)
      BY <1>0, <2>7, UnitSeqs
    <3>2. <<u>> \in Seq(Unit) /\ codec = <<u>> \o tail
      BY <1>0, <2>7, <3>1, Uncons, UnitSeqs
    <3>3. Queue = (<<>> \o <<u>>) \o tail /\ Queue' = <<>> \o tail
      BY <2>3, <2>7, <3>1, <3>2, HeldSeqs
    <3> QED
      BY <2>1, <2>2, <3>1, <3>2, <3>3, HeldSeqs, LoseMaps
  <2> QED
    BY <2>4, <2>5, <2>6, <2>7
<1> QED
  BY <1>3, <1>4, <1>5, <1>6, <1>7, <1>8

-----------------------------------------------------------------------------
\* PipeSpec: what goes into the decoder comes out in its order, nothing is
\* lost without an error that the client sees, and the end is announced only
\* when nothing is left (decode.c 190-800, avcodec.h 88-180).
THEOREM DecoderIsPipe == Spec => PipeSpec
<1>1. Init => Refinement!Init
  <2> SUFFICES ASSUME Init PROVE Refinement!Init
    OBVIOUS
  <2>1. Queue = <<>>
    BY HeldSeqs DEF Init, Queue, Held
  <2> QED
    BY <2>1 DEF Init, Refinement!Init
<1>2. PipeInv /\ [Next]_vars => [Refinement!Next]_(Refinement!vars)
  <2>1. PipeInv /\ UNCHANGED vars => UNCHANGED Refinement!vars
    BY DEF vars, Refinement!vars, Queue, Held
  <2> QED
    BY <2>1, PipeClient, PipeFetch, PipeDecode DEF Next, Library
<1> QED
  BY <1>1, <1>2, PipeInvCorrect, PTL DEF Spec, PipeSpec, Refinement!Spec

-----------------------------------------------------------------------------
(***************************************************************************)
(* The loop of the decoding programs.                                      *)
(*                                                                         *)
(* What the packets sent so far decode to is in the file, about to be      *)
(* written, in the codec, or still to be decoded (Balance); where the      *)
(* program is says which of these places are empty (Places).               *)
(***************************************************************************)

\* What packet p adds to the output.
Shown(p) == Visible(Decodable(p))

\* The packet that is not decoded yet, wherever it is: there is one at most.
Waiting == IF in_pkt # <<>> THEN in_pkt
           ELSE IF bsf_pkt # <<>> THEN bsf_pkt ELSE buffer_pkt
OneWaiting ==
  /\ in_pkt # <<>> => bsf_pkt = <<>> /\ buffer_pkt = <<>>
  /\ bsf_pkt # <<>> => buffer_pkt = <<>>

\* The frame to be written next.
Receiving == at \in {"received", "drained"}
Ready == IF Receiving THEN frame ELSE buffer_frame

Balance == (out \o Ready) \o (Visible(codec) \o Shown(Waiting)) = expected

Reading == {"read", "unref", "send", "flush", "aborted"}
Sending == {"sent", "receive", "received"}
Ending  == {"flushed", "drain", "drained", "done"}

\* Which buffers are empty where, and how the call that runs or ran there ends.
Places ==
  /\ at \in Reading \cup Sending \cup Ending
  /\ at \in Reading \cup Ending => Waiting = <<>> /\ buffer_frame = <<>>
  /\ draining_started <=> at \in Ending
  /\ at \notin {"sent", "received", "drained"} => Idle
  /\ Receiving => buffer_frame = <<>>
  /\ at = "sent" => IF Idle
       THEN \/ result = [of |-> "send", ret |-> "OK"] /\ Waiting = in_pkt
            \/ result = [of |-> "send", ret |-> "ERR"] /\ Waiting = <<>> /\ buffer_frame = <<>>
       ELSE call = "send"
  /\ at \in {"receive", "received"} => Waiting = in_pkt
  /\ Receiving => IF Idle
       THEN result.of = "receive" /\ (result.ret = "OK" \/ frame = <<>>)
       ELSE call = "receive"
  /\ at = "received" /\ Idle /\ result.ret # "OK" => in_pkt = <<>>
  /\ at = "flushed" => result.ret = "OK"
  /\ \/ at = "done"
     \/ at = "drained" /\ Idle /\ result.ret # "OK"
     => codec = <<>> \/ nb_draining_errors # 0
  /\ nb_draining_errors # 0 => draining_started

LoopTypes ==
  /\ input \in Seq(Read) /\ out \in Seq(Unit) /\ expected \in Seq(Unit)
  /\ packet = <<>> \/ \E r \in Read : packet = <<r>>
  /\ at = "send" => packet # <<>> /\ packet[1].own

LoopInv == /\ PipeInv /\ OneWaiting /\ LoopTypes /\ Places
           /\ nb_draining_errors = 0 => Balance

-----------------------------------------------------------------------------
(* What a packet adds to the output.                                       *)

\* The numbers of units of p before the first corrupt one, or fewer.
Good(p) == {n \in 0 .. Len(p) : \A i \in 1 .. n : p[i] \notin Corrupt}

LEMMA DecodableIs ==
  ASSUME NEW p \in Seq(Unit)
  PROVE  \E m \in Good(p) : (\A k \in Good(p) : k <= m) /\ Decodable(p) = SubSeq(p, 1, m)
<1>0. Len(p) \in Nat
  BY LenProperties
<1> DEFINE T == {n \in 0 .. Len(p) : Len(p) - n \in Good(p)}
<1>1. \E m \in Good(p) : \A k \in Good(p) : k <= m
  <2>1. 0 \in Good(p)
    BY <1>0 DEF Good
  <2>2. Len(p) \in T
    BY <1>0, <2>1
  <2>3. T \subseteq Nat
    OBVIOUS
  <2>4. PICK n \in T : \A j \in T : n <= j
    BY <2>2, <2>3, LeastNat
  <2>5. ASSUME NEW k \in Good(p) PROVE k <= Len(p) - n
    <3>1. k \in 0 .. Len(p) /\ Len(p) - k \in 0 .. Len(p) /\ Len(p) - (Len(p) - k) = k
      BY <1>0 DEF Good
    <3>2. Len(p) - k \in T
      BY <3>1
    <3> QED
      BY <1>0, <2>4, <3>1, <3>2
  <2>6. Len(p) - n \in Good(p)
    BY <2>4
  <2> QED
    BY <2>5, <2>6
<1> DEFINE m == CHOOSE n \in Good(p) : \A k \in Good(p) : k <= n
<1>2. m \in Good(p) /\ \A k \in Good(p) : k <= m
  BY <1>1
<1>3. Decodable(p) = SubSeq(p, 1, m)
  BY DEF Decodable, Good
<1> QED
  BY <1>2, <1>3

LEMMA ShownEmpty == Shown(<<>>) = <<>> /\ Visible(<<>>) = <<>>
<1>1. <<>> \in Seq(Unit) /\ Len(<<>>) = 0
  BY EmptySeq
<1>2. PICK m \in Good(<<>>) : Decodable(<<>>) = SubSeq(<<>>, 1, m)
  BY <1>1, DecodableIs
<1>3. m = 0
  BY <1>1 DEF Good
<1>4. SubSeq(<<>>, 1, 0) = <<>>
  BY <1>1, SubSeqEmpty
<1> QED
  BY <1>2, <1>3, <1>4, OmitEmpty DEF Shown, Visible

LEMMA ShownCorrupt ==
  ASSUME NEW p \in Seq(Unit), p # <<>>, Head(p) \in Corrupt
  PROVE  Shown(p) = <<>>
<1>1. PICK m \in Good(p) : Decodable(p) = SubSeq(p, 1, m)
  BY DecodableIs
<1>2. Head(p) = p[1]
  OBVIOUS
<1>3. m = 0
  BY <1>2 DEF Good
<1>4. SubSeq(p, 1, 0) = <<>>
  BY SubSeqEmpty
<1> QED
  BY <1>1, <1>3, <1>4, ShownEmpty, OmitEmpty DEF Shown, Visible

LEMMA VisibleConcat ==
  \A a, b \in Seq(Unit) : Visible(a \o b) = Visible(a) \o Visible(b)
<1> SUFFICES ASSUME NEW a \in Seq(Unit), NEW b \in Seq(Unit)
             PROVE  Omit(a \o b, Hidden) = Omit(a, Hidden) \o Omit(b, Hidden)
  BY DEF Visible
<1> QED
  BY OmitConcat

LEMMA ShownGood ==
  ASSUME NEW p \in Seq(Unit), p # <<>>, Head(p) \notin Corrupt
  PROVE  Shown(p) = Visible(<<Head(p)>>) \o Shown(Tail(p))
<1> DEFINE t == Tail(p)
<1>1. /\ p[1] = Head(p) /\ p[1] \in Unit /\ Len(p) \in Nat /\ Len(p) # 0
      /\ t \in Seq(Unit) /\ Len(t) = Len(p) - 1
      /\ \A i \in 1 .. Len(t) : t[i] = p[i + 1]
  BY HeadTailProperties, LenProperties, EmptySeq
<1> HIDE DEF t
<1>2. PICK m \in Good(p) : (\A k \in Good(p) : k <= m) /\ Decodable(p) = SubSeq(p, 1, m)
  BY DecodableIs
<1>3. PICK n \in Good(t) : (\A k \in Good(t) : k <= n) /\ Decodable(t) = SubSeq(t, 1, n)
  BY <1>1, DecodableIs
<1>4. m \in 0 .. Len(p) /\ n \in 0 .. Len(t)
  BY DEF Good
<1>5. n + 1 \in Good(p)
  <2>1. n + 1 \in 0 .. Len(p)
    BY <1>1, <1>4
  <2>2. ASSUME NEW i \in 1 .. n + 1 PROVE p[i] \notin Corrupt
    <3>1. CASE i = 1
      BY <1>1, <3>1
    <3>2. CASE i # 1
      <4>1. i - 1 \in 1 .. n /\ i - 1 \in 1 .. Len(t) /\ (i - 1) + 1 = i
        BY <1>4, <3>2
      <4>2. t[i - 1] \notin Corrupt /\ t[i - 1] = p[(i - 1) + 1]
        BY <1>1, <4>1 DEF Good
      <4> QED
        BY <4>1, <4>2
    <3> QED
      BY <3>1, <3>2
  <2> QED
    BY <2>1, <2>2 DEF Good
<1>6. m - 1 \in Good(t)
  <2>1. m >= 1
    BY <1>2, <1>4, <1>5
  <2>2. m - 1 \in 0 .. Len(t)
    BY <1>1, <1>4, <2>1
  <2>3. ASSUME NEW i \in 1 .. m - 1 PROVE t[i] \notin Corrupt
    <3>1. i \in 1 .. Len(t) /\ i + 1 \in 1 .. m
      BY <1>1, <1>4, <2>1
    <3>2. t[i] = p[i + 1] /\ p[i + 1] \notin Corrupt
      BY <1>1, <3>1 DEF Good
    <3> QED
      BY <3>2
  <2> QED
    BY <2>2, <2>3 DEF Good
<1>7. m = n + 1
  <2>1. n + 1 <= m /\ m - 1 <= n
    BY <1>2, <1>3, <1>5, <1>6
  <2> QED
    BY <1>4, <2>1
<1>8. Decodable(p) = <<Head(p)>> \o Decodable(t)
  <2>1. /\ SubSeq(p, 1, n + 1) \in Seq(Unit) /\ Len(SubSeq(p, 1, n + 1)) = n + 1
        /\ \A i \in 1 .. n + 1 : SubSeq(p, 1, n + 1)[i] = p[i]
    <3>1. \A i \in 1 .. n + 1 : p[i] \in Unit
      BY <1>1, <1>4, ElementOfSeq
    <3> QED
      BY <1>4, <3>1, SubSeqProperties
  <2>2. /\ SubSeq(t, 1, n) \in Seq(Unit) /\ Len(SubSeq(t, 1, n)) = n
        /\ \A i \in 1 .. n : SubSeq(t, 1, n)[i] = t[i]
    <3>1. \A i \in 1 .. n : t[i] \in Unit
      BY <1>1, <1>4, ElementOfSeq
    <3> QED
      BY <1>4, <3>1, SubSeqProperties
  <2> DEFINE a == SubSeq(p, 1, n + 1)
             b == SubSeq(t, 1, n)
             c == <<Head(p)>> \o b
  <2> HIDE DEF a, b
  <2>3. <<Head(p)>> \in Seq(Unit) /\ Len(<<Head(p)>>) = 1 /\ <<Head(p)>>[1] = Head(p)
    BY <1>1
  <2>4. /\ c \in Seq(Unit) /\ Len(c) = 1 + n
        /\ \A i \in 1 .. 1 + n : c[i] = IF i <= 1 THEN <<Head(p)>>[i] ELSE b[i - 1]
    BY <2>2, <2>3, ConcatProperties DEF b
  <2> HIDE DEF c
  <2>5. ASSUME NEW i \in 1 .. n + 1 PROVE a[i] = c[i]
    <3>1. CASE i = 1
      BY <1>1, <1>4, <2>1, <2>3, <2>4, <3>1 DEF a
    <3>2. CASE i # 1
      <4>1. i - 1 \in 1 .. n /\ i - 1 \in 1 .. Len(t) /\ (i - 1) + 1 = i /\ ~(i <= 1)
        BY <1>4, <3>2
      <4>2. c[i] = b[i - 1] /\ b[i - 1] = t[i - 1] /\ t[i - 1] = p[i]
        BY <1>1, <1>4, <2>2, <2>4, <4>1 DEF b
      <4> QED
        BY <2>1, <4>2 DEF a
    <3> QED
      BY <3>1, <3>2
  <2>6. a = c
    BY <1>4, <2>1, <2>4, <2>5, SeqEqual DEF a
  <2> QED
    BY <1>2, <1>3, <1>7, <2>6 DEF a, b, c
<1>9. Decodable(t) \in Seq(Unit) /\ <<Head(p)>> \in Seq(Unit)
  <2>1. \A i \in 1 .. n : t[i] \in Unit
    BY <1>1, <1>4, ElementOfSeq
  <2> QED
    BY <1>1, <1>3, <1>4, <2>1, SubSeqProperties
<1>10. Visible(<<Head(p)>> \o Decodable(t)) = Visible(<<Head(p)>>) \o Visible(Decodable(t))
  BY <1>9, VisibleConcat, Zenon
<1> QED
  BY <1>8, <1>10, Zenon DEF Shown, t

LEMMA ShownType ==
  /\ \A s \in Seq(Unit) : Visible(s) \in Seq(Unit)
  /\ \A p \in Seq(Unit) : Shown(p) \in Seq(Unit)
<1>1. \A s \in Seq(Unit) : Visible(s) \in Seq(Unit)
  BY OmitType DEF Visible
<1>2. ASSUME NEW p \in Seq(Unit) PROVE Decodable(p) \in Seq(Unit)
  <2>1. PICK m \in Good(p) : Decodable(p) = SubSeq(p, 1, m)
    BY DecodableIs
  <2>2. m \in 0 .. Len(p) /\ Len(p) \in Nat
    BY LenProperties DEF Good
  <2>3. \A i \in 1 .. m : p[i] \in Unit
    BY <2>2, ElementOfSeq
  <2> QED
    BY <2>1, <2>2, <2>3, SubSeqProperties
<1> QED
  BY <1>1, <1>2 DEF Shown
-----------------------------------------------------------------------------
(* The steps.                                                              *)

\* Every step of a program is a step of the decoder or leaves it alone.
LEMMA LoopDecodes == LoopTypes /\ [LoopNext]_allVars => [Next]_vars
<1> SUFFICES ASSUME LoopTypes, [LoopNext]_allVars PROVE [Next]_vars
  OBVIOUS
<1>1. CASE Send
  <2>1. at = "send"
    BY <1>1 DEF Send
  <2>2. PICK r \in Read : packet = <<r>> /\ packet[1].own
    BY <2>1 DEF LoopTypes
  <2>3. packet[1].data \in Packet
    BY <2>2 DEF Read
  <2> QED
    BY <1>1, <2>3 DEF Send, Next, Client
<1>2. CASE Flush \/ Receive \/ Decode
  BY <1>2 DEF Flush, Receive, Decode, Next, Client
<1>3. CASE ReadFrame \/ ReadFails \/ Unref \/ Sent \/ Flushed \/ Received \/ Stopped
  <2>1. UNCHANGED decVars
    BY <1>3 DEF ReadFrame, ReadFails, Unref, Sent, Flushed, Received, Stopped, allVars
  <2> QED
    BY <2>1 DEF decVars
<1>4. CASE UNCHANGED allVars
  BY <1>4 DEF allVars, decVars
<1> QED
  BY <1>1, <1>2, <1>3, <1>4 DEF LoopNext

LEMMA WaitingNone ==
  Waiting = <<>> <=> in_pkt = <<>> /\ bsf_pkt = <<>> /\ buffer_pkt = <<>>
BY DEF Waiting

\* The steps of the program that leave the decoder alone.
LEMMA ReadStep ==
  ASSUME LoopInv, ReadFrame \/ ReadFails \/ Unref \/ Sent \/ Flushed \/ Stopped
  PROVE  OneWaiting' /\ LoopTypes' /\ Places'
         /\ (nb_draining_errors' = 0 => Balance')
<1>0. /\ IInv /\ FrameInv /\ OneWaiting /\ LoopTypes /\ Places
      /\ nb_draining_errors = 0 => Balance
  BY DEF LoopInv, PipeInv
<1>1. UNCHANGED decVars
  BY DEF ReadFrame, ReadFails, Unref, Sent, Flushed, Stopped, allVars
<1>2. UNCHANGED vars /\ UNCHANGED <<out, expected>>
  BY <1>1 DEF decVars, ReadFrame, ReadFails, Unref, Sent, Flushed, Stopped, allVars, loopVars
<1>3. OneWaiting' /\ Waiting' = Waiting
  BY <1>0, <1>2 DEF OneWaiting, Waiting, vars
<1>4. Ready' = Ready
  BY <1>2 DEF Ready, Receiving, vars, ReadFrame, ReadFails, Unref, Sent, Flushed, Stopped, allVars, loopVars, Goto
<1>5. nb_draining_errors' = 0 => Balance'
  BY <1>0, <1>2, <1>3, <1>4 DEF Balance, vars
<1>6. LoopTypes'
  <2>1. CASE ReadFrame
    <3>1. Head(input) \in Read /\ Tail(input) \in Seq(Read)
      BY <1>0, <2>1, HeadTailProperties DEF ReadFrame, LoopTypes
    <3>2. packet' = <<Head(input)>> /\ packet'[1] = Head(input)
      BY <2>1 DEF ReadFrame
    <3>3. at' = "send" => Head(input).own
      BY <2>1 DEF ReadFrame, Goto
    <3>4. packet' # <<>>
      BY <3>2
    <3> QED
      BY <1>0, <1>2, <2>1, <3>1, <3>2, <3>3, <3>4 DEF ReadFrame, LoopTypes
  <2>2. CASE ~ReadFrame
    <3>1. input' = input /\ (packet' = packet \/ packet' = <<>>) /\ (at' = "send" => UNCHANGED <<at, packet>>)
      BY <2>2 DEF ReadFails, Unref, Sent, Flushed, Stopped, allVars, loopVars, Goto
    <3> QED
      BY <1>0, <1>2, <3>1 DEF LoopTypes
  <2> QED
    BY <2>1, <2>2
<1>7. Places'
  <2> USE <1>0, <1>2, <1>3 DEF Places, Reading, Sending, Ending, Receiving, Idle, Goto, vars
  <2>1. CASE ReadFrame
    BY <2>1 DEF ReadFrame
  <2>2. CASE ReadFails
    BY <2>2 DEF ReadFails
  <2>3. CASE Unref
    BY <2>3 DEF Unref
  <2>4. CASE Sent
    BY <2>4 DEF Sent
  <2>5. CASE Flushed
    BY <2>5 DEF Flushed
  <2>6. CASE Stopped
    BY <2>6 DEF Stopped, allVars, loopVars
  <2> QED
    BY <2>1, <2>2, <2>3, <2>4, <2>5, <2>6
<1> QED
  BY <1>3, <1>5, <1>6, <1>7

LEMMA LoopParts ==
  ASSUME LoopInv
  PROVE  /\ IInv /\ FrameInv /\ OneWaiting /\ LoopTypes /\ Places
         /\ nb_draining_errors = 0 => Balance
         /\ out \in Seq(Unit) /\ expected \in Seq(Unit) /\ Ready \in Seq(Unit)
         /\ codec \in Seq(Unit) /\ in_pkt \in Seq(Unit) /\ bsf_pkt \in Seq(Unit)
         /\ buffer_pkt \in Seq(Unit) /\ Waiting \in Seq(Unit)
         /\ frame \in Seq(Unit) /\ buffer_frame \in Seq(Unit)
         /\ Visible(codec) \in Seq(Unit) /\ Shown(Waiting) \in Seq(Unit)
<1>1. /\ IInv /\ FrameInv /\ OneWaiting /\ LoopTypes /\ Places
      /\ nb_draining_errors = 0 => Balance
  BY DEF LoopInv, PipeInv
<1>2. /\ codec \in Seq(Unit) /\ in_pkt \in Seq(Unit) /\ bsf_pkt \in Seq(Unit)
      /\ buffer_pkt \in Seq(Unit) /\ frame \in Seq(Unit) /\ buffer_frame \in Seq(Unit)
  BY <1>1 DEF IInv, TypeOK
<1>3. out \in Seq(Unit) /\ expected \in Seq(Unit)
  BY <1>1 DEF LoopTypes
<1>4. Ready \in Seq(Unit) /\ Waiting \in Seq(Unit)
  BY <1>2 DEF Ready, Waiting
<1> QED
  BY <1>1, <1>2, <1>3, <1>4, ShownType

\* The frame received is written.
LEMMA ReceivedStep ==
  ASSUME LoopInv, Received
  PROVE  OneWaiting' /\ LoopTypes' /\ Places'
         /\ (nb_draining_errors' = 0 => Balance')
<1>0. /\ IInv /\ OneWaiting /\ LoopTypes /\ Places
      /\ nb_draining_errors = 0 => Balance
      /\ out \in Seq(Unit) /\ frame \in Seq(Unit)
  BY LoopParts
<1>1. /\ UNCHANGED vars /\ UNCHANGED <<program, input, packet, expected>>
      /\ Receiving /\ Idle /\ buffer_frame = <<>> /\ at' \notin {"read", "send"}
  BY <1>0 DEF Received, decVars, Places, Receiving, Goto
<1>2. OneWaiting' /\ Waiting' = Waiting
  BY <1>0, <1>1 DEF OneWaiting, Waiting, vars
<1>3. Ready = frame /\ Ready' = <<>>
  BY <1>0, <1>1 DEF Ready, Receiving, Received, Goto, vars
<1>4. out' = out \o frame
  <2>1. result.ret # "OK" => frame = <<>>
    BY <1>0, <1>1 DEF Places
  <2> QED
    BY <1>0, <2>1, HeldSeqs DEF Received
<1>5. out' \in Seq(Unit) /\ out' \o <<>> = out'
  BY <1>0, <1>4, HeldSeqs
<1>6. nb_draining_errors' = 0 => Balance'
  <2>1. out' \o Ready' = out \o Ready
    BY <1>3, <1>4, <1>5
  <2>2. UNCHANGED <<codec, nb_draining_errors, expected>>
    BY <1>1 DEF vars
  <2> QED
    BY <1>0, <1>2, <2>1, <2>2 DEF Balance
<1>7. LoopTypes'
  BY <1>0, <1>1, <1>5 DEF LoopTypes
<1>8. Places'
  BY <1>0, <1>1, <1>2, WaitingNone
  DEF Places, Reading, Sending, Ending, Receiving, Idle, Goto, vars, Received, Waiting
<1> QED
  BY <1>2, <1>6, <1>7, <1>8

\* The packet read is sent: the decoder is empty and takes it.
LEMMA SendStep ==
  ASSUME LoopInv, Send, PipeInv'
  PROVE  OneWaiting' /\ LoopTypes' /\ Places'
         /\ (nb_draining_errors' = 0 => Balance')
<1>0. /\ IInv /\ OneWaiting /\ LoopTypes /\ Places
      /\ nb_draining_errors = 0 => Balance
      /\ out \in Seq(Unit) /\ Ready \in Seq(Unit) /\ expected \in Seq(Unit)
      /\ Visible(codec) \in Seq(Unit)
  BY LoopParts
<1>1. /\ at = "send" /\ at' = "sent" /\ UNCHANGED <<program, input, packet, out>>
      /\ Idle /\ ~draining_started /\ buffer_frame = <<>>
      /\ in_pkt = <<>> /\ bsf_pkt = <<>> /\ buffer_pkt = <<>>
  BY <1>0, WaitingNone DEF Send, Goto, Places, Reading, Ending, Sending
<1>2. PICK r \in Read : packet = <<r>> /\ r.own
  BY <1>0, <1>1 DEF LoopTypes
<1> DEFINE p == packet[1].data
<1>3. p \in Packet /\ p \in Seq(Unit) /\ p # <<>>
  BY <1>2, PacketAssumption DEF Read
<1> HIDE DEF p
<1>4. SendPacket(p) /\ expected' = expected \o Shown(p)
  BY <1>1 DEF Send, SendRefused, Shown, p
<1>5. /\ buffer_pkt' = p /\ UNCHANGED <<bsf_pkt, in_pkt, codec, buffer_frame, frame>>
      /\ pc' = "simple" /\ call' = "send" /\ UNCHANGED result
      /\ UNCHANGED <<draining_started, nb_draining_errors>>
  BY <1>1, <1>4 DEF SendPacket, Enter, frames, drain
<1>6. OneWaiting' /\ Waiting = <<>> /\ Waiting' = p
  BY <1>1, <1>5 DEF OneWaiting, Waiting
<1>7. Ready' = Ready
  BY <1>1, <1>5 DEF Ready, Receiving
<1>8. nb_draining_errors' = 0 => Balance'
  <2> SUFFICES ASSUME nb_draining_errors' = 0 PROVE Balance'
    OBVIOUS
  <2>1. Balance
    BY <1>0, <1>5
  <2> DEFINE a == out \o Ready
             v == Visible(codec)
  <2>2. a \in Seq(Unit) /\ v \in Seq(Unit) /\ Shown(p) \in Seq(Unit)
    BY <1>0, <1>3, HeldSeqs, ShownType
  <2>3. expected = a \o (v \o <<>>)
    BY <1>6, <2>1, ShownEmpty DEF Balance
  <2>4. out' \o Ready' = a /\ Visible(codec)' = v /\ Shown(Waiting)' = Shown(p)
    BY <1>1, <1>5, <1>6, <1>7 DEF Visible
  <2> HIDE DEF a, v
  <2>5. v \o <<>> = v /\ (a \o v) \o Shown(p) = a \o (v \o Shown(p))
    BY <2>2, HeldSeqs
  <2> QED
    BY <1>4, <2>3, <2>4, <2>5 DEF Balance
<1>9. LoopTypes'
  BY <1>0, <1>1, <1>3, <1>4, HeldSeqs, ShownType DEF LoopTypes
<1>10. Places'
  BY <1>0, <1>1, <1>5 DEF Places, Reading, Sending, Ending, Receiving, Idle
<1> QED
  BY <1>6, <1>8, <1>9, <1>10

\* The end of the input is sent.
LEMMA FlushStep ==
  ASSUME LoopInv, Flush
  PROVE  OneWaiting' /\ LoopTypes' /\ Places'
         /\ (nb_draining_errors' = 0 => Balance')
<1>0. /\ IInv /\ OneWaiting /\ LoopTypes /\ Places
      /\ nb_draining_errors = 0 => Balance
  BY LoopParts
<1>1. /\ at = "flush" /\ at' = "flushed" /\ UNCHANGED <<program, input, packet, out, expected>>
      /\ Idle /\ ~draining_started /\ buffer_frame = <<>>
      /\ in_pkt = <<>> /\ bsf_pkt = <<>> /\ buffer_pkt = <<>>
  BY <1>0, WaitingNone DEF Flush, Goto, Places, Reading, Ending, Sending
<1>2. SendNull
  BY <1>1 DEF Flush, SendRefused
<1>3. /\ UNCHANGED <<buffer_pkt, bsf_pkt, in_pkt, codec, buffer_frame, frame>>
      /\ UNCHANGED <<pc, call, nb_draining_errors>>
      /\ draining_started' = TRUE /\ result' = [of |-> "send", ret |-> "OK"]
  BY <1>2 DEF SendNull, Answer, packets, frames
<1>4. OneWaiting' /\ Waiting' = Waiting /\ Ready' = Ready
  BY <1>0, <1>1, <1>3 DEF OneWaiting, Waiting, Ready, Receiving
<1>5. nb_draining_errors' = 0 => Balance'
  BY <1>0, <1>1, <1>3, <1>4 DEF Balance
<1>6. LoopTypes'
  BY <1>0, <1>1 DEF LoopTypes
<1>7. Places'
  BY <1>0, <1>1, <1>3, <1>4 DEF Places, Reading, Sending, Ending, Receiving, Idle
<1> QED
  BY <1>4, <1>5, <1>6, <1>7

\* A frame is asked for: one that waits is taken.
LEMMA ReceiveStep ==
  ASSUME LoopInv, Receive
  PROVE  OneWaiting' /\ LoopTypes' /\ Places'
         /\ (nb_draining_errors' = 0 => Balance')
<1>0. /\ IInv /\ OneWaiting /\ LoopTypes /\ Places
      /\ nb_draining_errors = 0 => Balance
  BY LoopParts
<1>1. /\ UNCHANGED <<program, input, packet, out, expected>>
      /\ \/ at = "receive" /\ at' = "received" /\ Waiting = in_pkt
         \/ at = "drain" /\ at' = "drained" /\ Waiting = <<>>
      /\ Idle
  BY <1>0 DEF Receive, Goto, Places, Reading, Ending, Sending
<1>2. ReceiveFrame
  BY DEF Receive
<1>3. /\ UNCHANGED <<buffer_pkt, bsf_pkt, in_pkt, codec, draining_started, nb_draining_errors>>
      /\ frame' = buffer_frame /\ buffer_frame' = <<>>
      /\ IF buffer_frame # <<>>
           THEN pc' = pc /\ result' = [of |-> "receive", ret |-> "OK"]
           ELSE pc' = "simple" /\ call' = "receive"
  BY <1>2 DEF ReceiveFrame, Answer, Enter, packets, drain
<1>4. OneWaiting' /\ Waiting' = Waiting
  BY <1>0, <1>3 DEF OneWaiting, Waiting
<1>5. Ready' = Ready
  BY <1>1, <1>3 DEF Ready, Receiving
<1>6. nb_draining_errors' = 0 => Balance'
  BY <1>0, <1>1, <1>3, <1>4, <1>5 DEF Balance
<1>7. LoopTypes'
  BY <1>0, <1>1 DEF LoopTypes
<1>8. Places'
  BY <1>0, <1>1, <1>3, <1>4 DEF Places, Reading, Sending, Ending, Receiving, Idle
<1> QED
  BY <1>4, <1>6, <1>7, <1>8

-----------------------------------------------------------------------------
(* The steps of the decoder while a program waits for it.                  *)

\* Which call runs, and what it can find.
LEMMA Running ==
  ASSUME LoopInv, pc # "idle"
  PROVE  /\ buffer_frame = <<>> /\ Ready = <<>> /\ at \notin {"read", "send"}
         /\ \/ at = "sent" /\ call = "send" /\ ~draining_started
            \/ at = "received" /\ call = "receive" /\ ~draining_started
               /\ frame = <<>> /\ Waiting = in_pkt
            \/ at = "drained" /\ call = "receive" /\ draining_started
               /\ frame = <<>> /\ Waiting = <<>>
         /\ draining => draining_started /\ Waiting = <<>>
<1>1. IInv /\ FrameInv /\ Places
  BY LoopParts
<1>2. buffer_frame = <<>> /\ at \in {"sent", "received", "drained"}
  BY <1>1 DEF IInv, CallShape, Places, Idle
<1>3. \/ at = "sent" /\ call = "send" /\ ~draining_started
      \/ at = "received" /\ call = "receive" /\ ~draining_started
         /\ frame = <<>> /\ Waiting = in_pkt
      \/ at = "drained" /\ call = "receive" /\ draining_started
         /\ frame = <<>> /\ Waiting = <<>>
  BY <1>1, <1>2 DEF Places, Idle, Ending, Receiving, FrameInv
<1>4. draining => draining_started
  BY <1>1 DEF IInv, DrainOrder
<1> QED
  BY <1>2, <1>3, <1>4 DEF Ready, Receiving

\* The call goes on.
LEMMA GoesOn ==
  ASSUME LoopInv, pc # "idle", pc' # "idle", UNCHANGED loopVars,
         UNCHANGED <<buffer_frame, frame, call, result, draining_started, nb_draining_errors>>,
         at = "received" => Waiting' = in_pkt',
         at = "drained" => Waiting' = <<>>
  PROVE  Places' /\ LoopTypes' /\ Ready' = <<>>
<1>1. Places /\ LoopTypes
  BY LoopParts
<1>2. LoopTypes'
  BY <1>1 DEF LoopTypes, loopVars
<1>3. Ready' = <<>>
  BY Running DEF Ready, Receiving, loopVars
<1>4. Places'
  BY <1>1, Running DEF Places, Reading, Sending, Ending, Receiving, Idle, loopVars
<1> QED
  BY <1>2, <1>3, <1>4

\* The call ends.
LEMMA EndsWith ==
  ASSUME LoopInv, pc # "idle", UNCHANGED loopVars, NEW f, NEW ret, Return(ret, f),
         UNCHANGED draining_started,
         Waiting' = IF at = "drained" THEN <<>> ELSE in_pkt',
         ret # "OK" => f = <<>> /\ Waiting' = <<>>,
         at = "sent" => ret \in {"OK", "EAGAIN", "ERR"},
         at = "drained" /\ ret # "OK" => codec' = <<>> \/ nb_draining_errors' # 0,
         nb_draining_errors' # 0 => draining_started
  PROVE  Places' /\ LoopTypes' /\ Ready' = f
<1>1. Places /\ LoopTypes
  BY LoopParts
<1>2. LoopTypes'
  BY <1>1 DEF LoopTypes, loopVars
<1>3. /\ pc' = "idle" /\ at' = at
      /\ \/ /\ at = "sent" /\ buffer_frame' = f
            /\ result' = [of |-> "send",
                          ret |-> IF ret \in {"EAGAIN", "EOF"} THEN "OK" ELSE ret]
         \/ /\ at \in {"received", "drained"} /\ buffer_frame' = <<>> /\ frame' = f
            /\ result' = [of |-> "receive", ret |-> ret]
  BY Running DEF Return, loopVars
<1>4. Ready' = f
  BY <1>3 DEF Ready, Receiving
<1>5. Places'
  <2>1. CASE at = "sent"
    BY <1>1, <1>3, <2>1, Running DEF Places, Reading, Sending, Ending, Receiving, Idle
  <2>2. CASE at = "received"
    BY <1>1, <1>3, <2>2, Running, WaitingNone DEF Places, Reading, Sending, Ending, Receiving, Idle, Waiting
  <2>3. CASE at = "drained"
    BY <1>1, <1>3, <2>3, Running DEF Places, Reading, Sending, Ending, Receiving, Idle
  <2> QED
    BY <2>1, <2>2, <2>3, Running
<1> QED
  BY <1>2, <1>4, <1>5

\* Packets move towards the codec.
LEMMA FetchStep ==
  ASSUME LoopInv, UNCHANGED loopVars,
         SimpleStart \/ FetchEof \/ FetchPacket \/ FetchFeed \/ FetchNothing \/ DrainEnd
  PROVE  OneWaiting' /\ LoopTypes' /\ Places'
         /\ (nb_draining_errors' = 0 => Balance')
<1>0. /\ IInv /\ OneWaiting /\ Places
      /\ nb_draining_errors = 0 => Balance
  BY LoopParts
<1>1. /\ pc # "idle" /\ UNCHANGED <<codec, draining_started, nb_draining_errors>>
      /\ UNCHANGED <<out, expected, at>>
  BY DEF SimpleStart, FetchEof, FetchPacket, FetchFeed, FetchNothing, DrainEnd,
         frames, drain, loopVars
<1>2. /\ OneWaiting' /\ Waiting' = Waiting
      /\ at = "received" => Waiting' = in_pkt'
      /\ at = "drained" => Waiting' = <<>>
  <2>0. at = "received" => Waiting = in_pkt
    BY <1>1, Running
  <2>00. at = "drained" => Waiting = <<>>
    BY <1>1, Running
  <2> USE DEF OneWaiting, Waiting, packets
  <2>1. CASE FetchPacket
    BY <1>0, <2>0, <2>00, <2>1 DEF FetchPacket, IInv, CallShape
  <2>2. CASE FetchFeed
    BY <1>0, <2>0, <2>00, <2>2 DEF FetchFeed, IInv, CallShape
  <2>3. CASE SimpleStart \/ FetchEof \/ FetchNothing \/ DrainEnd
    <3>1. UNCHANGED packets
      BY <2>3 DEF SimpleStart, FetchEof, FetchNothing, DrainEnd
    <3> QED
      BY <1>0, <2>0, <2>00, <3>1
  <2> QED
    BY <2>1, <2>2, <2>3
<1>3. Places' /\ LoopTypes' /\ Ready' = <<>>
  <2>1. CASE FetchNothing
    <3>1. /\ Return("EAGAIN", <<>>) /\ ~draining_started
          /\ in_pkt = <<>> /\ bsf_pkt = <<>> /\ buffer_pkt = <<>> /\ in_pkt' = in_pkt
      BY <1>0, <2>1 DEF FetchNothing, IInv, CallShape, packets
    <3>2. at # "drained" /\ Waiting' = <<>>
      BY <1>1, <1>2, <3>1, Running, WaitingNone
    <3>3. nb_draining_errors = 0
      BY <1>0, <3>1 DEF Places
    <3> QED
      BY <1>1, <3>1, <3>2, <3>3, EndsWith
  <2>2. CASE ~FetchNothing
    <3>1. pc' # "idle" /\ UNCHANGED <<buffer_frame, frame, call, result>>
      BY <1>1, <2>2 DEF SimpleStart, FetchEof, FetchPacket, FetchFeed, DrainEnd, frames
    <3> QED
      BY <1>1, <1>2, <3>1, GoesOn
  <2> QED
    BY <2>1, <2>2
<1>4. nb_draining_errors' = 0 => Balance'
  <2>1. Ready = <<>>
    BY <1>1, Running
  <2> QED
    BY <1>0, <1>1, <1>2, <1>3, <2>1 DEF Balance, Visible
<1> QED
  BY <1>2, <1>3, <1>4

\* Four sequences may be put together from either end.
Cat(s, t) == s \o t

LEMMA Regroup ==
  \A a, b, c, d \in Seq(Unit) : Cat(Cat(a, b), Cat(c, d)) = Cat(a, Cat(Cat(b, c), d))
<1>1. \A a, b \in Seq(Unit) : Cat(a, b) \in Seq(Unit)
  BY HeldSeqs DEF Cat
<1>2. \A a, b, c \in Seq(Unit) : Cat(Cat(a, b), c) = Cat(a, Cat(b, c))
  BY HeldSeqs, Zenon DEF Cat
<1> QED
  BY <1>1, <1>2

\* What the oldest of the held frames adds moves from the codec's end to the
\* output's.
LEMMA OldestMoves ==
  \A a, b, o, w \in Seq(Unit) :
    (o \o Visible(a)) \o (Visible(b) \o w) = o \o (Visible(a \o b) \o w)
<1> SUFFICES ASSUME NEW a \in Seq(Unit), NEW b \in Seq(Unit), NEW o \in Seq(Unit), NEW w \in Seq(Unit)
             PROVE  (o \o Visible(a)) \o (Visible(b) \o w) = o \o (Visible(a \o b) \o w)
  OBVIOUS
<1>1. Visible(a \o b) = Visible(a) \o Visible(b)
  BY VisibleConcat, Zenon
<1>2. Visible(a) \in Seq(Unit) /\ Visible(b) \in Seq(Unit)
  BY ShownType
<1>3. (o \o Visible(a)) \o (Visible(b) \o w) = o \o ((Visible(a) \o Visible(b)) \o w)
  <2>1. Cat(Cat(o, Visible(a)), Cat(Visible(b), w)) = Cat(o, Cat(Cat(Visible(a), Visible(b)), w))
    BY <1>2, Regroup
  <2> QED
    BY <2>1, Zenon DEF Cat
<1> QED
  BY <1>1, <1>3, Zenon

\* The codec gives up the oldest of the frames it held.
LEMMA OutputStep ==
  ASSUME LoopInv, pc # "idle", UNCHANGED loopVars,
         NEW held \in Seq(Unit), held # <<>>, Output(held),
         UNCHANGED <<draining_started, nb_draining_errors, bsf_pkt, buffer_pkt>>,
         bsf_pkt = <<>>, buffer_pkt = <<>>, in_pkt' \in Seq(Unit),
         at = "drained" => in_pkt' = <<>>,
         nb_draining_errors = 0 => expected = out \o (Visible(held) \o Shown(in_pkt'))
  PROVE  OneWaiting' /\ LoopTypes' /\ Places'
         /\ (nb_draining_errors' = 0 => Balance')
<1>1. OneWaiting' /\ Waiting' = in_pkt'
  BY DEF OneWaiting, Waiting
<1>2. PICK u \in Unit : u = Head(held)
  BY UnitSeqs
<1> DEFINE t == Tail(held)
           one == Visible(<<u>>)
<1>3. held = <<u>> \o t /\ t \in Seq(Unit) /\ <<u>> \in Seq(Unit) /\ codec' = t
  BY <1>2, Uncons, UnitSeqs DEF Output
<1>4. one = IF u \in Hidden THEN <<>> ELSE <<u>>
  <2>1. Omit(<<u>>, Hidden) = IF u \in Hidden THEN <<>> ELSE <<u>>
    BY OmitOne, Zenon
  <2> QED
    BY <2>1 DEF Visible
<1>5. Places' /\ LoopTypes' /\ Ready' = one
  <2>1. CASE u \in Hidden
    <3>1. pc' # "idle" /\ UNCHANGED <<buffer_frame, frame, call, result>>
      BY <1>2, <2>1 DEF Output
    <3> QED
      BY <1>1, <1>4, <2>1, <3>1, GoesOn
  <2>2. CASE u \notin Hidden
    <3>1. Return("OK", <<u>>)
      BY <1>2, <2>2 DEF Output
    <3>2. nb_draining_errors' # 0 => draining_started
      BY LoopParts DEF Places
    <3>3. Waiting' = IF at = "drained" THEN <<>> ELSE in_pkt'
      BY <1>1
    <3>4. Places' /\ LoopTypes' /\ Ready' = <<u>>
      BY <3>1, <3>2, <3>3, EndsWith
    <3> QED
      BY <1>4, <2>2, <3>4
  <2> QED
    BY <2>1, <2>2
<1>6. nb_draining_errors' = 0 => Balance'
  <2> SUFFICES ASSUME nb_draining_errors' = 0 PROVE Balance'
    OBVIOUS
  <2>1. Visible(codec)' = Visible(t) /\ Shown(Waiting)' = Shown(in_pkt') /\ Ready' = one
        /\ UNCHANGED <<out, expected>>
    BY <1>1, <1>3, <1>5 DEF Visible, Shown, Decodable, loopVars
  <2>2. out \in Seq(Unit) /\ Shown(in_pkt') \in Seq(Unit)
    BY ShownType, LoopParts
  <2>3. (out \o Visible(<<u>>)) \o (Visible(t) \o Shown(in_pkt'))
         = out \o (Visible(<<u>> \o t) \o Shown(in_pkt'))
    <3> DEFINE Moves(p, q, o, w) ==
                 (o \o Visible(p)) \o (Visible(q) \o w) = o \o (Visible(p \o q) \o w)
    <3>1. \A p, q, o, w \in Seq(Unit) : Moves(p, q, o, w)
      BY OldestMoves, Zenon
    <3> HIDE DEF Moves
    <3>2. Moves(<<u>>, t, out, Shown(in_pkt'))
      BY <1>3, <2>2, <3>1
    <3> QED
      BY <3>2, Zenon DEF Moves
  <2> QED
    BY <1>3, <2>1, <2>3 DEF Balance
<1> QED
  BY <1>1, <1>5, <1>6

\* The codec reads the packet, or is drained.
LEMMA DecodeStep ==
  ASSUME LoopInv, UNCHANGED loopVars,
         DecodeEof \/ DecodeUnit \/ DecodeError \/ DrainFrame \/ DrainError
  PROVE  OneWaiting' /\ LoopTypes' /\ Places'
         /\ (nb_draining_errors' = 0 => Balance')
<1>0. /\ IInv /\ OneWaiting /\ Places /\ Ready = <<>> /\ Ready \in Seq(Unit)
      /\ nb_draining_errors = 0 => Balance
      /\ codec \in Seq(Unit) /\ in_pkt \in Seq(Unit) /\ out \in Seq(Unit)
      /\ Visible(codec) \in Seq(Unit)
  <2>1. pc # "idle"
    BY DEF DecodeEof, DecodeUnit, DecodeError, DrainFrame, DrainError
  <2> QED
    BY <2>1, LoopParts, Running
<1>1. /\ pc = "decode" /\ bsf_pkt = <<>> /\ UNCHANGED <<out, expected, at>>
      /\ UNCHANGED <<bsf_pkt, buffer_pkt, draining_started>>
  BY <1>0 DEF DecodeEof, DecodeUnit, DecodeError, DrainFrame, DrainError, packets, drain,
         loopVars, IInv, CallShape
<1>2. /\ in_pkt = <<>> \/ draining_done => at = "drained" /\ Waiting = <<>>
      /\ at = "drained" => Waiting = <<>> /\ in_pkt = <<>>
      /\ nb_draining_errors # 0 => draining_started
      /\ at # "sent" => buffer_pkt = <<>>
  <2>1. in_pkt = <<>> \/ draining_done => draining
    BY <1>0, <1>1 DEF IInv, DrainOrder
  <2>2. at = "received" => Waiting = in_pkt
    BY <1>1, Running
  <2>3. at = "drained" => Waiting = <<>>
    BY <1>1, Running
  <2>4. (draining => at = "drained") /\ at \in {"sent", "received", "drained"}
    BY <1>1, Running
  <2> QED
    BY <1>0, <2>1, <2>2, <2>3, <2>4, WaitingNone DEF Places, OneWaiting, Waiting
<1>3. buffer_pkt = <<>> /\ Waiting = in_pkt
  BY <1>0, <1>1, <1>2, WaitingNone DEF OneWaiting, Waiting
<1>4. Balance => expected = out \o (Visible(codec) \o Shown(in_pkt))
  BY <1>0, <1>3, HeldSeqs DEF Balance
<1>5. CASE DecodeEof
  <2>1. Return("EOF", <<>>) /\ UNCHANGED <<in_pkt, codec, nb_draining_errors>>
    BY <1>5 DEF DecodeEof, packets
  <2>2. at = "drained" /\ in_pkt = <<>>
    BY <1>2, <1>5 DEF DecodeEof, Exhausted
  <2>3. codec = <<>> \/ nb_draining_errors # 0
    BY <1>0, <1>5, NbErrorsAssumption
    DEF DecodeEof, Exhausted, IInv, TypeOK, DrainOrder, CutOff, CallShape
  <2>4. OneWaiting' /\ Waiting' = <<>>
    BY <1>1, <1>3, <2>1, <2>2 DEF OneWaiting, Waiting
  <2>5. Places' /\ LoopTypes' /\ Ready' = <<>>
    BY <1>1, <1>2, <2>1, <2>2, <2>3, <2>4, EndsWith
  <2>6. nb_draining_errors' = 0 => Balance'
    BY <1>0, <1>1, <1>3, <2>1, <2>2, <2>4, <2>5 DEF Balance
  <2> QED
    BY <2>4, <2>5, <2>6
<1>6. CASE DecodeUnit
  <2> DEFINE u == Head(in_pkt)
             t == Tail(in_pkt)
             held == Append(codec, u)
  <2>1. /\ in_pkt # <<>> /\ u \notin Corrupt /\ u \in Unit /\ t \in Seq(Unit) /\ in_pkt' = t
        /\ held \in Seq(Unit) /\ held # <<>> /\ <<u>> \in Seq(Unit)
        /\ held = codec \o <<u>>
    BY <1>0, <1>6, UnitSeqs, AppendIsConcat DEF DecodeUnit
  <2>2. /\ at # "drained" /\ UNCHANGED <<nb_draining_errors>>
    BY <1>2, <1>6, <2>1 DEF DecodeUnit, drain
  <2>3. Visible(codec) \o Shown(in_pkt) = Visible(held) \o Shown(t)
    <3> DEFINE v == Visible(codec)
               one == Visible(<<u>>)
               w == Shown(t)
    <3>1. v \in Seq(Unit) /\ one \in Seq(Unit) /\ w \in Seq(Unit)
      BY <1>0, <2>1, ShownType
    <3>2. Shown(in_pkt) = one \o w
      BY <1>0, <2>1, ShownGood
    <3>3. Visible(held) = v \o one
      BY <1>0, <2>1, VisibleConcat, Zenon
    <3> HIDE DEF v, one, w
    <3>4. v \o (one \o w) = (v \o one) \o w
      BY <3>1, HeldSeqs
    <3> QED
      BY <3>2, <3>3, <3>4 DEF v, w
  <2> HIDE DEF u, t, held
  <2>4. nb_draining_errors = 0 => expected = out \o (Visible(held) \o Shown(in_pkt'))
    BY <1>0, <1>4, <2>1, <2>3
  <2>5. CASE Len(held) > CodecDelay
    <3>1. Output(held)
      BY <1>6, <2>5 DEF DecodeUnit, held, u
    <3> QED
      BY <1>1, <1>3, <2>1, <2>2, <2>4, <3>1, OutputStep
  <2>6. CASE ~(Len(held) > CodecDelay)
    <3>1. codec' = held /\ pc' # "idle" /\ UNCHANGED <<buffer_frame, frame, call, result>>
      BY <1>6, <2>6 DEF DecodeUnit, held, u
    <3>2. OneWaiting' /\ Waiting' = in_pkt'
      BY <1>1, <1>3 DEF OneWaiting, Waiting
    <3>3. Places' /\ LoopTypes' /\ Ready' = <<>>
      BY <1>1, <2>2, <3>1, <3>2, GoesOn
    <3>4. nb_draining_errors' = 0 => Balance'
      <4>1. Visible(codec)' = Visible(held) /\ Shown(Waiting)' = Shown(in_pkt')
        BY <3>1, <3>2 DEF Visible, Shown, Decodable
      <4>2. out \o Ready' = out
        BY <1>0, <3>3, ConcatEmptySeq
      <4> QED
        BY <1>1, <2>2, <2>4, <4>1, <4>2 DEF Balance
    <3> QED
      BY <3>2, <3>3, <3>4
  <2> QED
    BY <2>5, <2>6
<1>7. CASE DecodeError
  <2>1. /\ Return("ERR", <<>>) /\ UNCHANGED <<codec, nb_draining_errors>>
        /\ in_pkt' = <<>> /\ in_pkt # <<>> /\ Head(in_pkt) \in Corrupt
    BY <1>7 DEF DecodeError, drain
  <2>2. at # "drained"
    BY <1>2, <2>1
  <2>3. OneWaiting' /\ Waiting' = <<>>
    BY <1>1, <1>3, <2>1 DEF OneWaiting, Waiting
  <2>4. Places' /\ LoopTypes' /\ Ready' = <<>>
    BY <1>1, <1>2, <2>1, <2>2, <2>3, EndsWith
  <2>5. Shown(in_pkt) = <<>> /\ Shown(<<>>) = <<>>
    BY <1>0, <2>1, ShownCorrupt, ShownEmpty
  <2>6. nb_draining_errors' = 0 => Balance'
    BY <1>0, <1>1, <1>3, <2>1, <2>3, <2>4, <2>5 DEF Balance, Visible
  <2> QED
    BY <2>3, <2>4, <2>6
<1>8. CASE DrainFrame
  <2>1. /\ in_pkt = <<>> /\ in_pkt' = <<>> /\ codec # <<>> /\ Output(codec)
        /\ UNCHANGED nb_draining_errors
    BY <1>8 DEF DrainFrame, packets, drain
  <2>2. nb_draining_errors = 0 => expected = out \o (Visible(codec) \o Shown(in_pkt'))
    BY <1>0, <1>4, <2>1
  <2> QED
    BY <1>0, <1>1, <1>3, <2>1, <2>2, EmptySeq, OutputStep
<1>9. CASE DrainError
  <2>1. /\ in_pkt = <<>> /\ in_pkt' = <<>> /\ nb_draining_errors' = nb_draining_errors + 1
        /\ nb_draining_errors \in Nat
    BY <1>0, <1>9 DEF DrainError, packets, IInv, TypeOK
  <2>2. PICK ret \in {"BUG", "ERR"} : Return(ret, <<>>)
    BY <1>9 DEF DrainError
  <2>3. at = "drained" /\ nb_draining_errors' # 0 /\ draining_started
    BY <1>1, <1>2, <2>1, Running
  <2>4. OneWaiting' /\ Waiting' = <<>>
    BY <1>1, <1>3, <2>1 DEF OneWaiting, Waiting
  <2>5. Places' /\ LoopTypes' /\ Ready' = <<>>
    BY <1>1, <2>2, <2>3, <2>4, EndsWith
  <2> QED
    BY <2>3, <2>4, <2>5
<1> QED
  BY <1>5, <1>6, <1>7, <1>8, <1>9

-----------------------------------------------------------------------------
LEMMA LoopStep == LoopInv /\ [LoopNext]_allVars => LoopInv'
<1> SUFFICES ASSUME LoopInv, [LoopNext]_allVars PROVE LoopInv'
  OBVIOUS
<1>1. IInv /\ FrameInv /\ LoopTypes /\ OneWaiting /\ Places
      /\ (nb_draining_errors = 0 => Balance)
  BY LoopParts
<1>2. PipeInv'
  BY <1>1, LoopDecodes, IInvStep, FrameInvStep DEF PipeInv
<1>3. CASE ReadFrame \/ ReadFails \/ Unref \/ Sent \/ Flushed \/ Stopped
  BY <1>2, <1>3, ReadStep DEF LoopInv
<1>4. CASE Send
  BY <1>2, <1>4, SendStep DEF LoopInv
<1>5. CASE Flush
  BY <1>2, <1>5, FlushStep DEF LoopInv
<1>6. CASE Receive
  BY <1>2, <1>6, ReceiveStep DEF LoopInv
<1>7. CASE Received
  BY <1>2, <1>7, ReceivedStep DEF LoopInv
<1>8. CASE Decode
  <2>1. UNCHANGED loopVars
    BY <1>8 DEF Decode
  <2>2. CASE SimpleStart \/ FetchEof \/ FetchPacket \/ FetchFeed \/ FetchNothing \/ DrainEnd
    BY <1>2, <2>1, <2>2, FetchStep DEF LoopInv
  <2>3. CASE DecodeEof \/ DecodeUnit \/ DecodeError \/ DrainFrame \/ DrainError
    BY <1>2, <2>1, <2>3, DecodeStep DEF LoopInv
  <2> QED
    BY <1>8, <2>2, <2>3 DEF Decode, Library
<1>9. CASE UNCHANGED allVars
  <2>1. UNCHANGED vars /\ UNCHANGED loopVars
    BY <1>9 DEF allVars, decVars
  <2> QED
    BY ZenonT(40), <1>1, <1>2, <2>1 DEF LoopInv, vars, loopVars, OneWaiting, LoopTypes, Places, Reading,
       Sending, Ending, Receiving, Idle, Waiting, Ready, Balance, Visible, Shown, Decodable
<1> QED
  BY <1>3, <1>4, <1>5, <1>6, <1>7, <1>8, <1>9 DEF LoopNext

LEMMA LoopStart == LoopInit => LoopInv
<1> SUFFICES ASSUME LoopInit PROVE LoopInv
  OBVIOUS
<1>1. /\ Init /\ input \in Inputs /\ packet = <<>> /\ at = "read"
      /\ out = <<>> /\ expected = <<>>
  BY DEF LoopInit
<1>2. IInv /\ FrameInv
  <2>1. TypeOK
    BY <1>1, InitTypes
  <2>2. DrainOrder /\ CallShape /\ HungryMeansAccepting /\ FrameInv
    BY <1>1 DEF Init, DrainOrder, CallShape, HungryMeansAccepting, FrameInv
  <2> QED
    BY <2>1, <2>2 DEF IInv
<1>3. /\ in_pkt = <<>> /\ bsf_pkt = <<>> /\ buffer_pkt = <<>> /\ buffer_frame = <<>>
      /\ codec = <<>> /\ ~draining_started /\ nb_draining_errors = 0 /\ pc = "idle"
  BY <1>1 DEF Init
<1>4. OneWaiting /\ Waiting = <<>> /\ Ready = <<>>
  BY <1>1, <1>3 DEF OneWaiting, Waiting, Ready, Receiving
<1>5. LoopTypes
  BY <1>1, EmptySeq, InputsAssumption DEF LoopTypes
<1>6. Places
  BY <1>1, <1>3, <1>4 DEF Places, Reading, Sending, Ending, Receiving, Idle
<1>7. Balance
  <2>1. <<>> \o <<>> = <<>>
    BY EmptySeq, ConcatEmptySeq
  <2> QED
    BY <1>1, <1>3, <1>4, <2>1, ShownEmpty DEF Balance
<1> QED
  BY <1>2, <1>4, <1>5, <1>6, <1>7 DEF LoopInv, PipeInv

LEMMA LoopCorrect == LoopSpec => []LoopInv
BY LoopStart, LoopStep, PTL DEF LoopSpec

-----------------------------------------------------------------------------
\* NothingPending: back at av_read_frame what was sent is in the file, in
\* order, or in the codec, and no send is ever refused, for any input, any
\* codec and any of the programs (decodeVideo.c 5-31, 138-156).
THEOREM NothingPendingCorrect == LoopSpec => []NothingPending
<1>1. LoopInv => NothingPending
  <2> SUFFICES ASSUME LoopInv PROVE NothingPending
    OBVIOUS
  <2>1. Places /\ (nb_draining_errors = 0 => Balance) /\ out \in Seq(Unit)
        /\ Visible(codec) \in Seq(Unit)
    BY LoopParts
  <2>2. ASSUME at = "read" PROVE out \o Visible(codec) = expected
    <3>1. Ready = <<>> /\ Waiting = <<>> /\ nb_draining_errors = 0
      BY <2>1, <2>2 DEF Places, Ready, Receiving, Reading, Ending
    <3> QED
      BY <2>1, <3>1, HeldSeqs, ShownEmpty DEF Balance
  <2>3. at = "sent" /\ Idle => result.ret \notin {"EAGAIN", "EOF"}
    BY <2>1 DEF Places
  <2> QED
    BY <2>2, <2>3 DEF NothingPending
<1> QED
  BY <1>1, LoopCorrect, PTL

\* CompleteOutput: a program that drained its codec without an error has
\* written every frame of what it sent, once and in order.
THEOREM CompleteOutputCorrect == LoopSpec => []CompleteOutput
<1>1. LoopInv => CompleteOutput
  <2> SUFFICES ASSUME LoopInv, at = "done", nb_draining_errors = 0 PROVE out = expected
    BY DEF CompleteOutput
  <2>1. Places /\ Balance /\ out \in Seq(Unit)
    BY LoopParts
  <2>2. Ready = <<>> /\ Waiting = <<>> /\ codec = <<>>
    BY <2>1 DEF Places, Ready, Receiving, Ending
  <2>3. <<>> \o <<>> = <<>>
    BY EmptySeq, ConcatEmptySeq
  <2> QED
    BY <2>1, <2>2, <2>3, HeldSeqs, ShownEmpty DEF Balance
<1> QED
  BY <1>1, LoopCorrect, PTL
=============================================================================
