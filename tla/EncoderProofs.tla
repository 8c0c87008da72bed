--------------------------- MODULE EncoderProofs ---------------------------
(***************************************************************************)
(* Proofs about Encoder and about the programs that drive it (EncodeLoop), *)
(* for every set of frames, every delay of the codec and every combination *)
(* of its capabilities and failures.                                       *)
(*                                                                         *)
(* HungryMeansAccepting is not inductive: it also needs to know that a     *)
(* call runs only while no packet waits in buffer_pkt (CallShape).         *)
(***************************************************************************)
EXTENDS EncodeLoop, SelectionProofs, SequenceTheorems, TLAPS

CallShape ==
  /\ pc = "idle" => call = "none"
  /\ pc = "encode" => call \in {"send", "receive"} /\ buffer_pkt = <<>>

IInv == TypeOK /\ DrainOrder /\ CallShape /\ HungryMeansAccepting

-----------------------------------------------------------------------------
\* Facts about the sequences of frames the actions handle.
LEMMA FrameSeqs ==
  /\ <<>> \in Seq(Frame) /\ Len(<<>>) = 0
  /\ \A f \in Frame : <<f>> \in Seq(Frame) /\ Len(<<f>>) = 1
  /\ \A s \in Seq(Frame) : Len(s) \in Nat /\ (Len(s) = 0 <=> s = <<>>)
  /\ \A s \in Seq(Frame) : s # <<>> =>
        /\ Head(s) \in Frame /\ Tail(s) \in Seq(Frame)
        /\ Len(Tail(s)) = Len(s) - 1
  /\ \A s, t \in Seq(Frame) :
        s \o t \in Seq(Frame) /\ Len(s \o t) = Len(s) + Len(t)
<1>1. <<>> \in Seq(Frame) /\ Len(<<>>) = 0
  BY EmptySeq
<1>2. \A f \in Frame : <<f>> \in Seq(Frame) /\ Len(<<f>>) = 1
  OBVIOUS
<1>3. \A s \in Seq(Frame) : Len(s) \in Nat /\ (Len(s) = 0 <=> s = <<>>)
  BY EmptySeq, LenProperties
<1>4. \A s \in Seq(Frame) : s # <<>> =>
        /\ Head(s) \in Frame /\ Tail(s) \in Seq(Frame)
        /\ Len(Tail(s)) = Len(s) - 1
  BY HeadTailProperties
<1>5. \A s, t \in Seq(Frame) :
        s \o t \in Seq(Frame) /\ Len(s \o t) = Len(s) + Len(t)
  BY ConcatProperties
<1> QED
  BY <1>1, <1>2, <1>3, <1>4, <1>5

\* What a return from the library leaves behind, with any packet.
LEMMA ReturnShape ==
  ASSUME IInv, pc = "encode", NEW p \in Seq(Frame), Len(p) <= 1,
         NEW ret \in {"OK", "EAGAIN", "EOF", "ERR"}, Return(ret, p)
  PROVE  /\ pc' = "idle" /\ call' = "none"
         /\ buffer_pkt' \in Seq(Frame) /\ Len(buffer_pkt') <= 1
         /\ packet' \in Seq(Frame) /\ Len(packet') <= 1
         /\ result' \in [of : {"none", "send", "receive"},
                         ret : {"OK", "EAGAIN", "EOF", "EINVAL", "ERR"}]
         /\ result' = [of |-> "receive", ret |-> "EAGAIN"]
              => ret = "EAGAIN" /\ buffer_pkt' = <<>>
<1>1. CASE call = "send"
  BY <1>1 DEF Return, IInv, TypeOK
<1>2. CASE call = "receive"
  BY <1>2 DEF Return, IInv, TypeOK, CallShape
<1> QED
  BY <1>1, <1>2 DEF Return

\* The codec gives away its oldest frame; what it had must fit with one more.
LEMMA OutputShape ==
  ASSUME IInv, pc = "encode", NEW held \in Seq(Frame), held # <<>>,
         Len(held) <= CodecDelay + 1, Output(held)
  PROVE  /\ codec' \in Seq(Frame) /\ Len(codec') <= CodecDelay
         /\ pc' \in {"idle", "encode"}
         /\ pc' = "idle" => call' = "none"
         /\ pc' = "encode" => call' = call /\ buffer_pkt' = buffer_pkt
         /\ call' \in {"none", "send", "receive"}
         /\ buffer_pkt' \in Seq(Frame) /\ Len(buffer_pkt') <= 1
         /\ packet' \in Seq(Frame) /\ Len(packet') <= 1
         /\ result' \in [of : {"none", "send", "receive"},
                         ret : {"OK", "EAGAIN", "EOF", "EINVAL", "ERR"}]
         /\ pc' = "idle" => result' # [of |-> "receive", ret |-> "EAGAIN"]
<1>1. codec' \in Seq(Frame) /\ Len(codec') <= CodecDelay
  BY FrameSeqs, CodecAssumption DEF Output
<1>2. CASE Head(held) \in Skipped
  BY <1>1, <1>2 DEF Output, IInv, TypeOK
<1>3. CASE Head(held) \notin Skipped
  <2>1. Return("OK", <<Head(held)>>)
    BY <1>3 DEF Output
  <2>2. <<Head(held)>> \in Seq(Frame) /\ Len(<<Head(held)>>) <= 1
    BY FrameSeqs
  <2> QED
    BY <1>1, <2>1, <2>2, ReturnShape
<1> QED
  BY <1>2, <1>3

-----------------------------------------------------------------------------
LEMMA IInvInit == Init => IInv
<1> SUFFICES ASSUME Init PROVE IInv
  OBVIOUS
<1>1. {last_audio_frame, draining, draining_done} \subseteq BOOLEAN
  BY Zenon DEF Init
<1>2. TypeOK
  BY <1>1, FrameSeqs, CodecAssumption DEF Init, TypeOK
<1> QED
  BY <1>2 DEF Init, IInv, DrainOrder, CallShape, HungryMeansAccepting

\* Every step of the library and of its client preserves IInv.
LEMMA IInvStep == IInv /\ [Next]_vars => IInv'
<1> SUFFICES ASSUME IInv, [Next]_vars PROVE IInv'
  OBVIOUS
<1> USE DEF IInv, TypeOK, DrainOrder, CallShape, HungryMeansAccepting, Idle,
        Accepting
<1>1. ASSUME NEW f \in Frame, SendFrame(f) PROVE IInv'
  <2>1. last_audio_frame' \in BOOLEAN
    BY <1>1 DEF SendFrame
  <2> QED
    BY <1>1, <2>1, FrameSeqs DEF SendFrame, Enter, Answer
<1>2. ASSUME NEW f \in Frame, SendInvalid(f) PROVE IInv'
  BY <1>2 DEF SendInvalid, Answer
<1>3. CASE SendRefused
  BY <1>3 DEF SendRefused, Answer
<1>4. CASE SendNull
  BY <1>4, FrameSeqs DEF SendNull, Enter, Answer
<1>5. CASE ReceivePacket
  BY <1>5, FrameSeqs DEF ReceivePacket, Enter, Answer
<1>6. CASE FlushBuffers
  <2>1. {last_audio_frame, draining, draining_done}' \subseteq BOOLEAN
    BY <1>6 DEF FlushBuffers
  <2>2. codec' \in Seq(Frame) /\ Len(codec') <= CodecDelay
    BY <1>6, FrameSeqs, CodecAssumption DEF FlushBuffers
  <2>3. TypeOK'
    BY <1>6, <2>1, <2>2, FrameSeqs DEF FlushBuffers
  <2> QED
    BY <1>6, <2>3 DEF FlushBuffers
<1>7. CASE EncodeHungry
  <2>1. Return("EAGAIN", <<>>)
    BY <1>7 DEF EncodeHungry
  <2> QED
    BY <1>7, <2>1, FrameSeqs, ReturnShape DEF EncodeHungry
<1>8. CASE EncodeFrame
  <2> DEFINE held == codec \o buffer_frame
  <2>1. /\ held \in Seq(Frame) /\ held # <<>>
        /\ Len(held) = Len(codec) + 1 /\ Len(held) <= CodecDelay + 1
    BY <1>8, FrameSeqs, CodecAssumption DEF EncodeFrame
  <2> HIDE DEF held
  <2>2. CASE Output(held)
    BY <1>8, <2>1, <2>2, FrameSeqs, OutputShape DEF EncodeFrame
  <2>3. CASE /\ Len(codec) < CodecDelay /\ codec' = held
             /\ UNCHANGED <<buffer_pkt, packet, pc, call, result>>
    BY <1>8, <2>1, <2>3, FrameSeqs, CodecAssumption DEF EncodeFrame
  <2> QED
    BY <1>8, <2>2, <2>3 DEF EncodeFrame, held
<1>9. CASE EncodeError
  <2>1. Return("ERR", <<>>)
    BY <1>9 DEF EncodeError
  <2> QED
    BY <1>9, <2>1, FrameSeqs, ReturnShape DEF EncodeError
<1>10. CASE EncodeEof
  <2>1. Return("EOF", <<>>)
    BY <1>10 DEF EncodeEof
  <2>2. codec = <<>> \/ EncodeFails
    BY <1>10, FrameSeqs DEF EncodeEof
  <2> QED
    BY <1>10, <2>1, <2>2, FrameSeqs, ReturnShape DEF EncodeEof
<1>11. CASE DrainSkips
  BY <1>11, FrameSeqs, CodecAssumption DEF DrainSkips, Draining
<1>12. CASE DrainPacket
  <2>1. Return("OK", <<Head(codec)>>)
    BY <1>12 DEF DrainPacket
  <2>2. /\ codec' \in Seq(Frame) /\ Len(codec') <= CodecDelay
        /\ <<Head(codec)>> \in Seq(Frame) /\ Len(<<Head(codec)>>) <= 1
    BY <1>12, FrameSeqs, CodecAssumption DEF DrainPacket
  <2> QED
    BY <1>12, <2>1, <2>2, ReturnShape DEF DrainPacket, Draining
<1>13. CASE DrainEnd
  BY <1>13 DEF DrainEnd, Draining
<1>14. CASE DrainError
  <2>1. Return("ERR", <<>>)
    BY <1>14 DEF DrainError
  <2> QED
    BY <1>14, <2>1, FrameSeqs, ReturnShape DEF DrainError, Draining
<1>15. CASE UNCHANGED vars
  BY <1>15 DEF vars
<1> QED
  BY <1>1, <1>2, <1>3, <1>4, <1>5, <1>6, <1>7, <1>8, <1>9, <1>10, <1>11,
     <1>12, <1>13, <1>14, <1>15 DEF Next, Client, Library

LEMMA IInvCorrect == Spec => []IInv
BY IInvInit, IInvStep, PTL DEF Spec

-----------------------------------------------------------------------------
\* TypeOK: the two buffers hold one element each, the codec never more than
\* its delay.
THEOREM EncoderTypeCorrect == Spec => []TypeOK
BY IInvCorrect, PTL DEF IInv

\* DrainOrder: the end is accepted only when no frame waits, and the codec is
\* given up only when it is empty or failed (encode.c 312-343, 515-522).
THEOREM EncoderDrainOrderCorrect == Spec => []DrainOrder
BY IInvCorrect, PTL DEF IInv

\* HungryMeansAccepting: after receive asked for input the next frame, or the
\* end, is taken (avcodec.h 119-121).
THEOREM EncoderHungryCorrect == Spec => []HungryMeansAccepting
BY IInvCorrect, PTL DEF IInv
-----------------------------------------------------------------------------
(***************************************************************************)
(* Encoder implements Pipe.                                                *)
(*                                                                         *)
(* A step of the encoder maps to the step of the queue that its comment    *)
(* names, or to a stutter.  That a packet given away is one the client may *)
(* see, that nothing waits in buffer_pkt once the codec is done, and that  *)
(* a receive runs with a blank packet is PacketInv.                        *)
(***************************************************************************)

PacketInv ==
  /\ buffer_pkt # <<>> => Head(buffer_pkt) \notin Skipped
  /\ draining_done => buffer_pkt = <<>>
  /\ pc = "encode" /\ call = "receive" => packet = <<>>

PipeInv == IInv /\ PacketInv

-----------------------------------------------------------------------------
\* Facts about the sequences that make up Held.
LEMMA HeldSeqs ==
  /\ \A s \in Seq(Frame) : s \o <<>> = s /\ <<>> \o s = s
  /\ \A s, t, u \in Seq(Frame) : (s \o t) \o u = s \o (t \o u)
  /\ \A s, t \in Seq(Frame) : s \o t = <<>> => s = <<>> /\ t = <<>>
  /\ \A s \in Seq(Frame) : s # <<>> => s = <<Head(s)>> \o Tail(s)
  /\ \A s \in Seq(Frame) : Len(s) <= 1 /\ s # <<>> => s = <<Head(s)>> /\ Tail(s) = <<>>
<1>1. \A s \in Seq(Frame) : s \o <<>> = s /\ <<>> \o s = s
  BY ConcatEmptySeq
<1>2. \A s, t, u \in Seq(Frame) : (s \o t) \o u = s \o (t \o u)
  BY ConcatAssociative
<1>3. \A s, t \in Seq(Frame) : s \o t = <<>> => s = <<>> /\ t = <<>>
  BY ConcatSimplifications!concIsEmpty
<1>4. ASSUME NEW s \in Seq(Frame), s # <<>>
      PROVE  s = <<Head(s)>> \o Tail(s)
  <2>1. s[1] = Head(s) /\ Len(s) \in 1 .. Len(s) /\ 1 \in 1 .. Len(s)
    BY <1>4, EmptySeq
  <2>2. SubSeq(s, 1, Len(s)) = <<s[1]>> \o SubSeq(s, 2, Len(s))
    BY <2>1, SubSeqRecursiveFirst
  <2> QED
    BY <1>4, <2>1, <2>2, SubSeqFull, TailIsSubSeq
<1>5. ASSUME NEW s \in Seq(Frame), Len(s) <= 1, s # <<>>
      PROVE  s = <<Head(s)>> /\ Tail(s) = <<>>
  <2>1. Tail(s) \in Seq(Frame) /\ Len(Tail(s)) = Len(s) - 1 /\ Len(s) \in Nat
    BY <1>5, FrameSeqs
  <2>2. Tail(s) = <<>>
    BY <1>5, <2>1, FrameSeqs
  <2>3. <<Head(s)>> \in Seq(Frame)
    BY <1>5, FrameSeqs
  <2> QED
    BY <1>1, <1>4, <1>5, <2>2, <2>3
<1> QED
  BY <1>1, <1>2, <1>3, <1>4, <1>5

\* Taking the first frame of a sequence.
LEMMA HeadOfUnit ==
  ASSUME NEW f \in Frame, NEW s \in Seq(Frame)
  PROVE  /\ Head(<<f>> \o s) = f /\ Tail(<<f>> \o s) = s
         /\ <<f>> \o s # <<>> /\ <<f>> \o s \in Seq(Frame)
<1> DEFINE q == <<f>> \o s
<1>1. <<f>> \in Seq(Frame) /\ Len(<<f>>) = 1 /\ Len(s) \in Nat
  BY FrameSeqs
<1>2. /\ q \in Seq(Frame) /\ Len(q) = 1 + Len(s)
      /\ \A i \in 1 .. 1 + Len(s) : q[i] = IF i <= 1 THEN <<f>>[i] ELSE s[i - 1]
  BY <1>1, ConcatProperties
<1> HIDE DEF q
<1>3. q # <<>> /\ q[1] = f
  BY <1>1, <1>2, FrameSeqs
<1>4. /\ Head(q) = q[1] /\ Tail(q) \in Seq(Frame) /\ Len(Tail(q)) = Len(s)
      /\ \A i \in 1 .. Len(s) : Tail(q)[i] = q[i + 1]
  BY <1>1, <1>2, <1>3, HeadTailProperties
<1>5. \A i \in 1 .. Len(Tail(q)) : Tail(q)[i] = s[i]
  BY <1>1, <1>2, <1>4
<1>6. Tail(q) = s
  BY <1>4, <1>5, SeqEqual
<1> QED
  BY <1>2, <1>3, <1>4, <1>6 DEF q

LEMMA PacketInvInit == Init => PacketInv
BY DEF Init, PacketInv

LEMMA PacketInvStep == PipeInv /\ [Next]_vars => PacketInv'
<1> SUFFICES ASSUME PipeInv, [Next]_vars PROVE PacketInv'
  OBVIOUS
<1> USE DEF PipeInv, PacketInv, IInv
<1>1. ASSUME NEW f \in Frame, SendFrame(f) PROVE PacketInv'
  BY <1>1 DEF SendFrame, Enter, Answer, Accepting, DrainOrder
<1>2. ASSUME NEW f \in Frame, SendInvalid(f) PROVE PacketInv'
  BY <1>2 DEF SendInvalid, Answer
<1>3. CASE SendRefused
  BY <1>3 DEF SendRefused, Answer
<1>4. CASE SendNull
  BY <1>4 DEF SendNull, Enter, Answer, Accepting, DrainOrder
<1>5. CASE ReceivePacket
  BY <1>5 DEF ReceivePacket, Enter, Answer
<1>6. CASE FlushBuffers
  BY <1>6 DEF FlushBuffers
<1>7. CASE EncodeHungry
  BY <1>7 DEF EncodeHungry, Return, CallShape
<1>8. CASE EncodeFrame
  <2> DEFINE held == codec \o buffer_frame
  <2>1. \A f : Head(<<f>>) = f
    OBVIOUS
  <2> HIDE DEF held
  <2>2. ~draining_done /\ ~draining_done'
    BY <1>8 DEF EncodeFrame, DrainOrder
  <2>3. CASE Output(held)
    BY <2>1, <2>2, <2>3 DEF Output, Return
  <2>4. CASE UNCHANGED <<buffer_pkt, packet, pc, call>>
    BY <2>2, <2>4
  <2> QED
    BY <1>8, <2>3, <2>4 DEF EncodeFrame, held
<1>9. CASE EncodeError
  BY <1>9 DEF EncodeError, Return, CallShape
<1>10. CASE EncodeEof
  BY <1>10 DEF EncodeEof, Return, CallShape
<1>11. CASE DrainSkips
  BY <1>11 DEF DrainSkips
<1>12. CASE DrainPacket
  <2>1. Head(<<Head(codec)>>) = Head(codec)
    OBVIOUS
  <2> QED
    BY <1>12, <2>1 DEF DrainPacket, Draining, Return
<1>13. CASE DrainEnd
  BY <1>13 DEF DrainEnd, Draining, CallShape
<1>14. CASE DrainError
  BY <1>14 DEF DrainError, Draining, Return, CallShape
<1>15. CASE UNCHANGED vars
  BY <1>15 DEF vars
<1> QED
  BY <1>1, <1>2, <1>3, <1>4, <1>5, <1>6, <1>7, <1>8, <1>9, <1>10, <1>11,
     <1>12, <1>13, <1>14, <1>15 DEF Next, Client, Library

LEMMA PipeInvCorrect == Spec => []PipeInv
<1>1. Init => PipeInv
  BY IInvInit, PacketInvInit DEF PipeInv
<1>2. PipeInv /\ [Next]_vars => PipeInv'
  BY IInvStep, PacketInvStep DEF PipeInv
<1> QED
  BY <1>1, <1>2, PTL DEF Spec

-----------------------------------------------------------------------------
\* A return from the library, seen from the queue: send announces success
\* unless the codec failed, receive hands out what it got.
LEMMA ReturnMaps ==
  ASSUME PipeInv, pc = "encode", NEW p, NEW ret, Return(ret, p)
  PROVE  \/ call = "send" /\ packet' = packet /\ buffer_pkt' = p
            /\ result' = [of |-> "send",
                          ret |-> IF ret \in {"EAGAIN", "EOF"} THEN "OK" ELSE ret]
         \/ call = "receive" /\ packet = <<>> /\ packet' = p
            /\ buffer_pkt = <<>> /\ buffer_pkt' = <<>>
            /\ result' = [of |-> "receive", ret |-> ret]
BY DEF Return, PipeInv, PacketInv, IInv, CallShape

\* An error makes the queue lose the frames from position i on.
LEMMA LoseMaps ==
  ASSUME PipeInv, pc = "encode", NEW kept \in Seq(Frame), NEW gone \in Seq(Frame),
         Queue = kept \o gone, Queue' = kept, Return("ERR", <<>>),
         draining' = draining
  PROVE  Refinement!Lose
<1> DEFINE i == Len(kept) + 1
           j == Len(kept) + Len(gone)
<1>1. /\ Len(kept) \in Nat /\ Len(gone) \in Nat
      /\ Queue \in Seq(Frame) /\ Len(Queue) = j
  BY FrameSeqs
<1>2. SubSeq(Queue, 1, i - 1) = kept
  <2>1. /\ SubSeq(Queue, 1, Len(kept)) \in Seq(Frame)
        /\ Len(SubSeq(Queue, 1, Len(kept))) = Len(kept)
        /\ \A k \in 1 .. Len(kept) : SubSeq(Queue, 1, Len(kept))[k] = kept[k]
    <3>1. \A k \in 1 .. Len(kept) : Queue[k] = kept[k] /\ Queue[k] \in Frame
      BY <1>1, ConcatProperties, ElementOfSeq
    <3> QED
      BY <1>1, <3>1, SubSeqProperties
  <2> QED
    BY <1>1, <2>1, SeqEqual
<1>3. SubSeq(Queue, j + 1, Len(Queue)) = <<>>
  BY <1>1, SubSeqEmpty
<1>4. Refinement!Without(Queue, i, j) = kept
  BY <1>2, <1>3, HeldSeqs DEF Refinement!Without
<1>5. i \in 1 .. Len(Queue) + 1 /\ j \in i - 1 .. Len(Queue)
  BY <1>1
<1>6. \E call1 \in {"send", "receive"}, ret \in {"ERR", "BUG"} :
        Refinement!Returned(call1, ret)
  BY ReturnMaps DEF Refinement!Returned
<1>7. UNCHANGED <<draining, packet>>
  BY ReturnMaps
<1> QED
  BY <1>4, <1>5, <1>6, <1>7 DEF Refinement!Lose

LEMMA PipeInit == Init => Refinement!Init
<1> SUFFICES ASSUME Init PROVE Refinement!Init
  OBVIOUS
<1>1. Queue = <<>>
  BY HeldSeqs, FrameSeqs DEF Init, Queue, Held
<1> QED
  BY <1>1 DEF Init, Refinement!Init

\* The steps of a client, one by one.
LEMMA PipeClient == PipeInv /\ Client => [Refinement!Next]_(Refinement!vars)
<1> SUFFICES ASSUME PipeInv, Client PROVE [Refinement!Next]_(Refinement!vars)
  OBVIOUS
<1> USE DEF Refinement!Returned
<1>0. /\ codec \in Seq(Frame) /\ buffer_frame \in Seq(Frame) /\ buffer_pkt \in Seq(Frame)
      /\ <<>> \in Seq(Frame)
      /\ draining_done => draining /\ buffer_pkt = <<>>
  BY FrameSeqs DEF PipeInv, IInv, TypeOK, DrainOrder, PacketInv
<1>1. ASSUME NEW f \in Frame, SendFrame(f) PROVE Refinement!Accept
  <2>1. <<f>> \in Seq(Frame) /\ <<f>> \in {<<g>> : g \in Frame}
    BY FrameSeqs
  <2>2. Queue = buffer_pkt \o codec
    BY <1>0, <1>1, HeldSeqs, FrameSeqs DEF SendFrame, Accepting, Queue, Held
  <2>3. Queue' = (buffer_pkt \o codec) \o <<f>>
    BY <1>0, <1>1 DEF SendFrame, Accepting, Queue, Held
  <2>4. \E p \in {<<g>> : g \in Frame} : Queue' = Queue \o p
    BY <2>1, <2>2, <2>3
  <2> QED
    BY <1>1, <2>4 DEF Refinement!Accept, SendFrame, Accepting, Enter, Answer
<1>2. ASSUME NEW f \in Frame, SendInvalid(f) PROVE Refinement!Refuse
  BY <1>2 DEF SendInvalid, Accepting, Answer, Refinement!Refuse, Queue, Held
<1>3. CASE SendRefused
  <2>1. CASE draining
    BY <1>3, <2>1 DEF SendRefused, Answer, Refinement!Refuse, Refinement!Next, Queue, Held
  <2>2. CASE ~draining /\ buffer_frame # <<>>
    <3>1. Queue # <<>>
      BY <1>0, <2>2, HeldSeqs, FrameSeqs DEF Queue, Held
    <3> QED
      BY <1>3, <2>2, <3>1 DEF SendRefused, Answer, Refinement!Refuse, Refinement!Next,
         Queue, Held
  <2> QED
    BY <1>3, <2>1, <2>2 DEF SendRefused
<1>4. CASE SendNull
  BY <1>4 DEF SendNull, Accepting, Enter, Answer, Refinement!Close, Refinement!Next,
     Queue, Held
<1>5. CASE ReceivePacket
  <2>1. CASE buffer_pkt = <<>>
    BY <1>5, <2>1 DEF ReceivePacket, Enter, Refinement!Ask, Refinement!Next, Queue, Held
  <2>2. CASE buffer_pkt # <<>>
    <3>1. buffer_pkt = <<Head(buffer_pkt)>> /\ Head(buffer_pkt) \in Frame
      BY <1>0, <2>2, HeldSeqs, FrameSeqs DEF PipeInv, IInv, TypeOK
    <3>2. PICK f \in Frame : f = Head(buffer_pkt)
      BY <3>1
    <3> DEFINE rest == codec \o buffer_frame
    <3>3. rest \in Seq(Frame) /\ <<f>> \in Seq(Frame)
      BY <1>0, FrameSeqs
    <3>4. Queue = <<f>> \o rest
      <4>1. Queue = (buffer_pkt \o codec) \o buffer_frame
        BY <1>0, <2>2 DEF Queue, Held
      <4>2. (buffer_pkt \o codec) \o buffer_frame = buffer_pkt \o rest
        BY <1>0, HeldSeqs
      <4> QED
        BY <4>1, <4>2, <3>1, <3>2
    <3>5. Queue' = rest
      <4>1. codec' = codec /\ buffer_frame' = buffer_frame /\ buffer_pkt' = <<>>
            /\ ~draining_done'
        BY <1>0, <1>5, <2>2 DEF ReceivePacket
      <4> QED
        BY <1>0, <4>1, HeldSeqs DEF Queue, Held
    <3> HIDE DEF rest
    <3>6. Head(Queue) = f /\ Tail(Queue) = rest /\ Queue # <<>>
      BY <3>3, <3>4, HeadOfUnit
    <3>7. f \notin Skipped
      BY <2>2, <3>2 DEF PipeInv, PacketInv
    <3>8. packet' = <<f>> /\ result' = [of |-> "receive", ret |-> "OK"]
          /\ draining' = draining
      BY <1>5, <2>2, <3>1, <3>2 DEF ReceivePacket, Answer
    <3> QED
      BY <3>5, <3>6, <3>7, <3>8 DEF Refinement!Deliver, Refinement!Next
  <2> QED
    BY <2>1, <2>2
<1>6. CASE FlushBuffers
  <2>1. Queue' = <<>>
    BY <1>0, <1>6, HeldSeqs DEF FlushBuffers, Queue, Held
  <2> QED
    BY <1>6, <2>1 DEF FlushBuffers, Refinement!Reset, Refinement!Next
<1> QED
  BY <1>1, <1>2, <1>3, <1>4, <1>5, <1>6 DEF Client, Refinement!Next

\* The codec gives up its oldest frame, hidden or as a packet.
LEMMA PipeOutput ==
  ASSUME PipeInv, pc = "encode", NEW f \in Frame, NEW s \in Seq(Frame),
         Queue = <<f>> \o s, draining' = draining,
         \/ f \in Skipped /\ Queue' = s /\ UNCHANGED <<packet, result>>
         \/ /\ f \notin Skipped /\ Return("OK", <<f>>)
            /\ Queue' = IF call = "send" THEN <<f>> \o s ELSE s
  PROVE  [Refinement!Next]_(Refinement!vars)
<1>1. Head(Queue) = f /\ Tail(Queue) = s /\ Queue # <<>>
  BY HeadOfUnit
<1>2. CASE f \in Skipped /\ Queue' = s /\ UNCHANGED <<packet, result>>
  BY <1>1, <1>2 DEF Refinement!Hide, Refinement!Next
<1>3. CASE /\ f \notin Skipped /\ Return("OK", <<f>>)
           /\ Queue' = IF call = "send" THEN <<f>> \o s ELSE s
  <2>1. CASE call = "send"
    <3>1. packet' = packet /\ result' = [of |-> "send", ret |-> "OK"]
      BY <1>3, <2>1, ReturnMaps
    <3> QED
      BY <1>3, <2>1, <3>1 DEF Refinement!SendDone, Refinement!Returned, Refinement!Next
  <2>2. CASE call = "receive"
    <3>1. packet' = <<f>> /\ result' = [of |-> "receive", ret |-> "OK"]
      BY <1>3, <2>2, ReturnMaps
    <3> QED
      BY <1>1, <1>3, <2>2, <3>1
      DEF Refinement!Deliver, Refinement!Returned, Refinement!Next
  <2> QED
    BY <2>1, <2>2 DEF PipeInv, IInv, CallShape
<1> QED
  BY <1>2, <1>3

\* The steps of the library, one by one.
LEMMA PipeLibrary == PipeInv /\ Library => [Refinement!Next]_(Refinement!vars)
<1> SUFFICES ASSUME PipeInv, Library PROVE [Refinement!Next]_(Refinement!vars)
  OBVIOUS
<1>0. /\ codec \in Seq(Frame) /\ buffer_frame \in Seq(Frame) /\ <<>> \in Seq(Frame)
      /\ pc = "encode" /\ buffer_pkt = <<>>
      /\ draining_done => draining
      /\ draining => buffer_frame = <<>>
  BY FrameSeqs DEF PipeInv, IInv, TypeOK, DrainOrder, CallShape, Library, EncodeHungry,
     EncodeFrame, EncodeError, EncodeEof, Draining, DrainSkips, DrainPacket, DrainEnd, DrainError
<1>1. ~draining_done => Queue = codec \o buffer_frame
  BY <1>0, HeldSeqs DEF Queue, Held
<1>2. CASE EncodeHungry
  <2>1. CASE call = "send"
    <3>1. /\ buffer_pkt' = buffer_pkt /\ packet' = packet
          /\ result' = [of |-> "send", ret |-> "OK"]
      BY <1>0, <1>2, <2>1, ReturnMaps DEF EncodeHungry
    <3>2. Queue' = Queue
      BY <1>2, <3>1 DEF EncodeHungry, Queue, Held
    <3> QED
      BY <1>2, <3>1, <3>2
      DEF EncodeHungry, Refinement!SendDone, Refinement!Returned, Refinement!Next
  <2>2. CASE call = "receive"
    <3>1. /\ buffer_pkt' = buffer_pkt /\ packet' = packet
          /\ result' = [of |-> "receive", ret |-> "EAGAIN"]
      BY <1>0, <1>2, <2>2, ReturnMaps DEF EncodeHungry
    <3>2. Queue' = Queue
      BY <1>2, <3>1 DEF EncodeHungry, Queue, Held
    <3> QED
      BY <1>2, <3>1, <3>2
      DEF EncodeHungry, Refinement!Starve, Refinement!Returned, Refinement!Next
  <2> QED
    BY <1>0, <2>1, <2>2 DEF PipeInv, IInv, CallShape
<1>3. CASE EncodeFrame
  <2>0. /\ ~draining_done /\ draining_done' = draining_done /\ draining' = draining
        /\ buffer_frame # <<>> /\ buffer_frame' = <<>>
    BY <1>0, <1>3 DEF EncodeFrame
  <2> DEFINE held == codec \o buffer_frame
  <2>1. held \in Seq(Frame) /\ held # <<>>
    BY <1>0, <2>0, HeldSeqs, FrameSeqs
  <2>2. Queue = held
    BY <1>1, <2>0
  <2> HIDE DEF held
  <2>3. PICK f \in Frame, s \in Seq(Frame) : f = Head(held) /\ s = Tail(held)
    BY <2>1, FrameSeqs
  <2>4. held = <<f>> \o s
    BY <2>1, <2>3, HeldSeqs
  <2>5. ASSUME Output(held)
        PROVE  [Refinement!Next]_(Refinement!vars)
    <3>1. codec' = s
      BY <2>3, <2>5 DEF Output
    <3>2. CASE f \in Skipped
      <4>1. Queue' = s
        <5>1. buffer_pkt' = <<>>
          BY <1>0, <2>3, <2>5, <3>2 DEF Output
        <5> QED
          BY <2>0, <3>1, <5>1, HeldSeqs DEF Queue, Held
      <4> QED
        BY <1>0, <2>0, <2>2, <2>3, <2>4, <2>5, <3>2, <4>1, PipeOutput DEF Output
    <3>3. CASE f \notin Skipped
      <4>1. Return("OK", <<f>>)
        BY <2>3, <2>5, <3>3 DEF Output
      <4>2. Queue' = IF call = "send" THEN <<f>> \o s ELSE s
        <5>1. buffer_pkt' = IF call = "send" THEN <<f>> ELSE <<>>
          BY <1>0, <4>1, ReturnMaps
        <5>2. <<f>> \in Seq(Frame) /\ <<f>> \o s \in Seq(Frame)
          BY FrameSeqs
        <5> QED
          BY <2>0, <3>1, <5>1, <5>2, HeldSeqs DEF Queue, Held
      <4> QED
        BY <1>0, <2>0, <2>2, <2>4, <3>3, <4>1, <4>2, PipeOutput
    <3> QED
      BY <3>2, <3>3
  <2>6. CASE /\ codec' = held /\ UNCHANGED <<buffer_pkt, packet, result>>
    <3>1. Queue' = Queue
      BY <1>0, <2>0, <2>1, <2>2, <2>6, HeldSeqs DEF Queue, Held
    <3> QED
      BY <2>0, <2>6, <3>1 DEF Refinement!vars
  <2> QED
    BY <1>3, <2>5, <2>6 DEF EncodeFrame, held
<1>4. CASE EncodeError
  <2>1. /\ Return("ERR", <<>>) /\ draining' = draining /\ codec' = codec
        /\ buffer_frame' = <<>> /\ ~draining_done /\ ~draining_done'
    BY <1>0, <1>4 DEF EncodeError
  <2>2. buffer_pkt' = <<>>
    BY <1>0, <2>1, ReturnMaps
  <2>3. Queue' = codec
    BY <1>0, <2>1, <2>2, HeldSeqs DEF Queue, Held
  <2> QED
    BY <1>0, <1>1, <2>1, <2>3, LoseMaps DEF Refinement!Next
<1>5. CASE EncodeEof
  <2>1. Queue = <<>>
    <3>1. CASE draining_done
      BY <3>1 DEF Queue
    <3>2. CASE CodecDelay = 0 /\ ~draining_done
      <4>1. codec = <<>> /\ buffer_frame = <<>>
        BY <1>0, <1>5, <3>2, FrameSeqs DEF EncodeEof, PipeInv, IInv, TypeOK
      <4> QED
        BY <1>0, <1>1, <3>2, <4>1, HeldSeqs
    <3> QED
      BY <1>5, <3>1, <3>2 DEF EncodeEof
  <2>2. Queue' = <<>> /\ draining /\ draining' = draining
    BY <1>5 DEF EncodeEof, Queue
  <2>3. \/ /\ packet' = packet
           /\ result' = [of |-> "send", ret |-> "OK"]
        \/ /\ packet' = packet
           /\ result' = [of |-> "receive", ret |-> "EOF"]
    BY <1>0, <1>5, ReturnMaps DEF EncodeEof
  <2> QED
    BY <2>1, <2>2, <2>3
    DEF Refinement!SendDone, Refinement!End, Refinement!Returned, Refinement!Next
<1>6. CASE DrainSkips
  <2>0. /\ ~draining_done /\ draining_done' = draining_done /\ draining' = draining
        /\ buffer_frame = <<>> /\ buffer_frame' = <<>> /\ buffer_pkt' = <<>>
        /\ codec # <<>> /\ codec' = Tail(codec) /\ Head(codec) \in Skipped
        /\ UNCHANGED <<packet, result>>
    BY <1>0, <1>6 DEF DrainSkips, Draining
  <2>1. PICK f \in Frame, s \in Seq(Frame) : f = Head(codec) /\ s = Tail(codec)
    BY <1>0, <2>0, FrameSeqs
  <2>2. codec = <<f>> \o s
    BY <1>0, <2>0, <2>1, HeldSeqs
  <2>3. Queue = <<f>> \o s
    BY <1>0, <1>1, <2>0, <2>2, HeldSeqs
  <2>4. Queue' = s
    BY <2>0, <2>1, HeldSeqs DEF Queue, Held
  <2> QED
    BY <1>0, <2>0, <2>1, <2>3, <2>4, PipeOutput
<1>7. CASE DrainPacket
  <2>0. /\ ~draining_done /\ draining_done' = draining_done /\ draining' = draining
        /\ buffer_frame = <<>> /\ buffer_frame' = <<>>
        /\ codec # <<>> /\ codec' = Tail(codec) /\ Head(codec) \notin Skipped
        /\ Return("OK", <<Head(codec)>>)
    BY <1>0, <1>7 DEF DrainPacket, Draining
  <2>1. PICK f \in Frame, s \in Seq(Frame) : f = Head(codec) /\ s = Tail(codec)
    BY <1>0, <2>0, FrameSeqs
  <2>2. codec = <<f>> \o s
    BY <1>0, <2>0, <2>1, HeldSeqs
  <2>3. Queue = <<f>> \o s
    BY <1>0, <1>1, <2>0, <2>2, HeldSeqs
  <2>4. Return("OK", <<f>>) /\ f \notin Skipped
    BY <2>0, <2>1
  <2>5. buffer_pkt' = IF call = "send" THEN <<f>> ELSE <<>>
    BY <1>0, <2>4, ReturnMaps
  <2>6. Queue' = IF call = "send" THEN <<f>> \o s ELSE s
    <3>1. <<f>> \in Seq(Frame) /\ <<f>> \o s \in Seq(Frame)
      BY FrameSeqs
    <3> QED
      BY <2>0, <2>1, <2>5, <3>1, HeldSeqs DEF Queue, Held
  <2> QED
    BY <1>0, <2>0, <2>3, <2>4, <2>6, PipeOutput
<1>8. CASE DrainEnd
  <2>1. Queue = <<>> /\ Queue' = <<>>
    BY <1>0, <1>1, <1>8, HeldSeqs DEF DrainEnd, Draining, Queue
  <2> QED
    BY <1>8, <2>1 DEF DrainEnd, Refinement!vars
<1>9. CASE DrainError
  <2>1. /\ Return("ERR", <<>>) /\ draining' = draining /\ ~draining_done
        /\ draining_done' /\ buffer_frame = <<>>
    BY <1>0, <1>9 DEF DrainError, Draining
  <2>2. Queue' = <<>> /\ Queue = <<>> \o codec
    BY <1>0, <1>1, <2>1, HeldSeqs DEF Queue
  <2> QED
    BY <1>0, <2>1, <2>2, LoseMaps DEF Refinement!Next
<1> QED
  BY <1>2, <1>3, <1>4, <1>5, <1>6, <1>7, <1>8, <1>9 DEF Library

-----------------------------------------------------------------------------
\* PipeSpec: what goes into the encoder comes out in its order, nothing is
\* lost without an error that the client sees, and the end is announced only
\* when nothing is left (encode.c 181-600, avcodec.h 88-180).
THEOREM EncoderIsPipe == Spec => PipeSpec
<1>1. PipeInv /\ [Next]_vars => [Refinement!Next]_(Refinement!vars)
  <2>1. PipeInv /\ UNCHANGED vars => UNCHANGED Refinement!vars
    BY DEF vars, Refinement!vars, Queue, Held
  <2> QED
    BY <2>1, PipeClient, PipeLibrary DEF Next
<1> QED
  BY <1>1, PipeInit, PipeInvCorrect, PTL DEF Spec, PipeSpec, Refinement!Spec

-----------------------------------------------------------------------------
(***************************************************************************)
(* The loop of the encoding programs.                                      *)
(*                                                                         *)
(* What the frames accepted so far become is in the file, about to be      *)
(* written, or in the codec (Balance); the frame being sent counts once    *)
(* the codec has it (Taken).  Places says where the program may be with    *)
(* which buffer full, and how the call that runs or ran there ends.        *)
(***************************************************************************)

\* The packet to be written next.
Ready == IF at = "received" THEN packet ELSE buffer_pkt

\* What the codec has of the frame that expected does not count yet.
Taken == IF at = "sent" /\ buffer_frame = <<>> /\ ~(Idle /\ result.ret # "OK")
           THEN Visible(sending) ELSE <<>>

Balance == (out \o Ready) \o Visible(codec) = expected \o Taken

Places ==
  /\ at \in {"read", "send", "sent", "receive", "received", "done"}
  /\ at \in {"read", "send", "received", "done"} => buffer_pkt = <<>>
  /\ at \notin {"sent", "received"} => Idle
  /\ buffer_frame # <<>> => at = "sent" /\ ~Idle /\ buffer_frame = sending
  /\ at = "sent" => IF Idle
       THEN /\ result.of = "send" /\ result.ret \in {"OK", "ERR", "EINVAL"}
            /\ result.ret # "OK" => buffer_pkt = <<>>
            /\ result.ret = "EINVAL" => sending # <<>>
       ELSE call = "send"
  /\ at = "received" => IF Idle
       THEN /\ result.of = "receive" /\ result.ret \in {"OK", "EAGAIN", "EOF", "ERR"}
            /\ result.ret # "OK" => packet = <<>>
            /\ result.ret = "EOF" => draining_done
       ELSE call = "receive"

\* Draining begins with the NULL after the last frame; a program that looks
\* at the answers never asks a codec again that failed to drain.
Ending ==
  /\ draining => sending = <<>> /\ at \notin {"read", "send"}
  /\ sending = <<>> => draining \/ at \in {"read", "send"}
  /\ draining_done /\ program.looks
       => codec = <<>> \/ (Idle /\ result.ret = "ERR" /\ at # "receive")
  /\ at = "done" => sending = <<>> /\ (codec = <<>> \/ result.ret = "ERR")

LoopTypes ==
  /\ input \in Seq(Frame) /\ out \in Seq(Frame) /\ expected \in Seq(Frame)
  /\ sending = <<>> \/ \E f \in Frame : sending = <<f>>

LoopInv == PipeInv /\ LoopTypes /\ Places /\ Ending /\ Balance

-----------------------------------------------------------------------------
(* What a sequence of frames becomes.                                      *)

LEMMA VisibleSeqs ==
  /\ Visible(<<>>) = <<>>
  /\ \A s \in Seq(Frame) : Visible(s) \in Seq(Frame)
  /\ \A s, t \in Seq(Frame) : Visible(s \o t) = Visible(s) \o Visible(t)
  /\ \A f \in Frame : Visible(<<f>>) = IF f \in Skipped THEN <<>> ELSE <<f>>
<1>1. Visible(<<>>) = <<>>
  BY OmitEmpty DEF Visible
<1>2. ASSUME NEW s \in Seq(Frame) PROVE Visible(s) \in Seq(Frame)
  BY OmitType DEF Visible
<1>3. ASSUME NEW s \in Seq(Frame), NEW t \in Seq(Frame)
      PROVE  Visible(s \o t) = Visible(s) \o Visible(t)
  <2>1. Omit(s \o t, Skipped) = Omit(s, Skipped) \o Omit(t, Skipped)
    BY OmitConcat
  <2> QED
    BY <2>1 DEF Visible
<1>4. ASSUME NEW f \in Frame
      PROVE  Visible(<<f>>) = IF f \in Skipped THEN <<>> ELSE <<f>>
  <2>1. Omit(<<f>>, Skipped) = IF f \in Skipped THEN <<>> ELSE <<f>>
    BY OmitOne, Zenon
  <2> QED
    BY <2>1 DEF Visible
<1> QED
  BY <1>1, <1>2, <1>3, <1>4

\* What the oldest frames become moves from the codec to the output.
LEMMA OldestMoves ==
  \A o, s, t \in Seq(Frame) : (o \o Visible(s)) \o Visible(t) = o \o Visible(s \o t)
<1> SUFFICES ASSUME NEW o \in Seq(Frame), NEW s \in Seq(Frame), NEW t \in Seq(Frame)
             PROVE  (o \o Visible(s)) \o Visible(t) = o \o Visible(s \o t)
  OBVIOUS
<1>1. Visible(s) \in Seq(Frame) /\ Visible(t) \in Seq(Frame)
  BY VisibleSeqs
<1>2. \A a, b, c \in Seq(Frame) : (a \o b) \o c = a \o (b \o c)
  BY HeldSeqs
<1>3. (o \o Visible(s)) \o Visible(t) = o \o (Visible(s) \o Visible(t))
  BY <1>1, <1>2, Zenon
<1>4. Visible(s \o t) = Visible(s) \o Visible(t)
  BY VisibleSeqs
<1> QED
  BY <1>3, <1>4, Zenon

LEMMA LoopParts ==
  ASSUME LoopInv
  PROVE  /\ IInv /\ PacketInv /\ LoopTypes /\ Places /\ Ending /\ Balance
         /\ out \in Seq(Frame) /\ expected \in Seq(Frame) /\ sending \in Seq(Frame)
         /\ codec \in Seq(Frame) /\ buffer_frame \in Seq(Frame)
         /\ buffer_pkt \in Seq(Frame) /\ packet \in Seq(Frame) /\ Ready \in Seq(Frame)
         /\ Visible(codec) \in Seq(Frame) /\ Visible(sending) \in Seq(Frame)
<1>1. IInv /\ PacketInv /\ LoopTypes /\ Places /\ Ending /\ Balance
  BY DEF LoopInv, PipeInv
<1>2. out \in Seq(Frame) /\ expected \in Seq(Frame) /\ sending \in Seq(Frame)
  BY <1>1, FrameSeqs DEF LoopTypes
<1>3. /\ codec \in Seq(Frame) /\ buffer_frame \in Seq(Frame)
      /\ buffer_pkt \in Seq(Frame) /\ packet \in Seq(Frame)
  BY <1>1 DEF IInv, TypeOK
<1>4. Ready \in Seq(Frame)
  BY <1>3 DEF Ready
<1> QED
  BY <1>1, <1>2, <1>3, <1>4, VisibleSeqs

-----------------------------------------------------------------------------
(* The steps of a program.                                                 *)

\* Every one is a step of the encoder or leaves it alone.
LEMMA LoopEncodes == LoopInv /\ [LoopNext]_allVars => [Next]_vars
<1> SUFFICES ASSUME LoopInv, [LoopNext]_allVars PROVE [Next]_vars
  OBVIOUS
<1>1. CASE Send
  <2>1. sending # <<>> => sending[1] \in Frame
    BY LoopParts DEF LoopTypes
  <2> QED
    BY <1>1, <2>1 DEF Send, Next, Client
<1>2. CASE Receive \/ Encode
  BY <1>2 DEF Receive, Encode, Next, Client
<1>3. CASE Read \/ Sent \/ Received \/ Stopped
  <2>1. UNCHANGED encVars
    BY <1>3 DEF Read, Sent, Received, Stopped, allVars
  <2> QED
    BY <2>1 DEF encVars
<1>4. CASE UNCHANGED allVars
  BY <1>4 DEF allVars, encVars
<1> QED
  BY <1>1, <1>2, <1>3, <1>4 DEF LoopNext

LEMMA ReadStep ==
  ASSUME LoopInv, Read
  PROVE  LoopTypes' /\ Places' /\ Ending' /\ Balance'
<1>0. LoopTypes /\ Places /\ Ending /\ Balance
  BY LoopParts
<1>1. UNCHANGED vars /\ UNCHANGED <<program, out, expected>> /\ at = "read" /\ at' = "send"
  BY DEF Read, encVars
<1>2. LoopTypes'
  <2>1. CASE input = <<>>
    BY <1>0, <1>1, <2>1, FrameSeqs DEF Read, LoopTypes
  <2>2. CASE input # <<>>
    BY <1>0, <1>1, <2>2, FrameSeqs DEF Read, LoopTypes
  <2> QED
    BY <2>1, <2>2
<1>3. Places' /\ Ending'
  BY <1>0, <1>1 DEF Places, Ending, Idle, vars
<1>4. Balance'
  BY <1>0, <1>1 DEF Balance, Ready, Taken, Visible, vars
<1> QED
  BY <1>2, <1>3, <1>4

LEMMA SendStep ==
  ASSUME LoopInv, Send
  PROVE  LoopTypes' /\ Places' /\ Ending' /\ Balance'
<1>0. LoopTypes /\ Places /\ Ending /\ Balance /\ IInv /\ PacketInv
  BY LoopParts
<1>1. /\ at = "send" /\ at' = "sent" /\ UNCHANGED <<program, input, sending, out, expected>>
      /\ Idle /\ buffer_pkt = <<>> /\ buffer_frame = <<>> /\ ~draining /\ ~draining_done
  BY <1>0 DEF Send, Places, Ending, IInv, DrainOrder
<1>2. ~SendRefused
  BY <1>1 DEF SendRefused
<1>3. LoopTypes'
  BY <1>0, <1>1 DEF LoopTypes
<1>4. UNCHANGED <<codec, buffer_pkt, draining_done>> /\ ~draining_done'
  BY <1>1, <1>2 DEF Send, SendNull, SendFrame, SendInvalid
<1>5. CASE SendNull
  <2>1. sending = <<>>
    BY <1>1, <1>2, <1>5 DEF Send, SendNull, SendFrame, SendInvalid
  <2>2. draining' = TRUE /\ pc' = "encode" /\ call' = "send" /\ buffer_frame' = <<>>
    BY <1>1, <1>5 DEF SendNull, Enter
  <2>3. Places' /\ Ending'
    BY <1>1, <1>4, <2>1, <2>2 DEF Places, Ending, Idle
  <2>4. Taken = <<>> /\ Taken' = <<>> /\ Ready' = Ready /\ Visible(codec)' = Visible(codec)
    BY <1>1, <1>4, <2>1, <2>2, VisibleSeqs DEF Taken, Ready, Visible
  <2> QED
    BY <1>0, <1>1, <1>3, <2>3, <2>4 DEF Balance
<1>6. CASE sending # <<>>
  <2>1. PICK f \in Frame : sending = <<f>> /\ sending[1] = f
    BY <1>0, <1>6 DEF LoopTypes
  <2>2. CASE SendFrame(f)
    <3>1. pc' = "encode" /\ call' = "send" /\ buffer_frame' = sending /\ draining' = draining
      BY <1>1, <2>1, <2>2 DEF SendFrame, Enter
    <3>2. Places' /\ Ending'
      BY <1>1, <1>4, <1>6, <3>1 DEF Places, Ending, Idle
    <3>3. Taken = <<>> /\ Taken' = <<>> /\ Ready' = Ready /\ Visible(codec)' = Visible(codec)
      BY <1>1, <1>4, <1>6, <3>1 DEF Taken, Ready, Visible
    <3> QED
      BY <1>0, <1>1, <1>3, <3>2, <3>3 DEF Balance
  <2>3. CASE SendInvalid(f)
    <3>1. /\ pc' = "idle" /\ buffer_frame' = <<>> /\ draining' = draining
          /\ result' = [of |-> "send", ret |-> "EINVAL"]
      BY <1>1, <2>1, <2>3 DEF SendInvalid, Answer, Idle
    <3>2. Places' /\ Ending'
      BY <1>1, <1>4, <1>6, <3>1 DEF Places, Ending, Idle
    <3>3. Taken = <<>> /\ Taken' = <<>> /\ Ready' = Ready /\ Visible(codec)' = Visible(codec)
      BY <1>1, <1>4, <1>6, <3>1 DEF Taken, Ready, Visible, Idle
    <3> QED
      BY <1>0, <1>1, <1>3, <3>2, <3>3 DEF Balance
  <2> QED
    BY <1>2, <1>6, <2>1, <2>2, <2>3 DEF Send
<1> QED
  BY <1>2, <1>5, <1>6 DEF Send

LEMMA SentStep ==
  ASSUME LoopInv, Sent
  PROVE  LoopTypes' /\ Places' /\ Ending' /\ Balance'
<1>0. /\ LoopTypes /\ Places /\ Ending /\ Balance /\ IInv
      /\ expected \in Seq(Frame) /\ Visible(sending) \in Seq(Frame)
  BY LoopParts
<1>1. /\ UNCHANGED vars /\ UNCHANGED <<program, input, sending, out>>
      /\ at = "sent" /\ Idle /\ buffer_frame = <<>>
  BY <1>0 DEF Sent, encVars, Places
<1>2. CASE result.ret = "OK"
  <2>1. expected' = expected \o Visible(sending) /\ at' = "receive"
    BY <1>2 DEF Sent
  <2>2. expected' \in Seq(Frame) /\ expected' \o <<>> = expected'
    BY <1>0, <2>1, FrameSeqs, HeldSeqs
  <2>3. LoopTypes'
    BY <1>0, <1>1, <2>2 DEF LoopTypes
  <2>4. Places' /\ Ending'
    BY <1>0, <1>1, <1>2, <2>1 DEF Places, Ending, Idle, vars
  <2>5. /\ Taken = Visible(sending) /\ Taken' = <<>> /\ Ready' = Ready
        /\ Visible(codec)' = Visible(codec)
    BY <1>1, <1>2, <2>1 DEF Taken, Ready, Visible, Idle, vars
  <2> QED
    BY <1>0, <1>1, <2>1, <2>2, <2>3, <2>4, <2>5 DEF Balance
<1>3. CASE result.ret # "OK"
  <2>1. expected' = expected /\ at' = IF sending = <<>> THEN "done" ELSE "read"
    BY <1>3 DEF Sent, Back
  <2>2. LoopTypes'
    BY <1>0, <1>1, <2>1 DEF LoopTypes
  <2>3. Places' /\ Ending'
    BY <1>0, <1>1, <1>3, <2>1 DEF Places, Ending, Idle, vars
  <2>4. Taken = <<>> /\ Taken' = <<>> /\ Ready' = Ready /\ Visible(codec)' = Visible(codec)
    BY <1>1, <1>3, <2>1 DEF Taken, Ready, Visible, Idle, vars
  <2> QED
    BY <1>0, <1>1, <2>1, <2>2, <2>3, <2>4 DEF Balance
<1> QED
  BY <1>2, <1>3

LEMMA ReceiveStep ==
  ASSUME LoopInv, Receive
  PROVE  LoopTypes' /\ Places' /\ Ending' /\ Balance'
<1>0. LoopTypes /\ Places /\ Ending /\ Balance /\ IInv
  BY LoopParts
<1>1. /\ at = "receive" /\ at' = "received" /\ Idle /\ buffer_frame = <<>>
      /\ UNCHANGED <<program, input, sending, out, expected>>
  BY <1>0 DEF Receive, Places
<1>2. /\ packet' = buffer_pkt /\ buffer_pkt' = <<>>
      /\ UNCHANGED <<buffer_frame, codec, draining, draining_done>>
      /\ IF buffer_pkt # <<>> THEN pc' = pc /\ result' = [of |-> "receive", ret |-> "OK"]
                              ELSE pc' = "encode" /\ call' = "receive"
  BY DEF Receive, ReceivePacket, Answer, Enter
<1>3. LoopTypes'
  BY <1>0, <1>1 DEF LoopTypes
<1>4. Places' /\ Ending'
  BY <1>0, <1>1, <1>2 DEF Places, Ending, Idle
<1>5. Taken = <<>> /\ Taken' = <<>> /\ Ready' = Ready /\ Visible(codec)' = Visible(codec)
  BY <1>1, <1>2 DEF Taken, Ready, Visible
<1> QED
  BY <1>0, <1>1, <1>3, <1>4, <1>5 DEF Balance

LEMMA ReceivedStep ==
  ASSUME LoopInv, Received
  PROVE  LoopTypes' /\ Places' /\ Ending' /\ Balance'
<1>0. /\ LoopTypes /\ Places /\ Ending /\ Balance /\ IInv
      /\ out \in Seq(Frame) /\ packet \in Seq(Frame)
  BY LoopParts
<1>1. /\ UNCHANGED vars /\ UNCHANGED <<program, input, sending, expected>>
      /\ at = "received" /\ Idle /\ buffer_frame = <<>> /\ buffer_pkt = <<>>
      /\ out' = out \o packet
      /\ at' = IF result.ret = "OK" \/ ~program.looks THEN "receive"
               ELSE IF sending = <<>> THEN "done" ELSE "read"
  BY <1>0 DEF Received, encVars, Places, Back
<1>2. out' \in Seq(Frame) /\ out' \o <<>> = out'
  BY <1>0, <1>1, FrameSeqs, HeldSeqs
<1>3. LoopTypes'
  BY <1>0, <1>1, <1>2 DEF LoopTypes
<1>4. at' = "done" => codec = <<>> \/ result.ret = "ERR"
  <2> SUFFICES ASSUME at' = "done" PROVE codec = <<>> \/ result.ret = "ERR"
    OBVIOUS
  <2>1. program.looks /\ sending = <<>> /\ draining /\ result.ret # "OK"
    BY <1>0, <1>1 DEF Ending
  <2>2. result.ret # "EAGAIN"
    <3> SUFFICES ASSUME result.ret = "EAGAIN" PROVE FALSE
      OBVIOUS
    <3>1. result = [of |-> "receive", ret |-> "EAGAIN"]
      BY <1>0, <1>1 DEF Places, IInv, TypeOK
    <3> QED
      BY <1>0, <1>1, <2>1, <3>1 DEF IInv, HungryMeansAccepting, Accepting
  <2> QED
    BY <1>0, <1>1, <2>1, <2>2 DEF Places, Ending
<1>5. Places' /\ Ending'
  BY <1>0, <1>1, <1>4 DEF Places, Ending, Idle, vars
<1>6. /\ Taken = <<>> /\ Taken' = <<>> /\ Ready = packet /\ Ready' = <<>>
      /\ Visible(codec)' = Visible(codec)
  BY <1>1 DEF Taken, Ready, Visible, vars
<1> QED
  BY <1>0, <1>1, <1>2, <1>3, <1>5, <1>6 DEF Balance

-----------------------------------------------------------------------------
(* The steps of the encoder while a program waits for it.                  *)

\* What Taken is once the codec has looked at the frame.
Given == IF at = "sent" THEN Visible(sending) ELSE <<>>

LEMMA Running ==
  ASSUME LoopInv, pc = "encode"
  PROVE  /\ (at = "sent" /\ call = "send") \/ (at = "received" /\ call = "receive")
         /\ Ready = <<>> /\ buffer_pkt = <<>>
         /\ buffer_frame # <<>> => at = "sent" /\ buffer_frame = sending /\ Taken = <<>>
         /\ buffer_frame = <<>> => Taken = Given
         /\ draining => buffer_frame = <<>> /\ Given = <<>>
         /\ out \o Visible(codec) = expected \o Taken
<1>1. /\ IInv /\ PacketInv /\ Places /\ Ending /\ Balance /\ out \in Seq(Frame)
  BY LoopParts
<1>2. /\ (at = "sent" /\ call = "send") \/ (at = "received" /\ call = "receive")
      /\ buffer_pkt = <<>>
  BY <1>1 DEF Places, Idle, IInv, CallShape
<1>3. Ready = <<>>
  BY <1>1, <1>2 DEF Ready, PacketInv
<1>4. buffer_frame # <<>> => at = "sent" /\ buffer_frame = sending /\ Taken = <<>>
  BY <1>1 DEF Places, Taken
<1>5. buffer_frame = <<>> => Taken = Given
  BY DEF Taken, Given, Idle
<1>6. draining => buffer_frame = <<>> /\ Given = <<>>
  BY <1>1, VisibleSeqs DEF IInv, DrainOrder, Ending, Given
<1>7. out \o Visible(codec) = expected \o Taken
  BY <1>1, <1>3, HeldSeqs DEF Balance
<1> QED
  BY <1>2, <1>3, <1>4, <1>5, <1>6, <1>7

\* The call goes on.
LEMMA GoesOn ==
  ASSUME LoopInv, pc = "encode", pc' = pc, UNCHANGED loopVars, buffer_frame' = <<>>,
         UNCHANGED <<buffer_pkt, packet, call, result, draining>>,
         draining_done' => codec' = <<>>
  PROVE  LoopTypes' /\ Places' /\ Ending' /\ Ready' = <<>> /\ Taken' = Given
<1>1. LoopTypes /\ Places /\ Ending
  BY LoopParts
<1>2. LoopTypes'
  BY <1>1 DEF LoopTypes, loopVars
<1>3. Places' /\ Ending'
  BY <1>1, Running DEF Places, Ending, Idle, loopVars
<1>4. Ready' = <<>> /\ Taken' = Given
  BY Running DEF Ready, Taken, Given, Idle, Visible, loopVars
<1> QED
  BY <1>2, <1>3, <1>4

\* The call ends.
LEMMA EndsWith ==
  ASSUME LoopInv, pc = "encode", UNCHANGED loopVars, buffer_frame' = <<>>,
         NEW p, NEW ret \in {"OK", "EAGAIN", "EOF", "ERR"}, Return(ret, p),
         ret # "OK" => p = <<>>, UNCHANGED draining,
         ret = "EOF" => draining_done',
         draining_done' /\ program.looks => codec' = <<>> \/ ret = "ERR"
  PROVE  LoopTypes' /\ Places' /\ Ending' /\ Ready' = p
         /\ Taken' = IF ret = "ERR" THEN <<>> ELSE Given
<1>1. LoopTypes /\ Places /\ Ending
  BY LoopParts
<1>2. LoopTypes'
  BY <1>1 DEF LoopTypes, loopVars
<1>3. pc' = "idle" /\ UNCHANGED <<program, sending, at>>
  BY DEF Return, loopVars
<1>4. CASE at = "sent"
  <2>1. /\ buffer_pkt' = p
        /\ result' = [of |-> "send",
                      ret |-> IF ret \in {"EAGAIN", "EOF"} THEN "OK" ELSE ret]
    BY <1>4, Running DEF Return
  <2>2. Places'
    BY <1>3, <1>4, <2>1 DEF Places, Idle
  <2>3. Ending'
    BY <1>1, <1>3, <1>4, <2>1 DEF Ending, Idle
  <2>4. Ready' = p /\ Taken' = IF ret = "ERR" THEN <<>> ELSE Given
    BY <1>3, <1>4, <2>1 DEF Ready, Taken, Given, Idle, Visible
  <2> QED
    BY <1>2, <2>2, <2>3, <2>4
<1>5. CASE at = "received"
  <2>1. /\ buffer_pkt' = <<>> /\ packet' = p
        /\ result' = [of |-> "receive", ret |-> ret]
    BY <1>5, Running DEF Return
  <2>2. Places'
    BY <1>3, <1>5, <2>1 DEF Places, Idle
  <2>3. Ending'
    BY <1>1, <1>3, <1>5, <2>1 DEF Ending, Idle
  <2>4. Ready' = p /\ Taken' = IF ret = "ERR" THEN <<>> ELSE Given
    BY <1>3, <1>5, <2>1 DEF Ready, Taken, Given, Idle, Visible
  <2> QED
    BY <1>2, <2>2, <2>3, <2>4
<1> QED
  BY <1>4, <1>5, Running

\* The codec gives up the oldest of the frames it held.
LEMMA OutputStep ==
  ASSUME LoopInv, pc = "encode", UNCHANGED loopVars, buffer_frame' = <<>>,
         NEW held \in Seq(Frame), held # <<>>, Output(held),
         UNCHANGED <<draining, draining_done>>, ~draining_done,
         out \o Visible(held) = expected \o Given
  PROVE  LoopTypes' /\ Places' /\ Ending' /\ Balance'
<1>1. PICK f \in Frame : f = Head(held)
  BY FrameSeqs
<1> DEFINE t == Tail(held)
<1>2. held = <<f>> \o t /\ t \in Seq(Frame) /\ <<f>> \in Seq(Frame) /\ codec' = t
  BY <1>1, FrameSeqs, HeldSeqs DEF Output
<1>3. LoopTypes' /\ Places' /\ Ending' /\ Taken' = Given /\ Ready' = Visible(<<f>>)
  <2>1. CASE f \in Skipped
    <3>1. UNCHANGED <<buffer_pkt, packet, pc, call, result>>
      BY <1>1, <2>1 DEF Output
    <3>2. Visible(<<f>>) = <<>>
      BY <2>1, VisibleSeqs
    <3> QED
      BY <3>1, <3>2, GoesOn
  <2>2. CASE f \notin Skipped
    <3>1. Return("OK", <<f>>)
      BY <1>1, <2>2 DEF Output
    <3>2. Visible(<<f>>) = <<f>>
      BY <2>2, VisibleSeqs
    <3>3. LoopTypes' /\ Places' /\ Ending' /\ Ready' = <<f>> /\ Taken' = Given
      BY <3>1, EndsWith
    <3> QED
      BY <3>2, <3>3
  <2> QED
    BY <2>1, <2>2
<1>4. (out \o Visible(<<f>>)) \o Visible(t) = out \o Visible(<<f>> \o t)
  <2> DEFINE Moves(o, r, q) == (o \o Visible(r)) \o Visible(q) = o \o Visible(r \o q)
  <2>1. \A o, r, q \in Seq(Frame) : Moves(o, r, q)
    BY OldestMoves, Zenon
  <2>2. out \in Seq(Frame)
    BY LoopParts
  <2> HIDE DEF Moves
  <2>3. Moves(out, <<f>>, t)
    BY <1>2, <2>1, <2>2
  <2> QED
    BY <2>3, Zenon DEF Moves
<1>5. UNCHANGED <<out, expected>> /\ Visible(codec)' = Visible(t)
  BY <1>2 DEF loopVars, Visible
<1> QED
  BY <1>2, <1>3, <1>4, <1>5 DEF Balance

LEMMA EncodeStep ==
  ASSUME LoopInv, Encode
  PROVE  LoopTypes' /\ Places' /\ Ending' /\ Balance'
<1>0. /\ IInv /\ PacketInv /\ Places /\ Ending /\ out \in Seq(Frame)
      /\ codec \in Seq(Frame) /\ sending \in Seq(Frame) /\ expected \in Seq(Frame)
      /\ Visible(codec) \in Seq(Frame)
  BY LoopParts
<1>1. UNCHANGED loopVars /\ UNCHANGED <<program, out, expected, at, sending>>
  BY DEF Encode, loopVars
<1>2. pc = "encode" /\ UNCHANGED draining
  BY DEF Encode, Library, EncodeHungry, EncodeFrame, EncodeError, EncodeEof, DrainSkips,
         DrainPacket, DrainEnd, DrainError, Draining
<1>3. CASE EncodeHungry
  <2>1. /\ Return("EAGAIN", <<>>) /\ buffer_frame = <<>> /\ buffer_frame' = <<>>
        /\ UNCHANGED codec /\ ~draining_done'
    BY <1>0, <1>3 DEF EncodeHungry, IInv, DrainOrder
  <2>2. LoopTypes' /\ Places' /\ Ending' /\ Ready' = <<>> /\ Taken' = Given
    BY <1>1, <1>2, <2>1, EndsWith
  <2> QED
    BY <1>0, <1>1, <1>2, <2>1, <2>2, Running, HeldSeqs DEF Balance, Visible
<1>4. CASE EncodeFrame
  <2> DEFINE held == codec \o buffer_frame
  <2>1. /\ buffer_frame # <<>> /\ buffer_frame' = <<>> /\ ~draining_done
        /\ UNCHANGED draining_done
        /\ at = "sent" /\ buffer_frame = sending /\ Taken = <<>>
        /\ out \o Visible(codec) = expected \o <<>>
    BY <1>0, <1>2, <1>4, Running DEF EncodeFrame, IInv, DrainOrder
  <2>2. held \in Seq(Frame) /\ held # <<>>
    BY <1>0, <2>1, FrameSeqs, HeldSeqs
  <2>3. out \o Visible(held) = expected \o Given
    <3> DEFINE Moves(o, r, q) == (o \o Visible(r)) \o Visible(q) = o \o Visible(r \o q)
    <3>1. \A o, r, q \in Seq(Frame) : Moves(o, r, q)
      BY OldestMoves, Zenon
    <3> HIDE DEF Moves
    <3>2. Moves(out, codec, sending)
      BY <1>0, <3>1
    <3>3. (out \o Visible(codec)) \o Visible(sending) = out \o Visible(codec \o sending)
      BY <3>2, Zenon DEF Moves
    <3>4. out \o Visible(codec) = expected
      BY <1>0, <2>1, HeldSeqs
    <3> QED
      BY <2>1, <3>3, <3>4 DEF Given
  <2> HIDE DEF held
  <2>4. CASE Output(held)
    BY <1>1, <1>2, <2>1, <2>2, <2>3, <2>4, OutputStep
  <2>5. CASE codec' = held /\ UNCHANGED <<buffer_pkt, packet, pc, call, result>>
    <3>1. LoopTypes' /\ Places' /\ Ending' /\ Ready' = <<>> /\ Taken' = Given
      BY <1>1, <1>2, <2>1, <2>5, GoesOn
    <3>2. Visible(codec)' = Visible(held) /\ out \o <<>> = out
      BY <1>0, <2>5, HeldSeqs DEF Visible
    <3> QED
      BY <1>1, <2>3, <3>1, <3>2 DEF Balance
  <2> QED
    BY <1>4, <2>4, <2>5 DEF EncodeFrame, held
<1>5. CASE EncodeError
  <2>1. /\ Return("ERR", <<>>) /\ buffer_frame # <<>> /\ buffer_frame' = <<>>
        /\ UNCHANGED codec
    BY <1>5 DEF EncodeError
  <2>2. LoopTypes' /\ Places' /\ Ending' /\ Ready' = <<>> /\ Taken' = <<>>
    BY <1>1, <1>2, <2>1, EndsWith
  <2> QED
    BY <1>0, <1>1, <1>2, <2>1, <2>2, Running, HeldSeqs DEF Balance, Visible
<1>6. CASE EncodeEof
  <2>1. /\ Return("EOF", <<>>) /\ draining /\ buffer_frame' = buffer_frame
        /\ UNCHANGED codec /\ draining_done'
    BY <1>6 DEF EncodeEof
  <2>2. program.looks => codec = <<>>
    BY <1>0, <1>2, <1>6, FrameSeqs DEF EncodeEof, Ending, Idle, IInv, TypeOK
  <2>3. buffer_frame = <<>>
    BY <1>2, <2>1, Running
  <2>4. LoopTypes' /\ Places' /\ Ending' /\ Ready' = <<>> /\ Taken' = Given
    BY <1>1, <1>2, <2>1, <2>2, <2>3, EndsWith
  <2> QED
    BY <1>0, <1>1, <1>2, <2>1, <2>3, <2>4, Running, HeldSeqs DEF Balance, Visible
<1>7. CASE DrainSkips \/ DrainPacket
  <2>1. /\ Output(codec) /\ codec # <<>> /\ draining /\ buffer_frame' = buffer_frame
        /\ ~draining_done /\ UNCHANGED draining_done
    BY <1>7 DEF DrainSkips, DrainPacket, Draining, Output
  <2>2. buffer_frame = <<>> /\ out \o Visible(codec) = expected \o Given
    BY <1>2, <2>1, Running
  <2> QED
    BY <1>0, <1>1, <1>2, <2>1, <2>2, OutputStep
<1>8. CASE DrainEnd
  <2>1. /\ codec = <<>> /\ codec' = <<>> /\ draining /\ buffer_frame' = buffer_frame
        /\ UNCHANGED <<buffer_pkt, packet, pc, call, result>>
    BY <1>8 DEF DrainEnd, Draining
  <2>2. buffer_frame = <<>>
    BY <1>2, <2>1, Running
  <2>3. LoopTypes' /\ Places' /\ Ending' /\ Ready' = <<>> /\ Taken' = Given
    BY <1>1, <1>2, <2>1, <2>2, GoesOn
  <2> QED
    BY <1>0, <1>1, <1>2, <2>1, <2>2, <2>3, Running, HeldSeqs DEF Balance, Visible
<1>9. CASE DrainError
  <2>1. /\ Return("ERR", <<>>) /\ draining /\ buffer_frame' = buffer_frame
        /\ UNCHANGED codec
    BY <1>9 DEF DrainError, Draining
  <2>2. buffer_frame = <<>> /\ Taken = <<>>
    BY <1>2, <2>1, Running
  <2>3. LoopTypes' /\ Places' /\ Ending' /\ Ready' = <<>> /\ Taken' = <<>>
    BY <1>1, <1>2, <2>1, <2>2, EndsWith
  <2> QED
    BY <1>0, <1>1, <1>2, <2>1, <2>2, <2>3, Running, HeldSeqs DEF Balance, Visible
<1> QED
  BY <1>3, <1>4, <1>5, <1>6, <1>7, <1>8, <1>9 DEF Encode, Library

-----------------------------------------------------------------------------
LEMMA LoopStep == LoopInv /\ [LoopNext]_allVars => LoopInv'
<1> SUFFICES ASSUME LoopInv, [LoopNext]_allVars PROVE LoopInv'
  OBVIOUS
<1>1. PipeInv'
  <2>1. PipeInv
    BY DEF LoopInv
  <2> QED
    BY <2>1, LoopEncodes, IInvStep, PacketInvStep DEF PipeInv
<1>2. LoopTypes' /\ Places' /\ Ending' /\ Balance'
  <2>1. CASE Stopped \/ UNCHANGED allVars
    <3>1. UNCHANGED vars /\ UNCHANGED loopVars
      BY <2>1 DEF Stopped, allVars, encVars
    <3> QED
      BY <3>1, LoopParts DEF vars, loopVars, LoopTypes, Places, Ending, Idle, Balance,
         Ready, Taken, Visible
  <2> QED
    BY <2>1, ReadStep, SendStep, SentStep, ReceiveStep, ReceivedStep, EncodeStep DEF LoopNext
<1> QED
  BY <1>1, <1>2 DEF LoopInv

LEMMA LoopStart == LoopInit => LoopInv
<1> SUFFICES ASSUME LoopInit PROVE LoopInv
  OBVIOUS
<1>1. Init /\ sending = <<>> /\ at = "read" /\ out = <<>> /\ expected = <<>>
  BY DEF LoopInit
<1>2. PipeInv
  BY <1>1, IInvInit, PacketInvInit DEF PipeInv
<1>3. input \in Seq(Frame)
  <2> DEFINE F == IF program.describes THEN Frame \ Unfit ELSE Unfit
  <2>1. PICK n \in 0 .. InputLen : input \in [1 .. n -> F]
    BY DEF LoopInit
  <2>2. n \in Nat
    BY InputLenAssumption
  <2>3. F \subseteq Frame
    BY FrameAssumption
  <2> HIDE DEF F
  <2>4. input \in [1 .. n -> Frame]
    BY <2>1, <2>3
  <2> QED
    BY <2>2, <2>4, IsASeq
<1>4. LoopTypes
  BY <1>1, <1>3, FrameSeqs DEF LoopTypes
<1>5. /\ buffer_frame = <<>> /\ codec = <<>> /\ buffer_pkt = <<>> /\ ~draining
      /\ ~draining_done /\ pc = "idle"
  BY <1>1 DEF Init
<1>6. Places /\ Ending
  BY <1>1, <1>5 DEF Places, Ending, Idle
<1>7. Balance
  BY <1>1, <1>5, VisibleSeqs DEF Balance, Ready, Taken
<1> QED
  BY <1>2, <1>4, <1>6, <1>7 DEF LoopInv

LEMMA LoopCorrect == LoopSpec => []LoopInv
BY LoopStart, LoopStep, PTL DEF LoopSpec

-----------------------------------------------------------------------------
\* CompleteOutput: a program that ends has written a packet for every frame
\* the encoder took, once and in order, but for what a codec that failed to
\* drain still holds (encodeAudioDemo.c 10-34, 107-122).
THEOREM EncodeLoopCompleteCorrect == LoopSpec => []CompleteOutput
<1>1. LoopInv => CompleteOutput
  <2> SUFFICES ASSUME LoopInv, at = "done"
               PROVE  out \o Visible(codec) = expected /\ (codec = <<>> \/ result.ret = "ERR")
    BY DEF CompleteOutput
  <2>1. Places /\ Ending /\ Balance /\ out \in Seq(Frame) /\ expected \in Seq(Frame)
    BY LoopParts
  <2>2. Ready = <<>> /\ Taken = <<>>
    BY <2>1 DEF Places, Ready, Taken
  <2> QED
    BY <2>1, <2>2, HeldSeqs DEF Balance, Ending
<1> QED
  BY <1>1, LoopCorrect, PTL

\* SamplesFree: when the program reads into the buffers of its one frame the
\* encoder has no reference to them left.
THEOREM SamplesFreeCorrect == LoopSpec => []SamplesFree
<1>1. LoopInv => SamplesFree
  BY DEF LoopInv, Places, SamplesFree
<1> QED
  BY <1>1, LoopCorrect, PTL
=============================================================================
