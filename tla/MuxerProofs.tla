---------------------------- MODULE MuxerProofs ----------------------------
(***************************************************************************)
(* Proofs about the interleaving muxer and the remuxer that drives it: for *)
(* any number of streams, time bases, limit and packets, the list and its  *)
(* pointers are sound, every packet is in one place, the file is           *)
(* interleaved, and a remux copies its input.                              *)
(*                                                                         *)
(* What the client sends matters for the order only.  The check of the     *)
(* library (compute_muxer_pkt_fields) lets a dts go back after a dts of 0, *)
(* so the theorems on order take the client's contract, NeverBack, as a    *)
(* hypothesis; GrowingCorrect says for which dts the check implies it.     *)
(*                                                                         *)
(* The last sections are about what the remuxer and the other programs     *)
(* acquire and release around their loops (module Lifecycle): a discipline *)
(* their tables keep to, and what follows from it for every sequence of     *)
(* failures.                                                               *)
(***************************************************************************)
EXTENDS Remux, Lifecycle, SelectionProofs, FiniteSetTheorems, TLAPS

\* The client's contract (avformat.h 2574-2576): no dts of a stream is
\* smaller than the one before it.
NeverBack == \A s \in Stream : cur_dts[s] \in Int => cur_dts[s] <= cur_dts'[s]

-----------------------------------------------------------------------------
(* The inductive invariants.                                               *)

TypeOK ==
  /\ packet_buffer \in Seq(Entry) /\ written \in Seq(Entry)
  /\ last \in [Stream -> Nat]
  /\ cur_dts \in [Stream -> Int \cup {NoDts}]
  /\ mpc \in {"idle", "write", "flush", "trailer", "done"}
  /\ ret \in {"OK", "EINVAL", "EIO"}
  /\ lost \subseteq Entry /\ IsFiniteSet(lost)
  /\ forced \in BOOLEAN /\ nb_accepted \in Nat

\* The file, and behind it what waits to be put there.
All == written \o packet_buffer

InOrder(q) == \A i, j \in 1 .. Len(q) :
                i < j /\ q[i].stream = q[j].stream => q[i].id < q[j].id

\* Ids are given once.
Unique(q) == \A i, j \in 1 .. Len(q) : q[i].id = q[j].id => i = j

Numbered(q) ==
  /\ \A i \in 1 .. Len(q) : q[i].id \in 1 .. nb_accepted
  /\ \A e \in lost : e.id \in 1 .. nb_accepted
  /\ \A i \in 1 .. Len(q), e \in lost : q[i].id # e.id
  /\ \A n \in 1 .. nb_accepted :
       (\E i \in 1 .. Len(q) : q[i].id = n) \/ (\E e \in lost : e.id = n)

\* The pointer of s names its last entry, which holds the current dts.
Pointer(s) ==
  \/ last[s] = 0 /\ \A i \in 1 .. Len(packet_buffer) : packet_buffer[i].stream # s
  \/ \E i \in 1 .. Len(packet_buffer) :
       /\ packet_buffer[i].stream = s /\ packet_buffer[i].id = last[s]
       /\ packet_buffer[i].dts = cur_dts[s]
       /\ \A j \in 1 .. Len(packet_buffer) : packet_buffer[j].stream = s => j <= i

\* What holds whatever the client sends.
Books == /\ TypeOK
         /\ InOrder(All) /\ Unique(All) /\ Numbered(All)
         /\ Len(All) + Cardinality(lost) = nb_accepted
         /\ \A s \in Stream : Pointer(s)

\* The packet of s accepted last, for comparisons.
Latest(s) == [id |-> 0, stream |-> s, dts |-> cur_dts[s]]

\* Nothing in the file has to come after a packet that is still to be sent.
Settled == \A s \in Stream : cur_dts[s] \in Int /\
             \A i \in 1 .. Len(written) : ~After(written[i], Latest(s))

\* What holds when no dts goes back.
Timely ==
  /\ Sorted(packet_buffer)
  /\ ~forced => Sorted(All)
  /\ ~forced /\ mpc \notin {"trailer", "done"} /\ written # <<>> => Settled
  /\ NothingWithheld

-----------------------------------------------------------------------------
(* Order of packets.                                                       *)

\* Ticks keep the order of dts.
LEMMA TimeGrows ==
  ASSUME NEW k \in Nat, NEW a \in Int, NEW b \in Int, a <= b
  PROVE  k * a <= k * b
BY SMT

LEMMA TimeType == \A e \in Entry : Time(e) \in Int /\ e.stream \in Int
BY TimeAssumption DEF Time, Entry, Stream

LEMMA AfterByTime ==
  ASSUME NEW a, NEW b
  PROVE  After(a, b) <=> \/ Time(a) > Time(b)
                         \/ Time(a) = Time(b) /\ b.stream < a.stream
BY DEF After, Time

LEMMA AfterOneWay ==
  ASSUME NEW a \in Entry, NEW b \in Entry, After(a, b)
  PROVE  ~After(b, a)
BY TimeType, AfterByTime

LEMMA NotAfterChain ==
  ASSUME NEW a \in Entry, NEW b \in Entry, NEW c \in Entry,
         ~After(a, b), ~After(b, c)
  PROVE  ~After(a, c)
BY TimeType, AfterByTime

\* Packets of one stream with growing dts are in order.
LEMMA SameStreamOrder ==
  ASSUME NEW a \in Entry, NEW b \in Entry, a.stream = b.stream, a.dts <= b.dts
  PROVE  ~After(a, b)
<1>1. TimeBase[a.stream] \in Nat /\ a.dts \in Int /\ b.dts \in Int
  BY TimeAssumption DEF Entry
<1>2. Time(a) <= Time(b)
  BY <1>1, TimeGrows DEF Time
<1> QED
  BY <1>2, TimeType, AfterByTime

\* Only the stream and the dts of a packet decide its place.
LEMMA AfterLike ==
  ASSUME NEW a, NEW b, NEW c, b.stream = c.stream, b.dts = c.dts
  PROVE  After(a, b) <=> After(a, c)
BY DEF After

-----------------------------------------------------------------------------
(* Sequences: one more packet, one less.                                   *)

LEMMA SameSeq ==
  ASSUME NEW q \in Seq(Entry), NEW r \in Seq(Entry), Len(q) = Len(r),
         \A i \in 1 .. Len(q) : q[i] = r[i]
  PROVE  q = r
OBVIOUS

LEMMA InsertIs ==
  ASSUME NEW q \in Seq(Entry), NEW k \in 1 .. Len(q) + 1, NEW e \in Entry
  PROVE  /\ Insert(q, k, e) \in Seq(Entry)
         /\ Len(Insert(q, k, e)) = Len(q) + 1
         /\ \A i \in 1 .. Len(q) + 1 :
              Insert(q, k, e)[i] = IF i < k THEN q[i]
                                   ELSE IF i = k THEN e ELSE q[i - 1]
<1>1. /\ SubSeq(q, 1, k - 1) \in Seq(Entry) /\ Len(SubSeq(q, 1, k - 1)) = k - 1
      /\ \A i \in 1 .. k - 1 : SubSeq(q, 1, k - 1)[i] = q[i]
  OBVIOUS
<1>2. /\ SubSeq(q, k, Len(q)) \in Seq(Entry)
      /\ Len(SubSeq(q, k, Len(q))) = Len(q) + 1 - k
      /\ \A i \in 1 .. Len(q) + 1 - k : SubSeq(q, k, Len(q))[i] = q[k + i - 1]
  OBVIOUS
<1>3. /\ <<e>> \in Seq(Entry) /\ Len(<<e>>) = 1 /\ <<e>>[1] = e
  OBVIOUS
<1> DEFINE front == SubSeq(q, 1, k - 1)
           back  == SubSeq(q, k, Len(q))
<1> HIDE DEF front, back
<1> DEFINE mid == front \o <<e>>
<1>4. /\ mid \in Seq(Entry) /\ Len(mid) = k
      /\ \A i \in 1 .. k - 1 : mid[i] = q[i]
      /\ mid[k] = e
  BY <1>1, <1>3 DEF front
<1>5. /\ back \in Seq(Entry) /\ Len(back) = Len(q) + 1 - k
      /\ \A i \in 1 .. Len(q) + 1 - k : back[i] = q[k + i - 1]
  BY <1>2 DEF back
<1>6. Insert(q, k, e) = mid \o back
  BY DEF Insert, front, back
<1> HIDE DEF mid
<1>7. Insert(q, k, e) \in Seq(Entry) /\ Len(Insert(q, k, e)) = Len(q) + 1
  <2>1. mid \o back \in Seq(Entry) /\ Len(mid \o back) = Len(mid) + Len(back)
    <3>1. mid \in Seq(Entry) /\ back \in Seq(Entry)
      BY <1>4, <1>5
    <3>2. \A a, b \in Seq(Entry) : a \o b \in Seq(Entry) /\ Len(a \o b) = Len(a) + Len(b)
      OBVIOUS
    <3> QED
      BY <3>1, <3>2, Zenon
  <2>2. Len(mid) + Len(back) = Len(q) + 1
    <3>1. Len(q) \in Nat /\ k \in Int
      OBVIOUS
    <3> QED
      BY <1>4, <1>5, <3>1
  <2> QED
    BY <1>6, <2>1, <2>2
<1>8. ASSUME NEW i \in 1 .. Len(q) + 1
      PROVE  Insert(q, k, e)[i] = IF i < k THEN q[i]
                                  ELSE IF i = k THEN e ELSE q[i - 1]
  <2>1. CASE i <= k
    <3>1. Insert(q, k, e)[i] = mid[i]
      BY <1>4, <1>5, <1>6, <2>1
    <3> QED
      BY <1>4, <2>1, <3>1
  <2>2. CASE i > k
    <3>1. Insert(q, k, e)[i] = back[i - k] /\ i - k \in 1 .. Len(q) + 1 - k
      BY <1>4, <1>5, <1>6, <2>2
    <3>2. back[i - k] = q[k + (i - k) - 1]
      BY <1>5, <3>1
    <3> QED
      BY <2>2, <3>1, <3>2
  <2> QED
    BY <2>1, <2>2
<1> QED
  BY <1>7, <1>8

LEMMA InsertKeeps ==
  ASSUME NEW q \in Seq(Entry), NEW k \in 1 .. Len(q) + 1, NEW e \in Entry
  PROVE  /\ \A i \in 1 .. k - 1 : Insert(q, k, e)[i] = q[i]
         /\ Insert(q, k, e)[k] = e
         /\ \A i \in k .. Len(q) : Insert(q, k, e)[i + 1] = q[i]
<1>1. Len(q) \in Nat
  OBVIOUS
<1>2. \A i \in 1 .. Len(q) + 1 :
        Insert(q, k, e)[i] = IF i < k THEN q[i]
                             ELSE IF i = k THEN e ELSE q[i - 1]
  BY SMTT(60), InsertIs
<1>3. ASSUME NEW i \in 1 .. k - 1 PROVE Insert(q, k, e)[i] = q[i]
  <2>1. i \in 1 .. Len(q) + 1 /\ i < k
    BY <1>1
  <2> QED
    BY <1>2, <2>1, Zenon
<1>4. Insert(q, k, e)[k] = e
  <2>1. ~(k < k)
    BY <1>1
  <2> QED
    BY <1>2, <2>1, Zenon
<1>5. ASSUME NEW i \in k .. Len(q) PROVE Insert(q, k, e)[i + 1] = q[i]
  <2>1. i + 1 \in 1 .. Len(q) + 1 /\ ~(i + 1 < k) /\ i + 1 # k /\ (i + 1) - 1 = i
    BY <1>1
  <2>2. Insert(q, k, e)[i + 1] = q[(i + 1) - 1]
    BY <1>2, <2>1, Zenon
  <2> QED
    BY <2>1, <2>2
<1> QED
  BY <1>3, <1>4, <1>5

LEMMA InsertBehind ==
  ASSUME NEW p \in Seq(Entry), NEW q \in Seq(Entry),
         NEW k \in 1 .. Len(q) + 1, NEW e \in Entry
  PROVE  p \o Insert(q, k, e) = Insert(p \o q, Len(p) + k, e)
<1> DEFINE new == Insert(q, k, e)
           both == p \o q
           m == Len(p) + k
           res == Insert(both, m, e)
<1>1. /\ new \in Seq(Entry)
      /\ Len(new) = Len(q) + 1
      /\ \A i \in 1 .. Len(q) + 1 :
           new[i] = IF i < k THEN q[i] ELSE IF i = k THEN e ELSE q[i - 1]
  BY SMTT(60), InsertIs
<1>2. /\ both \in Seq(Entry) /\ Len(both) = Len(p) + Len(q)
      /\ m \in 1 .. Len(both) + 1
      /\ \A i \in 1 .. Len(p) : both[i] = p[i]
      /\ \A i \in Len(p) + 1 .. Len(p) + Len(q) : both[i] = q[i - Len(p)]
  OBVIOUS
<1> HIDE DEF new, both
<1>3. /\ res \in Seq(Entry)
      /\ Len(res) = Len(both) + 1
      /\ \A i \in 1 .. Len(both) + 1 :
           res[i] = IF i < m THEN both[i] ELSE IF i = m THEN e ELSE both[i - 1]
  BY ZenonT(40), <1>2, InsertIs
<1> HIDE DEF res
<1>4. /\ p \o new \in Seq(Entry)
      /\ Len(p \o new) = Len(p) + Len(q) + 1
      /\ \A i \in 1 .. Len(p) : (p \o new)[i] = p[i]
      /\ \A i \in Len(p) + 1 .. Len(p) + Len(q) + 1 : (p \o new)[i] = new[i - Len(p)]
  BY <1>1
<1> DEFINE left == p \o new
<1> HIDE DEF left
<1>5. ASSUME NEW i \in 1 .. Len(p) + Len(q) + 1
      PROVE  left[i] = res[i]
  <2>1. CASE i <= Len(p)
    BY <1>2, <1>3, <1>4, <2>1 DEF left
  <2>2. CASE i > Len(p)
    <3>0. i - Len(p) \in 1 .. Len(q) + 1 /\ i = Len(p) + (i - Len(p))
      BY <2>2
    <3>1. PICK n \in 1 .. Len(q) + 1 : i = Len(p) + n /\ n = i - Len(p)
      BY <3>0
    <3>2. left[i] = new[n]
      BY <1>4, <2>2, <3>1 DEF left
    <3>3. new[n] = IF n < k THEN q[n] ELSE IF n = k THEN e ELSE q[n - 1]
      BY <1>1, <3>1
    <3>4. CASE n < k
      <4>1. both[i] = q[n] /\ i < m /\ i \in 1 .. Len(both) + 1
        BY SMTT(60), <1>2, <3>1, <3>4
      <4> QED
        BY <1>3, <3>2, <3>3, <3>4, <4>1
    <3>5. CASE n = k
      BY <1>2, <1>3, <3>1, <3>2, <3>3, <3>5
    <3>6. CASE n > k
      <4>1. /\ i - 1 \in Len(p) + 1 .. Len(p) + Len(q)
            /\ (i - 1) - Len(p) = n - 1
            /\ i > m /\ i \in 1 .. Len(both) + 1
        BY <1>2, <3>1, <3>6
      <4>2. both[i - 1] = q[n - 1]
        BY <1>2, <4>1
      <4> QED
        BY <1>3, <3>2, <3>3, <3>6, <4>1, <4>2
    <3> QED
      BY <3>1, <3>4, <3>5, <3>6
  <2> QED
    BY <2>1, <2>2
<1>6. left \in Seq(Entry) /\ res \in Seq(Entry) /\ Len(left) = Len(res)
      /\ Len(left) = Len(p) + Len(q) + 1
  BY <1>2, <1>3, <1>4 DEF left
<1>7. left = res
  BY <1>5, <1>6, SameSeq
<1> QED
  BY <1>7 DEF left, res, both, new

\* q without its element k.
Without(q, k) == SubSeq(q, 1, k - 1) \o SubSeq(q, k + 1, Len(q))

LEMMA WithoutIs ==
  ASSUME NEW q \in Seq(Entry), NEW k \in 1 .. Len(q)
  PROVE  /\ Without(q, k) \in Seq(Entry)
         /\ Len(Without(q, k)) = Len(q) - 1
         /\ \A i \in 1 .. Len(q) - 1 :
              Without(q, k)[i] = IF i < k THEN q[i] ELSE q[i + 1]
<1> DEFINE front == SubSeq(q, 1, k - 1)
           back  == SubSeq(q, k + 1, Len(q))
<1>1. /\ front \in Seq(Entry) /\ Len(front) = k - 1
      /\ \A i \in 1 .. k - 1 : front[i] = q[i]
  OBVIOUS
<1>2. /\ back \in Seq(Entry) /\ Len(back) = Len(q) - k
      /\ \A i \in 1 .. Len(q) - k : back[i] = q[k + i]
  OBVIOUS
<1> HIDE DEF front, back
<1>3. Without(q, k) = front \o back
  BY DEF Without, front, back
<1>4. Without(q, k) \in Seq(Entry) /\ Len(Without(q, k)) = Len(q) - 1
  BY <1>1, <1>2, <1>3
<1>5. ASSUME NEW i \in 1 .. Len(q) - 1
      PROVE  Without(q, k)[i] = IF i < k THEN q[i] ELSE q[i + 1]
  <2>1. CASE i < k
    BY <1>1, <1>2, <1>3, <2>1
  <2>2. CASE i >= k
    <3>1. Without(q, k)[i] = back[i - (k - 1)] /\ i - (k - 1) \in 1 .. Len(q) - k
      BY <1>1, <1>2, <1>3, <2>2
    <3>2. back[i - (k - 1)] = q[k + (i - (k - 1))]
      BY <1>2, <3>1
    <3> QED
      BY <2>2, <3>1, <3>2
  <2> QED
    BY <2>1, <2>2
<1> QED
  BY <1>4, <1>5

\* Taking the head of the second list off is taking out one element.
LEMMA TailBehind ==
  ASSUME NEW p \in Seq(Entry), NEW q \in Seq(Entry), q # <<>>
  PROVE  p \o Tail(q) = Without(p \o q, Len(p) + 1)
<1> DEFINE both == p \o q
           rest == Tail(q)
           left == p \o rest
           res  == Without(both, Len(p) + 1)
<1>1. /\ both \in Seq(Entry) /\ Len(both) = Len(p) + Len(q) /\ Len(q) > 0
      /\ Len(p) + 1 \in 1 .. Len(both)
      /\ \A i \in 1 .. Len(p) : both[i] = p[i]
      /\ \A i \in Len(p) + 1 .. Len(p) + Len(q) : both[i] = q[i - Len(p)]
  OBVIOUS
<1>2. /\ rest \in Seq(Entry) /\ Len(rest) = Len(q) - 1
      /\ \A i \in 1 .. Len(q) - 1 : rest[i] = q[i + 1]
  OBVIOUS
<1> HIDE DEF both, rest
<1>3. /\ res \in Seq(Entry) /\ Len(res) = Len(both) - 1
      /\ \A i \in 1 .. Len(both) - 1 :
           res[i] = IF i < Len(p) + 1 THEN both[i] ELSE both[i + 1]
  BY <1>1, WithoutIs, Zenon
<1>4. /\ left \in Seq(Entry) /\ Len(left) = Len(p) + Len(q) - 1
      /\ \A i \in 1 .. Len(p) : left[i] = p[i]
      /\ \A i \in Len(p) + 1 .. Len(p) + Len(q) - 1 : left[i] = rest[i - Len(p)]
  BY <1>1, <1>2
<1> HIDE DEF left, res
<1>5. ASSUME NEW i \in 1 .. Len(p) + Len(q) - 1
      PROVE  left[i] = res[i]
  <2>1. CASE i <= Len(p)
    BY <1>1, <1>3, <1>4, <2>1
  <2>2. CASE i > Len(p)
    <3>0. i - Len(p) \in 1 .. Len(q) - 1 /\ i = Len(p) + (i - Len(p))
      BY <1>1, <2>2
    <3>1. PICK n \in 1 .. Len(q) - 1 : i = Len(p) + n /\ n = i - Len(p)
      BY <3>0
    <3>2. left[i] = q[n + 1]
      <4>1. i \in Len(p) + 1 .. Len(p) + Len(q) - 1
        BY <1>1, <2>2
      <4>2. left[i] = rest[i - Len(p)]
        BY <1>4, <4>1, Zenon
      <4>3. rest[n] = q[n + 1]
        BY <1>2, Zenon
      <4> QED
        BY <3>1, <4>2, <4>3, Zenon
    <3>3. i + 1 \in Len(p) + 1 .. Len(p) + Len(q) /\ (i + 1) - Len(p) = n + 1
      BY <1>1, <3>1
    <3>4. res[i] = q[n + 1]
      <4>1. both[i + 1] = q[n + 1]
        BY <1>1, <3>3
      <4>2. res[i] = both[i + 1]
        BY <1>1, <1>3, <2>2
      <4> QED
        BY <4>1, <4>2
    <3> QED
      BY <3>2, <3>4
  <2> QED
    BY <2>1, <2>2
<1>6. left \in Seq(Entry) /\ res \in Seq(Entry) /\ Len(left) = Len(res)
      /\ Len(left) = Len(p) + Len(q) - 1
  BY <1>1, <1>3, <1>4
<1>7. left = res
  BY <1>5, <1>6, SameSeq
<1> QED
  BY <1>7 DEF left, res, both, rest

\* Moving the head of the second list to the end of the first.
LEMMA HeadMoves ==
  ASSUME NEW p \in Seq(Entry), NEW q \in Seq(Entry), q # <<>>
  PROVE  Append(p, Head(q)) \o Tail(q) = p \o q
<1>1. /\ Len(q) > 0 /\ Head(q) \in Entry /\ Tail(q) \in Seq(Entry)
      /\ Len(Tail(q)) = Len(q) - 1
      /\ Append(p, Head(q)) \in Seq(Entry) /\ Len(Append(p, Head(q))) = Len(p) + 1
  OBVIOUS
<1>2. /\ Append(p, Head(q)) \o Tail(q) \in Seq(Entry) /\ p \o q \in Seq(Entry)
      /\ Len(Append(p, Head(q)) \o Tail(q)) = Len(p) + Len(q)
      /\ Len(p \o q) = Len(p) + Len(q)
  BY <1>1
<1>3. ASSUME NEW i \in 1 .. Len(p) + Len(q)
      PROVE  (Append(p, Head(q)) \o Tail(q))[i] = (p \o q)[i]
  <2>1. CASE i <= Len(p)
    BY <1>1, <2>1
  <2>2. CASE i = Len(p) + 1
    BY <1>1, <2>2
  <2>3. CASE i > Len(p) + 1
    BY <1>1, <2>3
  <2> QED
    BY <2>1, <2>2, <2>3
<1> QED
  BY <1>2, <1>3

-----------------------------------------------------------------------------
(* What one more and one less do to the order and the ids of a list.       *)

LEMMA InsertSorted ==
  ASSUME NEW q \in Seq(Entry), NEW k \in 1 .. Len(q) + 1, NEW e \in Entry,
         Sorted(q),
         \A i \in 1 .. k - 1 : ~After(q[i], e),
         \A i \in k .. Len(q) : ~After(e, q[i])
  PROVE  Sorted(Insert(q, k, e))
<1> DEFINE r == Insert(q, k, e)
<1>1. /\ Len(r) = Len(q) + 1
      /\ \A i \in 1 .. Len(q) + 1 :
           r[i] = IF i < k THEN q[i] ELSE IF i = k THEN e ELSE q[i - 1]
  BY SMTT(60), InsertIs
<1>2. Len(q) \in Nat /\ k \in Nat
  OBVIOUS
<1>3. \A i, j \in 1 .. Len(q) : i < j => ~After(q[i], q[j])
  BY DEF Sorted
<1> HIDE DEF r
<1>4. ASSUME NEW i \in 1 .. Len(r), NEW j \in 1 .. Len(r), i < j
      PROVE  ~After(r[i], r[j])
  <2>1. CASE j < k
    BY <1>1, <1>2, <1>3, <1>4, <2>1
  <2>2. CASE j = k
    BY <1>1, <1>2, <1>4, <2>2
  <2>3. CASE j > k
    <3>1. r[j] = q[j - 1] /\ j - 1 \in k .. Len(q)
      BY <1>1, <1>2, <2>3
    <3>2. CASE i < k
      BY <1>1, <1>2, <1>3, <3>1, <3>2
    <3>3. CASE i = k
      BY <1>1, <1>2, <3>1, <3>3
    <3>4. CASE i > k
      <4>1. r[i] = q[i - 1] /\ i - 1 \in 1 .. Len(q) /\ i - 1 < j - 1
        BY <1>1, <1>2, <1>4, <3>4
      <4> QED
        BY <1>2, <1>3, <3>1, <4>1
    <3> QED
      BY <1>2, <3>2, <3>3, <3>4
  <2> QED
    BY <1>1, <1>2, <2>1, <2>2, <2>3
<1> QED
  BY <1>4 DEF Sorted, r

LEMMA InsertInOrder ==
  ASSUME NEW q \in Seq(Entry), NEW k \in 1 .. Len(q) + 1, NEW e \in Entry
  PROVE  /\ InOrder(q)
         /\ \A i \in 1 .. Len(q) : q[i].id < e.id
         /\ \A i \in k .. Len(q) : q[i].stream # e.stream
         => InOrder(Insert(q, k, e))
<1> DEFINE r == Insert(q, k, e)
<1>1. /\ Len(r) = Len(q) + 1
      /\ \A i \in 1 .. Len(q) + 1 :
           r[i] = IF i < k THEN q[i] ELSE IF i = k THEN e ELSE q[i - 1]
  BY SMTT(60), InsertIs
<1>2. Len(q) \in Nat /\ k \in Nat
  OBVIOUS
<1> HAVE /\ InOrder(q)
         /\ \A i \in 1 .. Len(q) : q[i].id < e.id
         /\ \A i \in k .. Len(q) : q[i].stream # e.stream
<1>3. \A i, j \in 1 .. Len(q) :
        i < j /\ q[i].stream = q[j].stream => q[i].id < q[j].id
  BY DEF InOrder
<1> HIDE DEF r
<1>4. ASSUME NEW i \in 1 .. Len(r), NEW j \in 1 .. Len(r), i < j,
             r[i].stream = r[j].stream
      PROVE  r[i].id < r[j].id
  <2>1. CASE j < k
    BY <1>1, <1>2, <1>3, <1>4, <2>1
  <2>2. CASE j = k
    BY <1>1, <1>2, <1>4, <2>2
  <2>3. CASE j > k
    <3>1. r[j] = q[j - 1] /\ j - 1 \in k .. Len(q)
      BY <1>1, <1>2, <2>3
    <3>2. CASE i < k
      <4>1. r[i] = q[i] /\ i \in 1 .. Len(q) /\ i < j - 1
        BY <1>1, <1>2, <3>1, <3>2
      <4> QED
        BY <1>2, <1>3, <1>4, <3>1, <4>1
    <3>3. CASE i = k
      BY <1>1, <1>2, <1>4, <3>1, <3>3
    <3>4. CASE i > k
      <4>1. r[i] = q[i - 1] /\ i - 1 \in 1 .. Len(q) /\ i - 1 < j - 1
        BY <1>1, <1>2, <1>4, <3>4
      <4> QED
        BY <1>2, <1>3, <1>4, <3>1, <4>1
    <3> QED
      BY <1>2, <3>2, <3>3, <3>4
  <2> QED
    BY <1>1, <1>2, <2>1, <2>2, <2>3
<1> QED
  BY <1>4 DEF InOrder, r

LEMMA InsertUnique ==
  ASSUME NEW q \in Seq(Entry), NEW k \in 1 .. Len(q) + 1, NEW e \in Entry
  PROVE  Unique(q) /\ (\A i \in 1 .. Len(q) : q[i].id # e.id)
           => Unique(Insert(q, k, e))
<1> DEFINE r == Insert(q, k, e)
<1>1. /\ Len(r) = Len(q) + 1
      /\ \A i \in 1 .. Len(q) + 1 :
           r[i] = IF i < k THEN q[i] ELSE IF i = k THEN e ELSE q[i - 1]
  BY SMTT(60), InsertIs
<1>2. Len(q) \in Nat /\ k \in Nat
  OBVIOUS
<1> HAVE Unique(q) /\ \A i \in 1 .. Len(q) : q[i].id # e.id
<1>3. \A i, j \in 1 .. Len(q) : q[i].id = q[j].id => i = j
  BY DEF Unique
<1> HIDE DEF r
<1>4. ASSUME NEW i \in 1 .. Len(r), i # k
      PROVE  \E m \in 1 .. Len(q) : r[i] = q[m] /\ i = IF m < k THEN m ELSE m + 1
  <2>1. CASE i < k
    BY <1>1, <1>2, <2>1
  <2>2. CASE i > k
    <3>1. i - 1 \in 1 .. Len(q) /\ r[i] = q[i - 1] /\ ~(i - 1 < k) /\ i = (i - 1) + 1
      BY <1>1, <1>2, <2>2
    <3> QED
      BY <3>1
  <2> QED
    BY <1>1, <1>2, <1>4, <2>1, <2>2
<1>5. k \in 1 .. Len(r) /\ r[k] = e
  BY <1>1, <1>2
<1>6. ASSUME NEW i \in 1 .. Len(r), NEW j \in 1 .. Len(r), r[i].id = r[j].id
      PROVE  i = j
  <2>1. CASE i = k \/ j = k
    BY <1>4, <1>5, <1>6, <2>1
  <2>2. CASE i # k /\ j # k
    BY <1>3, <1>4, <1>6, <2>2
  <2> QED
    BY <2>1, <2>2
<1> QED
  BY <1>6 DEF Unique, r

\* Whatever holds of all pairs of a list holds of those that are left.
LEMMA WithoutPairs ==
  ASSUME NEW q \in Seq(Entry), NEW k \in 1 .. Len(q)
  PROVE  /\ Sorted(q) => Sorted(Without(q, k))
         /\ InOrder(q) => InOrder(Without(q, k))
         /\ Unique(q) => Unique(Without(q, k))
<1> DEFINE r == Without(q, k)
           Old(i) == IF i < k THEN i ELSE i + 1
<1>1. /\ Len(r) = Len(q) - 1
      /\ \A i \in 1 .. Len(q) - 1 : r[i] = IF i < k THEN q[i] ELSE q[i + 1]
  BY WithoutIs, Zenon
<1>2. Len(q) \in Nat /\ k \in Nat
  OBVIOUS
<1> HIDE DEF r
<1>3. \A i \in 1 .. Len(r) : Old(i) \in 1 .. Len(q) /\ r[i] = q[Old(i)]
  BY <1>1, <1>2
<1>4. \A i, j \in 1 .. Len(r) : (i < j => Old(i) < Old(j)) /\ (Old(i) = Old(j) => i = j)
  BY <1>1, <1>2
<1> HIDE DEF Old
<1>5. Sorted(q) => Sorted(r)
  BY <1>3, <1>4 DEF Sorted
<1>6. InOrder(q) => InOrder(r)
  BY <1>3, <1>4 DEF InOrder
<1>7. Unique(q) => Unique(r)
  BY <1>3, <1>4 DEF Unique
<1> QED
  BY <1>5, <1>6, <1>7 DEF r

-----------------------------------------------------------------------------
(* Where a packet goes.                                                    *)

LEMMA AllIs ==
  ASSUME TypeOK
  PROVE  /\ All \in Seq(Entry) /\ Len(All) = Len(written) + Len(packet_buffer)
         /\ \A i \in 1 .. Len(written) : All[i] = written[i]
         /\ \A i \in 1 .. Len(packet_buffer) :
              /\ Len(written) + i \in 1 .. Len(All)
              /\ All[Len(written) + i] = packet_buffer[i]
BY DEF All, TypeOK

LEMMA ListIs ==
  ASSUME Books
  PROVE  /\ InOrder(packet_buffer) /\ Unique(packet_buffer)
         /\ \A i \in 1 .. Len(packet_buffer) : packet_buffer[i].id \in 1 .. nb_accepted
<1>1. TypeOK /\ Len(written) \in Nat /\ Len(packet_buffer) \in Nat
  BY DEF Books, TypeOK
<1>2. InOrder(packet_buffer)
  <2>1. \A i, j \in 1 .. Len(All) :
          i < j /\ All[i].stream = All[j].stream => All[i].id < All[j].id
    BY DEF Books, InOrder
  <2>2. ASSUME NEW i \in 1 .. Len(packet_buffer), NEW j \in 1 .. Len(packet_buffer),
               i < j, packet_buffer[i].stream = packet_buffer[j].stream
        PROVE  packet_buffer[i].id < packet_buffer[j].id
    <3>1. /\ Len(written) + i \in 1 .. Len(All) /\ All[Len(written) + i] = packet_buffer[i]
          /\ Len(written) + j \in 1 .. Len(All) /\ All[Len(written) + j] = packet_buffer[j]
      BY <1>1, AllIs
    <3>2. Len(written) + i < Len(written) + j
      BY <1>1, <2>2
    <3> QED
      BY <2>1, <2>2, <3>1, <3>2
  <2> QED
    BY <2>2 DEF InOrder
<1>3. Unique(packet_buffer)
  BY <1>1, AllIs DEF Books, Unique
<1>4. \A i \in 1 .. Len(packet_buffer) : packet_buffer[i].id \in 1 .. nb_accepted
  BY <1>1, AllIs DEF Books, Numbered
<1> QED
  BY <1>2, <1>3, <1>4

LEMMA SearchFromIs ==
  ASSUME Books, NEW s \in Stream
  PROVE  /\ SearchFrom(s) \in 1 .. Len(packet_buffer) + 1
         /\ \A i \in 1 .. Len(packet_buffer) :
              packet_buffer[i].stream = s => i < SearchFrom(s)
         /\ SearchFrom(s) > 1 =>
              /\ packet_buffer[SearchFrom(s) - 1].stream = s
              /\ packet_buffer[SearchFrom(s) - 1].dts = cur_dts[s]
<1> DEFINE n == Len(packet_buffer)
           seen == {i \in 1 .. n : \E j \in i .. n : packet_buffer[j].id = last[s]}
<1>1. n \in Nat /\ Pointer(s)
  BY DEF Books, TypeOK
<1>2. SearchFrom(s) = 1 + Cardinality(seen)
  BY DEF SearchFrom
<1> HIDE DEF n
<1>3. CASE last[s] = 0 /\ \A i \in 1 .. n : packet_buffer[i].stream # s
  <2>1. seen = {}
    BY <1>1, <1>3, ListIs DEF n
  <2>2. SearchFrom(s) = 1
    BY <1>2, <2>1, FS_EmptySet
  <2> QED
    BY <1>1, <1>3, <2>2 DEF n
<1>4. CASE \E m \in 1 .. n :
             /\ packet_buffer[m].stream = s /\ packet_buffer[m].id = last[s]
             /\ packet_buffer[m].dts = cur_dts[s]
             /\ \A j \in 1 .. n : packet_buffer[j].stream = s => j <= m
  <2>1. PICK m \in 1 .. n :
             /\ packet_buffer[m].stream = s /\ packet_buffer[m].id = last[s]
             /\ packet_buffer[m].dts = cur_dts[s]
             /\ \A j \in 1 .. n : packet_buffer[j].stream = s => j <= m
    BY <1>4
  <2>2. seen = 1 .. m
    <3>1. ASSUME NEW i \in seen PROVE i \in 1 .. m
      <4>1. PICK j \in i .. n : packet_buffer[j].id = last[s]
        OBVIOUS
      <4>2. j = m
        BY <1>1, <2>1, <4>1, ListIs DEF Unique, n
      <4> QED
        BY <1>1, <2>1, <4>1, <4>2
    <3>2. ASSUME NEW i \in 1 .. m PROVE i \in seen
      BY <1>1, <2>1
    <3> QED
      BY <3>1, <3>2
  <2>3. Cardinality(1 .. m) = m
    BY <1>1, <2>1, FS_Interval
  <2>4. SearchFrom(s) = m + 1
    <3> HIDE DEF seen
    <3>1. Cardinality(seen) = m /\ m \in Nat
      BY <1>1, <2>1, <2>2, <2>3
    <3> QED
      BY <1>2, <3>1
  <2> QED
    BY <1>1, <2>1, <2>4 DEF n
<1> QED
  BY <1>1, <1>3, <1>4 DEF Pointer, n

\* Whatever the order of the list: behind the stream's last packet.
LEMMA PositionIs ==
  ASSUME Books, NEW pkt \in Entry
  PROVE  Position(pkt) \in SearchFrom(pkt.stream) .. Len(packet_buffer) + 1
<1> DEFINE from == SearchFrom(pkt.stream)
           end  == Len(packet_buffer) + 1
           later == {i \in from .. end - 1 : After(packet_buffer[i], pkt)}
<1>1. pkt.stream \in Stream /\ Len(packet_buffer) \in Nat
  BY DEF Books, TypeOK, Entry
<1>2. from \in 1 .. end
  BY <1>1, SearchFromIs
<1>3. Position(pkt) = IF from < end /\ After(packet_buffer[end - 1], pkt)
                        THEN CHOOSE i \in later : \A j \in later : i <= j
                        ELSE end
  BY DEF Position
<1> HIDE DEF from
<1>4. CASE from < end /\ After(packet_buffer[end - 1], pkt)
  <2>1. later # {} /\ later \subseteq Nat
    BY <1>1, <1>2, <1>4
  <2> HIDE DEF later
  <2>2. \E i \in later : \A j \in later : i <= j
    BY <2>1, LeastNat
  <2>3. Position(pkt) \in later
    BY <1>3, <1>4, <2>2
  <2> QED
    BY <1>1, <1>2, <2>3 DEF later, from
<1>5. CASE ~(from < end /\ After(packet_buffer[end - 1], pkt))
  BY <1>1, <1>2, <1>3, <1>5 DEF from
<1> QED
  BY <1>4, <1>5

\* In an ordered list: where the packet belongs.
LEMMA PositionFits ==
  ASSUME Books, NEW pkt \in Entry, Sorted(packet_buffer)
  PROVE  /\ \A i \in SearchFrom(pkt.stream) .. Position(pkt) - 1 :
              ~After(packet_buffer[i], pkt)
         /\ \A i \in Position(pkt) .. Len(packet_buffer) : After(packet_buffer[i], pkt)
<1> DEFINE from == SearchFrom(pkt.stream)
           n == Len(packet_buffer)
           later == {i \in from .. n : After(packet_buffer[i], pkt)}
<1>1. pkt.stream \in Stream /\ n \in Nat /\ packet_buffer \in Seq(Entry)
  BY DEF Books, TypeOK, Entry
<1>2. from \in 1 .. n + 1
  BY <1>1, SearchFromIs
<1>3. Position(pkt) = IF from < n + 1 /\ After(packet_buffer[n], pkt)
                        THEN CHOOSE i \in later : \A j \in later : i <= j
                        ELSE n + 1
  <2>1. n + 1 - 1 = n
    BY <1>1
  <2> QED
    BY <2>1 DEF Position
<1>4. \A i, j \in 1 .. n : i < j => ~After(packet_buffer[i], packet_buffer[j])
  BY DEF Sorted
<1>5. \A i \in 1 .. n : packet_buffer[i] \in Entry
  BY <1>1
<1> HIDE DEF from, n
<1>6. CASE from < n + 1 /\ After(packet_buffer[n], pkt)
  <2>1. later # {} /\ later \subseteq Nat
    BY <1>1, <1>2, <1>6
  <2>2. \E i \in later : \A j \in later : i <= j
    <3> HIDE DEF later
    <3> QED
      BY <2>1, LeastNat
  <2>3. Position(pkt) \in later /\ \A j \in later : Position(pkt) <= j
    <3> HIDE DEF later
    <3> QED
      BY <1>3, <1>6, <2>2
  <2>4. \A i \in from .. Position(pkt) - 1 : ~After(packet_buffer[i], pkt)
    BY <1>1, <1>2, <2>1, <2>3
  <2>5. ASSUME NEW i \in Position(pkt) .. n
        PROVE  After(packet_buffer[i], pkt)
    <3>1. Position(pkt) \in 1 .. n /\ i \in 1 .. n
      BY <1>1, <1>2, <2>3
    <3>2. CASE i = Position(pkt)
      BY <2>3, <3>2
    <3>3. CASE Position(pkt) < i
      <4>1. ~After(packet_buffer[Position(pkt)], packet_buffer[i])
        BY <1>4, <3>1, <3>3
      <4>2. After(packet_buffer[Position(pkt)], pkt)
        BY <2>3
      <4> QED
        BY <1>5, <3>1, <4>1, <4>2, NotAfterChain
    <3> QED
      BY <3>1, <3>2, <3>3
  <2> QED
    BY <2>4, <2>5 DEF from, n
<1>7. CASE ~(from < n + 1 /\ After(packet_buffer[n], pkt))
  <2>1. Position(pkt) = n + 1
    BY <1>3, <1>7
  <2>2. ASSUME NEW i \in from .. n
        PROVE  ~After(packet_buffer[i], pkt)
    <3>1. i \in 1 .. n /\ n \in 1 .. n /\ ~After(packet_buffer[n], pkt)
      BY <1>1, <1>2, <1>7
    <3>2. CASE i < n
      BY <1>4, <1>5, <3>1, <3>2, NotAfterChain
    <3>3. CASE i = n
      BY <3>1, <3>3
    <3> QED
      BY <3>1, <3>2, <3>3
  <2> QED
    BY <1>1, <1>2, <2>1, <2>2 DEF from, n
<1> QED
  BY <1>6, <1>7

-----------------------------------------------------------------------------
(* Books is inductive.                                                     *)

LEMMA BooksInit == MuxInit => Books
<1> SUFFICES ASSUME MuxInit PROVE Books
  OBVIOUS
<1>1. TypeOK
  <2>1. IsFiniteSet({}) /\ {} \subseteq Entry /\ <<>> \in Seq(Entry)
    BY FS_EmptySet
  <2> QED
    BY <2>1 DEF MuxInit, TypeOK
<1>2. All = <<>> /\ Len(All) = 0
  BY DEF MuxInit, All
<1>3. InOrder(All) /\ Unique(All) /\ Numbered(All)
  BY <1>2 DEF MuxInit, InOrder, Unique, Numbered
<1>4. Len(All) + Cardinality(lost) = nb_accepted
  BY <1>2, FS_EmptySet DEF MuxInit
<1>5. \A s \in Stream : Pointer(s)
  BY DEF MuxInit, Pointer
<1> QED
  BY <1>1, <1>3, <1>4, <1>5 DEF Books

\* Steps of a call that move no packet.
LEMMA BooksAlone ==
  ASSUME Books,
         UNCHANGED <<packet_buffer, last, cur_dts, written, lost, nb_accepted>>,
         mpc' \in {"idle", "write", "flush", "trailer", "done"},
         ret' \in {"OK", "EINVAL", "EIO"}, forced' \in BOOLEAN
  PROVE  Books'
<1>1. TypeOK' /\ All' = All
  BY DEF Books, TypeOK, All
<1>2. InOrder(All)' /\ Unique(All)' /\ Numbered(All)'
  BY <1>1 DEF Books, InOrder, Unique, Numbered
<1>3. \A s \in Stream : Pointer(s)'
  BY DEF Books, Pointer
<1>4. Len(All') + Cardinality(lost') = nb_accepted'
  BY <1>1 DEF Books
<1> QED
  BY <1>1, <1>2, <1>3, <1>4 DEF Books

\* What the library may do to its state, whoever calls it.
Refused == /\ ret' = "EINVAL"
           /\ UNCHANGED <<packet_buffer, last, cur_dts, mpc, written, lost,
                          forced, nb_accepted>>

Move == \/ \E s \in Stream, dts \in Int : Accept(s, dts)
        \/ Refused \/ FlushQueue \/ WriteTrailer \/ MuxStep

LEMMA NextMoves == [MuxNext]_muxVars => [Move]_muxVars
<1>1. ASSUME NEW s, NEW dts \in Dts, Accept(s, dts)
      PROVE  Move
  BY <1>1, DtsAssumption DEF Move, Accept
<1>2. ASSUME NEW s, NEW dts, Refuse(s, dts)
      PROVE  Move
  BY <1>2 DEF Move, Refused, Refuse
<1> QED
  BY <1>1, <1>2 DEF MuxNext, MuxClient, MuxOver, Move

\* The packet accepted, and its place.
LEMMA AcceptIs ==
  ASSUME Books, NEW s, NEW dts \in Int, Accept(s, dts)
  PROVE  \E pkt \in Entry, k \in 1 .. Len(packet_buffer) + 1 :
           /\ s \in Stream /\ pkt.id = nb_accepted + 1
           /\ pkt.stream = s /\ pkt.dts = dts
           /\ k = Position(pkt) /\ k \in SearchFrom(s) .. Len(packet_buffer) + 1
           /\ packet_buffer' = Insert(packet_buffer, k, pkt)
           /\ last' = [last EXCEPT ![s] = pkt.id]
           /\ All' = Insert(All, Len(written) + k, pkt)
           /\ Len(written) + k \in 1 .. Len(All) + 1
<1> DEFINE pkt == [id |-> nb_accepted + 1, stream |-> s, dts |-> dts]
           k == Position(pkt)
<1>1. TypeOK /\ s \in Stream /\ dts \in Int /\ nb_accepted \in Nat
  BY DEF Books, Accept, TypeOK
<1>2. pkt \in Entry /\ pkt.id = nb_accepted + 1 /\ pkt.stream = s /\ pkt.dts = dts
  BY <1>1 DEF Entry
<1>3. /\ packet_buffer' = Insert(packet_buffer, k, pkt)
      /\ last' = [last EXCEPT ![s] = pkt.id] /\ written' = written
  BY DEF Accept
<1> HIDE DEF pkt
<1>4. k \in SearchFrom(s) .. Len(packet_buffer) + 1
  BY <1>2, PositionIs
<1>5. /\ Len(packet_buffer) \in Nat /\ Len(written) \in Nat
      /\ packet_buffer \in Seq(Entry) /\ written \in Seq(Entry)
  BY <1>1 DEF TypeOK
<1>6. SearchFrom(s) \in 1 .. Len(packet_buffer) + 1
  BY <1>1, SearchFromIs
<1>7. k \in 1 .. Len(packet_buffer) + 1
  BY <1>4, <1>5, <1>6
<1>8. Len(written) + k \in 1 .. Len(All) + 1
  BY <1>1, <1>5, <1>7, AllIs
<1> HIDE DEF k
<1>9. All' = Insert(All, Len(written) + k, pkt)
  BY <1>2, <1>3, <1>5, <1>7, InsertBehind DEF All
<1> QED
  BY <1>1, <1>2, <1>3, <1>4, <1>7, <1>8, <1>9 DEF k

LEMMA BooksAccept ==
  ASSUME Books, NEW s, NEW dts \in Int, Accept(s, dts)
  PROVE  Books'
<1> DEFINE n == Len(packet_buffer)
           w == Len(written)
<1>1. PICK pkt \in Entry, k \in 1 .. n + 1 :
           /\ s \in Stream /\ pkt.id = nb_accepted + 1
           /\ pkt.stream = s /\ pkt.dts = dts
           /\ k = Position(pkt) /\ k \in SearchFrom(s) .. n + 1
           /\ packet_buffer' = Insert(packet_buffer, k, pkt)
           /\ last' = [last EXCEPT ![s] = pkt.id]
           /\ All' = Insert(All, w + k, pkt)
           /\ w + k \in 1 .. Len(All) + 1
  BY AcceptIs
<1>2. /\ TypeOK /\ n \in Nat /\ w \in Nat /\ nb_accepted \in Nat /\ k \in Nat
      /\ packet_buffer \in Seq(Entry) /\ written \in Seq(Entry)
      /\ nb_accepted' = nb_accepted + 1 /\ lost' = lost /\ written' = written
      /\ cur_dts' = [cur_dts EXCEPT ![s] = dts] /\ dts \in Int /\ pkt.id \in Nat
      /\ UNCHANGED <<ret, forced>> /\ mpc' = "write" /\ k >= 1 /\ k <= n + 1
  BY <1>1 DEF Books, TypeOK, Accept
<1>3. /\ packet_buffer' \in Seq(Entry) /\ Len(packet_buffer') = n + 1
      /\ \A i \in 1 .. k - 1 : packet_buffer'[i] = packet_buffer[i]
      /\ packet_buffer'[k] = pkt
      /\ \A i \in k .. n : packet_buffer'[i + 1] = packet_buffer[i]
  <2> DEFINE new == Insert(packet_buffer, k, pkt)
  <2>1. packet_buffer \in Seq(Entry) /\ k \in 1 .. Len(packet_buffer) + 1 /\ pkt \in Entry
    BY <1>1, <1>2
  <2>2. new \in Seq(Entry) /\ Len(new) = Len(packet_buffer) + 1
    BY <2>1, InsertIs, Zenon
  <2>3. /\ \A i \in 1 .. k - 1 : new[i] = packet_buffer[i]
        /\ new[k] = pkt
        /\ \A i \in k .. Len(packet_buffer) : new[i + 1] = packet_buffer[i]
    BY <2>1, InsertKeeps, Zenon
  <2>4. packet_buffer' = new
    BY <1>1
  <2> HIDE DEF new
  <2> QED
    BY <2>2, <2>3, <2>4
<1>4. TypeOK'
  BY <1>1, <1>2, <1>3 DEF TypeOK
<1>5. /\ All \in Seq(Entry) /\ Len(All) = w + n
      /\ \A i \in 1 .. Len(All) : All[i].id \in 1 .. nb_accepted
  BY <1>2, AllIs DEF Books, Numbered
<1> HIDE DEF n, w
<1>6. /\ Len(All') = w + n + 1
      /\ \A i \in 1 .. w + k - 1 : All'[i] = All[i]
      /\ All'[w + k] = pkt
      /\ \A i \in w + k .. w + n : All'[i + 1] = All[i]
  <2>0. PICK m \in Nat : m = w + k
    BY <1>2
  <2> DEFINE both == Insert(All, m, pkt)
  <2>1. All \in Seq(Entry) /\ m \in 1 .. Len(All) + 1 /\ pkt \in Entry
    BY <1>1, <1>5, <2>0
  <2>2. Len(both) = Len(All) + 1
    BY <2>1, InsertIs, Zenon
  <2>3. /\ \A i \in 1 .. m - 1 : both[i] = All[i]
        /\ both[m] = pkt
        /\ \A i \in m .. Len(All) : both[i + 1] = All[i]
    BY <2>1, InsertKeeps, Zenon
  <2>4. All' = both
    BY <1>1, <2>0
  <2> HIDE DEF both
  <2>5. \A i \in m .. w + n : both[i + 1] = All[i]
    BY <1>5, <2>3
  <2>6. Len(both) = w + n + 1
    BY <1>5, <2>2
  <2>7. /\ Len(All') = w + n + 1
        /\ \A i \in 1 .. m - 1 : All'[i] = All[i]
        /\ All'[m] = pkt
        /\ \A i \in m .. w + n : All'[i + 1] = All[i]
    BY <2>3, <2>4, <2>5, <2>6
  <2> QED
    BY <1>2, <2>0, <2>7
<1>7. \A i \in w + k .. Len(All) : All[i].stream # pkt.stream
  <2>1. ASSUME NEW i \in w + k .. Len(All) PROVE All[i].stream # s
    <3>1. i - w \in k .. n /\ w + (i - w) = i
      BY <1>2, <1>5
    <3>0. PICK m \in k .. n : i = w + m
      BY <3>1
    <3>2. All[i] = packet_buffer[m] /\ m \in 1 .. n
      <4>1. m \in 1 .. Len(packet_buffer)
        BY <1>2, <3>0 DEF n
      <4>2. All[Len(written) + m] = packet_buffer[m]
        BY <1>2, <4>1, AllIs
      <4> QED
        BY <3>0, <4>1, <4>2 DEF n, w
    <3>3. ~(m < SearchFrom(s)) /\ s \in Stream
      BY <1>1, <1>2, <3>0, SearchFromIs DEF n
    <3> QED
      BY <3>2, <3>3, SearchFromIs DEF n
  <2> QED
    BY <1>1, <2>1
<1>8. InOrder(All')
  <2>1. \A i \in 1 .. Len(All) : All[i].id < pkt.id
    BY <1>1, <1>2, <1>5
  <2> QED
    BY <1>1, <1>5, <1>7, <2>1, InsertInOrder DEF Books
<1>9. Unique(All')
  <2>1. \A i \in 1 .. Len(All) : All[i].id # pkt.id
    BY <1>1, <1>2, <1>5
  <2> QED
    BY <1>1, <1>5, <2>1, InsertUnique DEF Books
<1>10. Numbered(All)'
  <2>1. \A i \in 1 .. Len(All) : \E j \in 1 .. Len(All') : All'[j] = All[i]
    <3>1. ASSUME NEW i \in 1 .. Len(All)
          PROVE  \E j \in 1 .. Len(All') : All'[j] = All[i]
      <4>1. CASE i < w + k
        BY <1>2, <1>5, <1>6, <4>1
      <4>2. CASE i >= w + k
        <5>1. i + 1 \in 1 .. Len(All') /\ All'[i + 1] = All[i]
          BY <1>2, <1>5, <1>6, <4>2
        <5> QED
          BY <5>1
      <4> QED
        BY <1>2, <4>1, <4>2
    <3> QED
      BY <3>1
  <2>2. ASSUME NEW i \in 1 .. Len(All')
        PROVE  All'[i] = pkt \/ \E j \in 1 .. Len(All) : All'[i] = All[j]
    <3>1. CASE i < w + k
      BY SMTT(60), <1>2, <1>5, <1>6, <3>1
    <3>2. CASE i = w + k
      BY <1>6, <3>2
    <3>3. CASE i > w + k
      <4>1. i - 1 \in w + k .. w + n /\ (i - 1) + 1 = i
        BY <1>2, <1>6, <3>3
      <4>2. All'[i] = All[i - 1]
        BY <1>6, <4>1
      <4> QED
        BY <1>2, <1>5, <4>1, <4>2
    <3> QED
      BY <1>2, <1>6, <3>1, <3>2, <3>3
  <2>3. /\ \A i \in 1 .. Len(All) : All[i].id \in 1 .. nb_accepted
        /\ \A e \in lost : e.id \in 1 .. nb_accepted
        /\ \A i \in 1 .. Len(All), e \in lost : All[i].id # e.id
        /\ \A m \in 1 .. nb_accepted :
             (\E i \in 1 .. Len(All) : All[i].id = m) \/ (\E e \in lost : e.id = m)
    BY DEF Books, Numbered
  <2>4. ASSUME NEW i \in 1 .. Len(All')
        PROVE  All'[i].id \in 1 .. nb_accepted'
    <3>1. CASE All'[i] = pkt
      BY <1>1, <1>2, <3>1
    <3>2. CASE \E j \in 1 .. Len(All) : All'[i] = All[j]
      <4>1. All'[i].id \in 1 .. nb_accepted
        BY <2>3, <3>2
      <4> QED
        BY <1>2, <4>1
    <3> QED
      BY <2>2, <3>1, <3>2
  <2>5. \A e \in lost' : e.id \in 1 .. nb_accepted' /\ e.id # pkt.id
    BY <1>1, <1>2, <2>3
  <2>6. \A i \in 1 .. Len(All'), e \in lost' : All'[i].id # e.id
    BY SMTT(60), <1>2, <2>2, <2>3, <2>5
  <2>7. ASSUME NEW m \in 1 .. nb_accepted'
        PROVE  (\E i \in 1 .. Len(All') : All'[i].id = m) \/ (\E e \in lost' : e.id = m)
    <3>1. CASE m = nb_accepted + 1
      <4>1. w + k \in 1 .. Len(All')
        BY <1>1, <1>2, <1>5, <1>6
      <4> QED
        BY <1>1, <1>6, <3>1, <4>1
    <3>2. CASE m \in 1 .. nb_accepted
      <4>1. CASE \E i \in 1 .. Len(All) : All[i].id = m
        <5>1. PICK i \in 1 .. Len(All) : All[i].id = m
          BY <4>1
        <5>2. PICK j \in 1 .. Len(All') : All'[j] = All[i]
          BY <2>1
        <5> QED
          BY <5>1, <5>2
      <4>2. CASE \E e \in lost : e.id = m
        BY <1>2, <4>2
      <4> QED
        BY <2>3, <3>2, <4>1, <4>2
    <3> QED
      BY <1>2, <3>1, <3>2
  <2> QED
    BY <2>4, <2>5, <2>6, <2>7 DEF Numbered
<1>11. Len(All') + Cardinality(lost') = nb_accepted'
  <2>1. Cardinality(lost) \in Nat /\ Len(All) + Cardinality(lost) = nb_accepted
    BY FS_CardinalityType DEF Books, TypeOK
  <2> QED
    BY <1>2, <1>5, <1>6, <2>1
<1>12. ASSUME NEW t \in Stream PROVE Pointer(t)'
  <2>1. CASE t = s
    <3>1. /\ k \in 1 .. n + 1 /\ packet_buffer'[k].stream = t
          /\ packet_buffer'[k].id = last'[t] /\ packet_buffer'[k].dts = cur_dts'[t]
      BY <1>1, <1>2, <1>3, <2>1 DEF TypeOK
    <3>2. ASSUME NEW j \in 1 .. n + 1, packet_buffer'[j].stream = t
          PROVE  j <= k
      <4>1. SUFFICES ASSUME j > k PROVE FALSE
        BY <1>2
      <4>2. j - 1 \in k .. n /\ (j - 1) + 1 = j
        BY <1>2, <4>1
      <4>3. packet_buffer[j - 1].stream = s
        BY <1>3, <2>1, <3>2, <4>2
      <4>4. j - 1 < SearchFrom(s) /\ j - 1 >= SearchFrom(s)
        BY <1>1, <1>2, <4>2, <4>3, SearchFromIs DEF n
      <4> QED
        BY <1>1, <1>2, <4>2, <4>4, SearchFromIs
    <3> QED
      BY <1>3, <3>1, <3>2 DEF Pointer
  <2>2. CASE t # s
    <3>1. last'[t] = last[t] /\ cur_dts'[t] = cur_dts[t]
      BY <1>1, <1>2, <2>2 DEF TypeOK
    <3>2. ASSUME NEW j \in 1 .. n + 1, packet_buffer'[j].stream = t
          PROVE  \E i \in 1 .. n : /\ packet_buffer'[j] = packet_buffer[i]
                                   /\ j = IF i < k THEN i ELSE i + 1
      <4>1. CASE j < k
        <5>1. j \in 1 .. n /\ j \in 1 .. k - 1
          BY <1>2, <4>1
        <5> QED
          BY <1>3, <4>1, <5>1
      <4>2. CASE j = k
        BY <1>1, <1>3, <2>2, <3>2, <4>2
      <4>3. CASE j > k
        <5>1. j - 1 \in k .. n /\ (j - 1) + 1 = j /\ j - 1 \in 1 .. n /\ ~(j - 1 < k)
          BY <1>2, <4>3
        <5>2. packet_buffer'[j] = packet_buffer[j - 1]
          BY <1>3, <5>1
        <5> QED
          BY <5>1, <5>2
      <4> QED
        BY <1>2, <4>1, <4>2, <4>3
    <3>3. Pointer(t)
      BY DEF Books
    <3>4. CASE last[t] = 0 /\ \A i \in 1 .. n : packet_buffer[i].stream # t
      BY <1>3, <3>1, <3>2, <3>4 DEF Pointer
    <3>5. CASE \E i \in 1 .. n :
                 /\ packet_buffer[i].stream = t /\ packet_buffer[i].id = last[t]
                 /\ packet_buffer[i].dts = cur_dts[t]
                 /\ \A j \in 1 .. n : packet_buffer[j].stream = t => j <= i
      <4>1. PICK i \in 1 .. n :
                 /\ packet_buffer[i].stream = t /\ packet_buffer[i].id = last[t]
                 /\ packet_buffer[i].dts = cur_dts[t]
                 /\ \A j \in 1 .. n : packet_buffer[j].stream = t => j <= i
        BY <3>5
      <4>2. PICK m \in 1 .. n + 1 : m = IF i < k THEN i ELSE i + 1
        BY <1>2
      <4>3. packet_buffer'[m] = packet_buffer[i]
        BY <1>2, <1>3, <4>2
      <4>4. \A j \in 1 .. n + 1 : packet_buffer'[j].stream = t => j <= m
        BY <1>2, <3>2, <4>1, <4>2
      <4> QED
        BY <1>3, <3>1, <4>1, <4>3, <4>4 DEF Pointer
    <3> QED
      BY <3>3, <3>4, <3>5 DEF Pointer, n
  <2> QED
    BY <2>1, <2>2
<1> QED
  BY <1>4, <1>8, <1>9, <1>10, <1>11, <1>12 DEF Books

\* Taking the head off the list leaves the pointers right.
LEMMA PopSound ==
  ASSUME Books, packet_buffer # <<>>, Pop, UNCHANGED cur_dts
  PROVE  /\ packet_buffer' \in Seq(Entry) /\ last' \in [Stream -> Nat]
         /\ Head(packet_buffer) \in Entry
         /\ \A s \in Stream : Pointer(s)'
<1> DEFINE n == Len(packet_buffer)
           e == Head(packet_buffer)
<1>1. /\ packet_buffer \in Seq(Entry) /\ last \in [Stream -> Nat]
      /\ n \in Nat /\ n > 0
  BY DEF Books, TypeOK
<1>2. /\ packet_buffer' = Tail(packet_buffer)
      /\ last' = IF last[e.stream] = e.id THEN [last EXCEPT ![e.stream] = 0] ELSE last
  BY DEF Pop
<1>3. /\ packet_buffer' \in Seq(Entry) /\ Len(packet_buffer') = n - 1
      /\ \A i \in 1 .. n - 1 : packet_buffer'[i] = packet_buffer[i + 1]
      /\ e \in Entry /\ e = packet_buffer[1] /\ 1 \in 1 .. n
  BY <1>1, <1>2
<1> HIDE DEF n, e
<1>4. e.stream \in Stream /\ e.id \in Nat
  BY <1>3 DEF Entry
<1>5. last' \in [Stream -> Nat]
  BY <1>1, <1>2, <1>4
<1>6. \A j \in 1 .. n - 1 : packet_buffer'[j] = packet_buffer[j + 1] /\ j + 1 \in 2 .. n
  BY <1>1, <1>3
<1>7. ASSUME NEW s \in Stream PROVE Pointer(s)'
  <2>1. Pointer(s)
    BY DEF Books
  <2>2. CASE last[s] = 0 /\ \A i \in 1 .. n : packet_buffer[i].stream # s
    <3>1. e.stream # s
      BY <1>3, <2>2
    <3>2. last'[s] = 0
      BY <1>1, <1>2, <1>4, <2>2, <3>1
    <3>3. \A i \in 1 .. n - 1 : packet_buffer'[i].stream # s
      BY <1>1, <1>6, <2>2
    <3> QED
      BY <1>3, <3>2, <3>3 DEF Pointer
  <2>3. CASE \E i \in 1 .. n :
               /\ packet_buffer[i].stream = s /\ packet_buffer[i].id = last[s]
               /\ packet_buffer[i].dts = cur_dts[s]
               /\ \A j \in 1 .. n : packet_buffer[j].stream = s => j <= i
    <3>1. PICK i \in 1 .. n :
               /\ packet_buffer[i].stream = s /\ packet_buffer[i].id = last[s]
               /\ packet_buffer[i].dts = cur_dts[s]
               /\ \A j \in 1 .. n : packet_buffer[j].stream = s => j <= i
      BY <2>3
    <3>2. CASE i = 1
      <4>1. last'[s] = 0
        BY <1>1, <1>2, <1>3, <3>1, <3>2
      <4>2. \A j \in 1 .. n - 1 : packet_buffer'[j].stream # s
        BY <1>1, <1>6, <3>1, <3>2
      <4> QED
        BY <1>3, <4>1, <4>2 DEF Pointer
    <3>3. CASE i # 1
      <4>1. last[s] # e.id
        BY <1>1, <1>3, <3>1, <3>3, ListIs DEF Unique, n
      <4>2. last'[s] = last[s]
        BY <1>1, <1>2, <1>4, <4>1
      <4>3. i - 1 \in 1 .. n - 1 /\ packet_buffer'[i - 1] = packet_buffer[i]
        <5>1. i - 1 \in 1 .. n - 1 /\ (i - 1) + 1 = i
          BY <1>1, <3>1, <3>3
        <5> QED
          BY <1>3, <5>1
      <4>4. \A j \in 1 .. n - 1 : packet_buffer'[j].stream = s => j <= i - 1
        BY <1>1, <1>6, <3>1
      <4>5. packet_buffer'[i - 1].stream = s /\ packet_buffer'[i - 1].id = last'[s]
            /\ packet_buffer'[i - 1].dts = cur_dts'[s]
        BY <3>1, <4>2, <4>3
      <4> QED
        BY <1>3, <4>3, <4>4, <4>5 DEF Pointer
    <3> QED
      BY <3>2, <3>3
  <2> QED
    BY <2>1, <2>2, <2>3 DEF Pointer, n
<1> QED
  BY <1>3, <1>5, <1>7 DEF e

LEMMA BooksPutOut ==
  ASSUME Books, PutOut
  PROVE  Books' /\ All' = All
<1>1. /\ TypeOK /\ packet_buffer # <<>> /\ Pop
      /\ packet_buffer' = Tail(packet_buffer)
      /\ written' = Append(written, Head(packet_buffer))
      /\ UNCHANGED <<cur_dts, mpc, ret, lost, nb_accepted>>
  BY DEF Books, PutOut, Outputs, Pop
<1>2. All' = All
  BY <1>1, HeadMoves DEF All, TypeOK
<1>3. /\ packet_buffer' \in Seq(Entry) /\ last' \in [Stream -> Nat]
      /\ Head(packet_buffer) \in Entry
      /\ \A s \in Stream : Pointer(s)'
  BY <1>1, PopSound
<1>4. forced' \in BOOLEAN /\ written' \in Seq(Entry)
  BY <1>1, <1>3 DEF PutOut, TypeOK
<1>5. TypeOK'
  BY <1>1, <1>3, <1>4 DEF TypeOK
<1>6. InOrder(All') /\ Unique(All') /\ Numbered(All)'
  BY <1>1, <1>2 DEF Books, Numbered
<1>7. Len(All') + Cardinality(lost') = nb_accepted'
  BY <1>1, <1>2 DEF Books
<1> QED
  BY <1>2, <1>3, <1>5, <1>6, <1>7 DEF Books

\* A write that fails takes the packet out of the file's future.
LEMMA FailsIs ==
  ASSUME Books, PutOutFails
  PROVE  /\ Len(written) + 1 \in 1 .. Len(All)
         /\ All' = Without(All, Len(written) + 1)
         /\ lost' = lost \cup {All[Len(written) + 1]}
         /\ Head(packet_buffer) = All[Len(written) + 1]
<1>1. /\ TypeOK /\ packet_buffer # <<>>
      /\ packet_buffer' = Tail(packet_buffer) /\ written' = written
      /\ lost' = lost \cup {Head(packet_buffer)}
  BY DEF Books, PutOutFails, Outputs, Pop
<1>2. packet_buffer \in Seq(Entry) /\ written \in Seq(Entry)
  BY <1>1 DEF TypeOK
<1>3. 1 \in 1 .. Len(packet_buffer) /\ Head(packet_buffer) = packet_buffer[1]
  BY <1>1, <1>2
<1>4. /\ Len(written) + 1 \in 1 .. Len(All)
      /\ All[Len(written) + 1] = packet_buffer[1]
  BY <1>1, <1>3, AllIs
<1>5. All' = Without(All, Len(written) + 1)
  BY <1>1, <1>2, TailBehind DEF All
<1> QED
  BY <1>1, <1>3, <1>4, <1>5

LEMMA BooksFails ==
  ASSUME Books, PutOutFails
  PROVE  Books'
<1>1. /\ TypeOK /\ packet_buffer # <<>> /\ Pop /\ written' = written
      /\ lost' = lost \cup {Head(packet_buffer)}
      /\ UNCHANGED <<cur_dts, nb_accepted>>
      /\ mpc' = Finished /\ ret' = "EIO" /\ forced' \in BOOLEAN
  BY DEF Books, PutOutFails, Outputs, TypeOK
<1>2. /\ packet_buffer' \in Seq(Entry) /\ last' \in [Stream -> Nat]
      /\ Head(packet_buffer) \in Entry
      /\ \A s \in Stream : Pointer(s)'
  BY <1>1, PopSound
<1>3. lost' \subseteq Entry /\ IsFiniteSet(lost')
  BY <1>1, <1>2, FS_AddElement DEF TypeOK
<1>4. TypeOK'
  BY <1>1, <1>2, <1>3 DEF TypeOK, Finished
<1>5. PICK k \in 1 .. Len(All) :
        /\ All' = Without(All, k) /\ lost' = lost \cup {All[k]}
        /\ Head(packet_buffer) = All[k]
  BY FailsIs
<1>6. All \in Seq(Entry) /\ Len(All) \in Nat
  BY <1>1, AllIs
<1>7. InOrder(All') /\ Unique(All')
  BY <1>5, <1>6, WithoutPairs DEF Books
<1>8. /\ Len(All') = Len(All) - 1
      /\ \A i \in 1 .. Len(All) - 1 : All'[i] = IF i < k THEN All[i] ELSE All[i + 1]
  <2> DEFINE r == Without(All, k)
  <2>1. /\ Len(r) = Len(All) - 1
        /\ \A i \in 1 .. Len(All) - 1 : r[i] = IF i < k THEN All[i] ELSE All[i + 1]
    BY <1>5, <1>6, WithoutIs, Zenon
  <2>2. All' = r
    BY <1>5
  <2> HIDE DEF r
  <2> QED
    BY <2>1, <2>2
<1>9. \A i, j \in 1 .. Len(All) : All[i].id = All[j].id => i = j
  BY DEF Books, Unique
<1>10. /\ \A i \in 1 .. Len(All) : All[i].id \in 1 .. nb_accepted
       /\ \A e \in lost : e.id \in 1 .. nb_accepted
       /\ \A i \in 1 .. Len(All), e \in lost : All[i].id # e.id
       /\ \A m \in 1 .. nb_accepted :
             (\E i \in 1 .. Len(All) : All[i].id = m) \/ (\E e \in lost : e.id = m)
  BY DEF Books, Numbered
<1>11. ASSUME NEW i \in 1 .. Len(All')
       PROVE  \E j \in 1 .. Len(All) : j # k /\ All'[i] = All[j]
  <2>1. CASE i < k
    BY <1>5, <1>6, <1>8, <2>1
  <2>2. CASE i >= k
    <3>1. i + 1 \in 1 .. Len(All) /\ i + 1 # k
      BY <1>5, <1>6, <1>8, <2>2
    <3>2. All'[i] = All[i + 1]
      BY <1>5, <1>6, <1>8, <2>2
    <3> QED
      BY <3>1, <3>2
  <2> QED
    BY <1>5, <1>6, <1>8, <2>1, <2>2
<1>12. ASSUME NEW j \in 1 .. Len(All), j # k
       PROVE  \E i \in 1 .. Len(All') : All'[i] = All[j]
  <2>1. CASE j < k
    <3>1. j \in 1 .. Len(All')
      BY <1>5, <1>6, <1>8, <2>1
    <3> QED
      BY <1>8, <2>1, <3>1
  <2>2. CASE j > k
    <3>1. j - 1 \in 1 .. Len(All') /\ ~(j - 1 < k) /\ (j - 1) + 1 = j
      BY <1>5, <1>6, <1>8, <2>2
    <3>2. All'[j - 1] = All[j]
      BY <1>8, <3>1
    <3> QED
      BY <3>1, <3>2
  <2> QED
    BY <1>5, <1>12, <2>1, <2>2
<1>13. Numbered(All)'
  <2>1. \A i \in 1 .. Len(All') : All'[i].id \in 1 .. nb_accepted'
    BY <1>1, <1>10, <1>11
  <2>2. \A e \in lost' : e.id \in 1 .. nb_accepted'
    BY <1>1, <1>5, <1>10
  <2>3. \A i \in 1 .. Len(All'), e \in lost' : All'[i].id # e.id
    BY <1>5, <1>9, <1>10, <1>11
  <2>4. ASSUME NEW m \in 1 .. nb_accepted'
        PROVE  (\E i \in 1 .. Len(All') : All'[i].id = m) \/ (\E e \in lost' : e.id = m)
    <3>1. CASE \E j \in 1 .. Len(All) : All[j].id = m
      <4>1. PICK j \in 1 .. Len(All) : All[j].id = m
        BY <3>1
      <4>2. CASE j = k
        BY <1>5, <4>1, <4>2
      <4>3. CASE j # k
        <5>1. PICK i \in 1 .. Len(All') : All'[i] = All[j]
          BY <1>12, <4>3
        <5> QED
          BY <4>1, <5>1
      <4> QED
        BY <4>2, <4>3
    <3>2. CASE \E e \in lost : e.id = m
      BY <1>5, <3>2
    <3> QED
      BY <1>1, <1>10, <3>1, <3>2
  <2> QED
    BY <2>1, <2>2, <2>3, <2>4 DEF Numbered
<1>14. Len(All') + Cardinality(lost') = nb_accepted'
  <2>1. All[k] \notin lost
    BY <1>5, <1>10
  <2>2. Cardinality(lost') = Cardinality(lost) + 1
    BY <1>1, <1>5, <2>1, FS_AddElement DEF TypeOK
  <2>3. Cardinality(lost) \in Nat /\ Len(All) + Cardinality(lost) = nb_accepted
    BY FS_CardinalityType DEF Books, TypeOK
  <2> QED
    BY <1>1, <1>6, <1>8, <2>2, <2>3
<1> QED
  BY <1>2, <1>4, <1>7, <1>13, <1>14 DEF Books

LEMMA BooksStep == Books /\ [Move]_muxVars => Books'
<1> SUFFICES ASSUME Books, [Move]_muxVars PROVE Books'
  OBVIOUS
<1>1. mpc \in {"idle", "write", "flush", "trailer", "done"}
      /\ ret \in {"OK", "EINVAL", "EIO"} /\ forced \in BOOLEAN
  BY DEF Books, TypeOK
<1>2. CASE \E s \in Stream, dts \in Int : Accept(s, dts)
  BY <1>2, BooksAccept
<1>3. CASE Refused
  BY <1>1, <1>3, BooksAlone DEF Refused
<1>4. CASE FlushQueue
  BY <1>1, <1>4, BooksAlone DEF FlushQueue
<1>5. CASE WriteTrailer
  BY <1>1, <1>5, BooksAlone DEF WriteTrailer
<1>6. CASE PutOut
  BY <1>6, BooksPutOut
<1>7. CASE PutOutFails
  BY <1>7, BooksFails
<1>8. CASE CallReturns
  BY <1>1, <1>8, BooksAlone DEF CallReturns, Finished
<1>9. CASE UNCHANGED muxVars
  BY <1>1, <1>9, BooksAlone DEF muxVars
<1> QED
  BY <1>2, <1>3, <1>4, <1>5, <1>6, <1>7, <1>8, <1>9 DEF Move, MuxStep

\* For any client the books of the muxer balance: every packet is in one place.
THEOREM BooksCorrect == MuxSpec => []Books
BY BooksInit, BooksStep, NextMoves, PTL DEF MuxSpec

\* Whatever the client sends and whichever writes fail, every packet that
\* was accepted is in the file, in the list, or lost with the write that
\* failed, and in one of them only (mux.c 1132-1148).
THEOREM ConservedCorrect == MuxSpec => []Conserved
<1>1. Books => Conserved
  <2> SUFFICES ASSUME Books PROVE Conserved
    OBVIOUS
  <2>1. All \in Seq(Entry) /\ All = written \o packet_buffer
    BY AllIs DEF Books, All
  <2>2. Entries(All) = {All[i] : i \in 1 .. Len(All)}
    BY DEF Entries
  <2>3. {e.id : e \in Entries(All) \cup lost} = 1 .. nb_accepted
    <3>1. ASSUME NEW e \in Entries(All) \cup lost PROVE e.id \in 1 .. nb_accepted
      BY <2>2 DEF Books, Numbered
    <3>2. ASSUME NEW m \in 1 .. nb_accepted
          PROVE  \E e \in Entries(All) \cup lost : e.id = m
      BY <2>2 DEF Books, Numbered
    <3> QED
      BY <3>1, <3>2
  <2>4. Len(All) + Cardinality(lost) = nb_accepted
    BY DEF Books
  <2> QED
    BY <2>1, <2>3, <2>4 DEF Conserved
<1> QED
  BY <1>1, BooksCorrect, PTL

-----------------------------------------------------------------------------
(* Timely is inductive for a client that never goes back.                  *)

LEMMA TimelyInit == MuxInit => Timely
BY DEF MuxInit, Timely, Sorted, All, NothingWithheld

\* Steps that move no packet.
LEMMA TimelyAlone ==
  ASSUME Timely, UNCHANGED <<packet_buffer, written, cur_dts, forced>>,
         mpc' \notin {"trailer", "done"} => mpc \notin {"trailer", "done"},
         NothingWithheld'
  PROVE  Timely'
<1>1. All' = All
  BY DEF All
<1>2. Settled => Settled'
  BY DEF Settled, Latest
<1> QED
  BY <1>1, <1>2 DEF Timely, Sorted

LEMMA TimelyAccept ==
  ASSUME Books, Timely, NeverBack, NEW s, NEW dts \in Int, Accept(s, dts)
  PROVE  Timely'
<1> DEFINE n == Len(packet_buffer)
           w == Len(written)
           from == SearchFrom(s)
<1>1. PICK pkt \in Entry, k \in 1 .. n + 1 :
           /\ s \in Stream /\ pkt.id = nb_accepted + 1
           /\ pkt.stream = s /\ pkt.dts = dts
           /\ k = Position(pkt) /\ k \in SearchFrom(s) .. n + 1
           /\ packet_buffer' = Insert(packet_buffer, k, pkt)
           /\ last' = [last EXCEPT ![s] = pkt.id]
           /\ All' = Insert(All, w + k, pkt)
           /\ w + k \in 1 .. Len(All) + 1
  BY AcceptIs
<1>2. /\ TypeOK /\ n \in Nat /\ w \in Nat /\ k \in Nat /\ k >= 1 /\ k <= n + 1
      /\ packet_buffer \in Seq(Entry) /\ written \in Seq(Entry)
      /\ written' = written /\ mpc = "idle" /\ mpc' = "write" /\ forced' = forced
      /\ cur_dts' = [cur_dts EXCEPT ![s] = dts] /\ dts \in Int
      /\ cur_dts \in [Stream -> Int \cup {NoDts}]
  BY <1>1 DEF Books, TypeOK, Accept
<1>3. from \in 1 .. n + 1 /\ from <= k
  BY <1>1, <1>2, SearchFromIs
<1>4. cur_dts[s] \in Int => cur_dts[s] <= dts
  BY <1>1, <1>2 DEF NeverBack
<1>5. Sorted(packet_buffer) /\ \A i \in 1 .. n : packet_buffer[i] \in Entry
  BY <1>2 DEF Timely
<1>6. \A i, j \in 1 .. n : i < j => ~After(packet_buffer[i], packet_buffer[j])
  BY <1>5 DEF Sorted
<1>7. /\ \A i \in from .. k - 1 : ~After(packet_buffer[i], pkt)
      /\ \A i \in k .. n : After(packet_buffer[i], pkt)
  BY <1>1, <1>5, PositionFits
<1>8. from > 1 => packet_buffer[from - 1].stream = s
                  /\ packet_buffer[from - 1].dts = cur_dts[s]
  BY <1>1, SearchFromIs
<1> HIDE DEF n, w, from
<1>9. ASSUME NEW i \in 1 .. k - 1
      PROVE  ~After(packet_buffer[i], pkt)
  <2>1. CASE i >= from
    BY <1>2, <1>3, <1>7, <2>1
  <2>2. CASE i < from
    <3>1. /\ from - 1 \in 1 .. n /\ i <= from - 1 /\ i \in 1 .. n /\ from > 1
          /\ packet_buffer[from - 1] \in Entry /\ packet_buffer[i] \in Entry
      BY <1>2, <1>3, <1>5, <2>2
    <3>2. /\ packet_buffer[from - 1].stream = pkt.stream
          /\ packet_buffer[from - 1].dts <= pkt.dts
      BY <1>1, <1>4, <1>8, <3>1 DEF Entry
    <3>3. ~After(packet_buffer[from - 1], pkt)
      BY <3>1, <3>2, SameStreamOrder
    <3>4. CASE i < from - 1
      BY <1>6, <3>1, <3>3, <3>4, NotAfterChain
    <3>5. CASE i = from - 1
      BY <3>3, <3>5
    <3> QED
      BY <1>3, <3>1, <3>4, <3>5
  <2> QED
    BY <1>3, <2>1, <2>2
<1>10. ASSUME NEW i \in k .. n
       PROVE  ~After(pkt, packet_buffer[i])
  BY <1>1, <1>2, <1>5, <1>7, AfterOneWay
<1>11. Sorted(packet_buffer')
  BY <1>1, <1>2, <1>5, <1>9, <1>10, InsertSorted DEF n
<1>12. ASSUME ~forced, NEW i \in 1 .. w
       PROVE  ~After(written[i], pkt)
  <2>1. Settled /\ written[i] \in Entry
    BY <1>2, <1>12 DEF Timely, w
  <2>2. cur_dts[s] \in Int /\ ~After(written[i], Latest(s))
    BY <1>1, <1>12, <2>1 DEF Settled, w
  <2>3. Latest(s) \in Entry /\ Latest(s).stream = s /\ Latest(s).dts = cur_dts[s]
    BY <1>1, <2>2 DEF Latest, Entry
  <2>4. ~After(Latest(s), pkt)
    BY <1>1, <1>4, <2>2, <2>3, SameStreamOrder
  <2> QED
    BY <2>1, <2>2, <2>3, <2>4, NotAfterChain
<1>13. ~forced' => Sorted(All')
  <2> SUFFICES ASSUME ~forced PROVE Sorted(All')
    BY <1>2
  <2>1. /\ All \in Seq(Entry) /\ Len(All) = w + n /\ Sorted(All)
        /\ \A i \in 1 .. w : All[i] = written[i]
        /\ \A i \in 1 .. n : All[w + i] = packet_buffer[i]
    BY <1>2, AllIs DEF Timely, n, w
  <2>2. ASSUME NEW i \in 1 .. w + k - 1
        PROVE  ~After(All[i], pkt)
    <3>1. CASE i <= w
      BY <1>2, <1>12, <2>1, <3>1
    <3>2. CASE i > w
      <4>1. i - w \in 1 .. k - 1 /\ w + (i - w) = i
        BY <1>2, <3>2
      <4>2. PICK j \in 1 .. k - 1 : i = w + j
        BY <4>1
      <4>3. All[i] = packet_buffer[j]
        BY <1>2, <2>1, <4>2
      <4> QED
        BY <1>9, <4>3
    <3> QED
      BY <1>2, <3>1, <3>2
  <2>3. ASSUME NEW i \in w + k .. Len(All)
        PROVE  ~After(pkt, All[i])
    <3>1. i - w \in k .. n /\ w + (i - w) = i
      BY <1>2, <2>1
    <3>2. PICK j \in k .. n : i = w + j
      BY <3>1
    <3>3. All[i] = packet_buffer[j]
      BY <1>2, <2>1, <3>2
    <3> QED
      BY <1>10, <3>3
  <2>4. PICK m \in 1 .. Len(All) + 1 : m = w + k
    BY <1>1
  <2>5. /\ \A i \in 1 .. m - 1 : ~After(All[i], pkt)
        /\ \A i \in m .. Len(All) : ~After(pkt, All[i])
    BY <1>2, <2>2, <2>3, <2>4
  <2>6. Sorted(Insert(All, m, pkt))
    BY <1>1, <2>1, <2>5, InsertSorted
  <2> QED
    BY <1>1, <2>4, <2>6
<1>14. ~forced' /\ written' # <<>> => Settled'
  <2> SUFFICES ASSUME ~forced, written # <<>>, NEW t \in Stream
               PROVE  /\ cur_dts'[t] \in Int
                      /\ \A i \in 1 .. w : ~After(written[i], Latest(t)')
    BY <1>2 DEF Settled, w
  <2>1. CASE t = s
    <3>1. cur_dts'[t] = dts /\ Latest(t)'.stream = pkt.stream /\ Latest(t)'.dts = pkt.dts
      BY <1>1, <1>2, <2>1 DEF Latest
    <3>2. \A i \in 1 .. w : ~After(written[i], Latest(t)')
      BY <1>12, <3>1, AfterLike
    <3> QED
      BY <1>2, <3>1, <3>2
  <2>2. CASE t # s
    <3>1. cur_dts'[t] = cur_dts[t] /\ Latest(t)' = Latest(t) /\ Settled
      BY <1>1, <1>2, <2>2 DEF Latest, Timely
    <3> QED
      BY <3>1 DEF Settled, w
  <2> QED
    BY <2>1, <2>2
<1>15. NothingWithheld'
  BY <1>2 DEF NothingWithheld
<1> QED
  BY <1>11, <1>13, <1>14, <1>15 DEF Timely

LEMMA SortedTail ==
  ASSUME NEW q \in Seq(Entry), q # <<>>, Sorted(q)
  PROVE  Sorted(Tail(q))
<1>1. /\ Len(Tail(q)) = Len(q) - 1 /\ Len(q) \in Nat
      /\ \A i \in 1 .. Len(q) - 1 : Tail(q)[i] = q[i + 1] /\ i + 1 \in 1 .. Len(q)
  OBVIOUS
<1> QED
  BY <1>1 DEF Sorted

LEMMA TimelyPutOut ==
  ASSUME Books, Timely, PutOut
  PROVE  Timely'
<1> DEFINE n == Len(packet_buffer)
           w == Len(written)
<1>1. /\ TypeOK /\ packet_buffer # <<>> /\ mpc \in {"write", "flush", "trailer"}
      /\ packet_buffer' = Tail(packet_buffer)
      /\ written' = Append(written, Head(packet_buffer))
      /\ forced' = (forced \/ (mpc # "trailer" /\ ~EveryStreamWaits))
      /\ UNCHANGED <<cur_dts, mpc, ret>>
  BY DEF Books, PutOut, Outputs, Pop
<1>2. /\ packet_buffer \in Seq(Entry) /\ written \in Seq(Entry)
      /\ cur_dts \in [Stream -> Int \cup {NoDts}]
      /\ n \in Nat /\ w \in Nat /\ n >= 1
  BY <1>1 DEF TypeOK
<1>3. All' = All
  BY BooksPutOut
<1>4. Sorted(packet_buffer')
  BY <1>1, <1>2, SortedTail DEF Timely
<1>5. ~forced' => ~forced /\ Sorted(All')
  BY <1>1, <1>3 DEF Timely
<1>6. /\ All \in Seq(Entry) /\ Len(All) = w + n
      /\ \A i \in 1 .. w : All[i] = written[i]
      /\ \A i \in 1 .. n : All[w + i] = packet_buffer[i]
  BY <1>1, AllIs
<1>7. Len(written') = w + 1 /\ \A j \in 1 .. w + 1 : written'[j] = All[j]
  <2>1. /\ Len(written') = w + 1 /\ \A j \in 1 .. w : written'[j] = written[j]
        /\ written'[w + 1] = packet_buffer[1]
    BY <1>1, <1>2
  <2> QED
    BY SMTT(60), <1>2, <1>6, <2>1
<1> HIDE DEF n, w
<1>8. ASSUME ~forced', mpc' \notin {"trailer", "done"}, NEW s \in Stream
      PROVE  /\ cur_dts'[s] \in Int
             /\ \A j \in 1 .. Len(written') : ~After(written'[j], Latest(s)')
  <2>1. last[s] # 0 /\ Latest(s)' = Latest(s) /\ cur_dts'[s] = cur_dts[s]
    BY <1>1, <1>8 DEF EveryStreamWaits, Waiting, Latest
  <2>2. PICK i \in 1 .. n : /\ packet_buffer[i].stream = s
                            /\ packet_buffer[i].dts = cur_dts[s]
    BY <2>1 DEF Books, Pointer, n
  <2>3. packet_buffer[i] \in Entry /\ cur_dts[s] \in Int
    <3>1. packet_buffer[i] \in Entry
      BY <1>2, <2>2 DEF n
    <3>2. packet_buffer[i].dts \in Int
      BY <3>1 DEF Entry
    <3> QED
      BY <2>2, <3>1, <3>2
  <2>4. PICK m \in 1 .. Len(All) : m = w + i /\ All[m] = packet_buffer[i]
    BY <1>2, <1>6, <2>2
  <2>5. ASSUME NEW j \in 1 .. w + 1
        PROVE  ~After(written'[j], Latest(s))
    <3>1. j \in 1 .. Len(All) /\ j <= m
      BY <1>2, <1>6, <2>2, <2>4
    <3>2. ~After(All[j], All[m])
      <4>1. CASE j < m
        BY <1>3, <1>5, <1>8, <3>1, <4>1 DEF Sorted
      <4>2. CASE j = m
        <5>1. All[m] \in Entry /\ All[m].dts \in Int
          BY <2>3, <2>4 DEF Entry
        <5> QED
          BY <4>2, <5>1, SameStreamOrder
      <4> QED
        BY <1>2, <3>1, <4>1, <4>2
    <3>3. Latest(s).stream = s /\ Latest(s).dts = cur_dts[s]
      BY DEF Latest
    <3> QED
      BY <1>7, <2>2, <2>4, <3>2, <3>3, AfterLike
  <2> QED
    BY <1>7, <2>1, <2>3, <2>5
<1>9. NothingWithheld'
  BY <1>1 DEF NothingWithheld
<1>10. ~forced' /\ mpc' \notin {"trailer", "done"} => Settled'
  BY <1>8 DEF Settled
<1> QED
  BY <1>4, <1>5, <1>9, <1>10 DEF Timely

LEMMA TimelyFails ==
  ASSUME Books, Timely, PutOutFails
  PROVE  Timely'
<1>1. /\ TypeOK /\ packet_buffer # <<>> /\ mpc \in {"write", "flush", "trailer"}
      /\ packet_buffer' = Tail(packet_buffer) /\ written' = written
      /\ mpc' = Finished /\ ret' = "EIO" /\ cur_dts' = cur_dts
      /\ forced' = (forced \/ (mpc # "trailer" /\ ~EveryStreamWaits))
  BY DEF Books, PutOutFails, Outputs, Pop
<1>2. Sorted(packet_buffer')
  BY <1>1, SortedTail DEF Timely, TypeOK
<1>3. ~forced' => Sorted(All')
  <2>1. All' = Without(All, Len(written) + 1) /\ Len(written) + 1 \in 1 .. Len(All)
    BY FailsIs
  <2> QED
    BY <1>1, <2>1, AllIs, WithoutPairs DEF Timely
<1>4. ~forced' /\ mpc' \notin {"trailer", "done"} /\ written' # <<>> => Settled'
  BY <1>1 DEF Timely, Settled, Latest, Finished
<1>5. NothingWithheld'
  BY <1>1 DEF NothingWithheld
<1> QED
  BY <1>2, <1>3, <1>4, <1>5 DEF Timely

\* The loop stops where it may: the interleaver looks at the last packets of
\* the streams only, and in an ordered list these are the furthest ones.
LEMMA TimelyReturns ==
  ASSUME Books, Timely, CallReturns
  PROVE  Timely'
<1> DEFINE n == Len(packet_buffer)
<1>1. /\ packet_buffer \in Seq(Entry) /\ n \in Nat /\ ~Outputs
      /\ mpc \in {"write", "flush", "trailer"} /\ mpc' = Finished
      /\ UNCHANGED <<packet_buffer, last, cur_dts, written, forced>>
  BY DEF Books, TypeOK, CallReturns
<1>2. ASSUME packet_buffer # <<>>
      PROVE  /\ mpc = "write" /\ ~EveryStreamWaits /\ ~Overdue
  BY <1>1, <1>2 DEF Outputs
<1>3. ASSUME packet_buffer # <<>>, MaxDelta > 0, \A s \in Sparse : Waiting(s),
             NEW e \in Entries(packet_buffer), e.stream \notin Subtitle
      PROVE  Time(e) - Time(packet_buffer[1]) <= MaxDelta
  <2>1. PICK j \in 1 .. n : e = packet_buffer[j]
    BY DEF Entries
  <2>2. e \in Entry /\ e.stream \in Stream
    <3>1. e \in Entry
      BY <1>1, <2>1
    <3> QED
      BY <3>1 DEF Entry
  <2>3. PICK i \in 1 .. n : /\ packet_buffer[i].stream = e.stream
                            /\ packet_buffer[i].id = last[e.stream]
                            /\ j <= i
    BY <1>1, <2>1, <2>2 DEF Books, Pointer
  <2>4. ~After(e, packet_buffer[i]) \/ i = j
    BY <1>1, <2>1, <2>3 DEF Timely, Sorted
  <2>5. /\ packet_buffer[i] \in Entry /\ packet_buffer[1] \in Entry
        /\ packet_buffer[i] \in Entries(packet_buffer)
    BY <1>1, <2>1 DEF Entries
  <2>6. Time(e) <= Time(packet_buffer[i])
    BY <2>1, <2>2, <2>4, <2>5, TimeType, AfterByTime
  <2>7. ~(Time(packet_buffer[i]) - Time(packet_buffer[1]) > MaxDelta)
    BY <1>2, <1>3, <2>3, <2>5 DEF Overdue
  <2> QED
    BY <2>2, <2>5, <2>6, <2>7, TimeType, TimeAssumption
<1>4. NothingWithheld'
  <2>1. ASSUME packet_buffer' # <<>>
        PROVE  /\ mpc' # "done"
               /\ ~EveryStreamWaits'
               /\ MaxDelta > 0 /\ (\A s \in Sparse : Waiting(s)') =>
                    \A e \in Entries(packet_buffer') :
                      e.stream \notin Subtitle =>
                        Time(e) - Time(packet_buffer'[1]) <= MaxDelta
    <3>1. packet_buffer' = packet_buffer /\ \A s : Waiting(s)' <=> Waiting(s)
      BY <1>1 DEF Waiting
    <3>2. mpc' # "done" /\ ~EveryStreamWaits'
      BY <1>1, <1>2, <2>1, <3>1 DEF Finished, EveryStreamWaits
    <3> QED
      BY <1>3, <2>1, <3>1, <3>2
  <2> QED
    BY <2>1 DEF NothingWithheld
<1> QED
  BY <1>1, <1>4, TimelyAlone DEF Finished

LEMMA TimelyStep ==
  Books /\ Timely /\ [Move]_muxVars /\ [NeverBack]_muxVars => Timely'
<1> SUFFICES ASSUME Books, Timely, [Move]_muxVars, [NeverBack]_muxVars
             PROVE  Timely'
  OBVIOUS
<1>1. CASE UNCHANGED muxVars
  <2>1. NothingWithheld'
    BY <1>1 DEF Timely, NothingWithheld, muxVars, EveryStreamWaits, Waiting
  <2> QED
    BY <1>1, <2>1, TimelyAlone DEF muxVars
<1>2. CASE NeverBack /\ \E s \in Stream, dts \in Int : Accept(s, dts)
  BY <1>2, TimelyAccept
<1>3. CASE Refused
  <2>1. /\ ret' = "EINVAL" /\ mpc' = mpc
        /\ UNCHANGED <<packet_buffer, written, cur_dts, forced>>
    BY <1>3 DEF Refused
  <2>2. NothingWithheld'
    BY <2>1 DEF NothingWithheld
  <2> QED
    BY <2>1, <2>2, TimelyAlone
<1>4. CASE FlushQueue \/ WriteTrailer
  <2>1. /\ mpc = "idle" /\ mpc' \in {"flush", "trailer"}
        /\ UNCHANGED <<packet_buffer, written, cur_dts, forced>>
    BY <1>4 DEF FlushQueue, WriteTrailer
  <2>2. NothingWithheld'
    BY <2>1 DEF NothingWithheld
  <2> QED
    BY <2>1, <2>2, TimelyAlone
<1>5. CASE PutOut
  BY <1>5, TimelyPutOut
<1>6. CASE PutOutFails
  BY <1>6, TimelyFails
<1>7. CASE CallReturns
  BY <1>7, TimelyReturns
<1> QED
  BY <1>1, <1>2, <1>3, <1>4, <1>5, <1>6, <1>7 DEF Move, MuxStep

-----------------------------------------------------------------------------
(* What the muxer promises.                                                *)

\* For a client that never goes back, list and file are in order of time.
THEOREM TimelyCorrect == MuxSpec /\ [][NeverBack]_muxVars => []Timely
<1>1. MuxInit => Timely
  BY TimelyInit
<1>2. Books /\ Timely /\ [Move]_muxVars /\ [NeverBack]_muxVars => Timely'
  BY TimelyStep
<1> QED
  BY <1>1, <1>2, BooksCorrect, NextMoves, PTL DEF MuxSpec

LEMMA ListSoundFollows == Books /\ Timely => ListSound
<1> SUFFICES ASSUME Books, Timely PROVE ListSound
  OBVIOUS
<1>1. Sorted(packet_buffer)
  BY DEF Timely
<1>2. ASSUME NEW s \in Stream
      PROVE  LET mine == {i \in 1 .. Len(packet_buffer) : packet_buffer[i].stream = s}
             IN  IF mine = {} THEN last[s] = 0
                 ELSE \E i \in mine : /\ packet_buffer[i].id = last[s]
                                      /\ \A j \in mine : j <= i
  <2>1. Pointer(s)
    BY DEF Books
  <2>2. CASE last[s] = 0 /\ \A i \in 1 .. Len(packet_buffer) : packet_buffer[i].stream # s
    BY <2>2
  <2>3. CASE \E i \in 1 .. Len(packet_buffer) :
               /\ packet_buffer[i].stream = s /\ packet_buffer[i].id = last[s]
               /\ packet_buffer[i].dts = cur_dts[s]
               /\ \A j \in 1 .. Len(packet_buffer) :
                    packet_buffer[j].stream = s => j <= i
    BY <2>3
  <2> QED
    BY <2>1, <2>2, <2>3 DEF Pointer
<1> QED
  BY <1>1, <1>2 DEF ListSound

LEMMA InterleavedFollows == Books /\ Timely => Interleaved
BY DEF Books, Timely, Interleaved, InOrder, All

\* Whatever the client sends: a stream's pointer names its last packet in the
\* list or nothing, never one that was written, and a stream's packets keep
\* the order they were sent in (mux.c 854-926, 1061-1068).
THEOREM StreamOrderCorrect ==
  MuxSpec => [](InOrder(All) /\ \A s \in Stream : Pointer(s))
<1>1. Books => InOrder(All) /\ \A s \in Stream : Pointer(s)
  BY DEF Books
<1> QED
  BY <1>1, BooksCorrect, PTL

\* The list is ordered by dts and its pointers are right, as long as the
\* client keeps its contract (mux.c 854-926).
THEOREM ListSoundCorrect == MuxSpec /\ [][NeverBack]_muxVars => []ListSound
BY ListSoundFollows, BooksCorrect, TimelyCorrect, PTL

\* The file is interleaved: ordered by dts over all streams unless packets
\* were put out ahead of a stream, in the order sent within each stream
\* either way (avformat.h 2544-2546, mux.c 928-1076).
THEOREM InterleavedCorrect == MuxSpec /\ [][NeverBack]_muxVars => []Interleaved
BY InterleavedFollows, BooksCorrect, TimelyCorrect, PTL

\* A call that succeeds leaves nothing in the list that it could have written,
\* and a trailer leaves nothing at all (mux.c 1132-1148, 1294-1338).
THEOREM NothingWithheldCorrect ==
  MuxSpec /\ [][NeverBack]_muxVars => []NothingWithheld
<1>1. Timely => NothingWithheld
  BY DEF Timely
<1> QED
  BY <1>1, TimelyCorrect, PTL

\* The current dts are dts that were sent.
Sent == \A s \in Stream : cur_dts[s] \in Int => cur_dts[s] \in Dts

LEMMA GrowingStep ==
  ASSUME Dts \subseteq Nat \/ 0 \notin Dts
  PROVE  /\ MuxInit => Sent
         /\ Books /\ Sent /\ [MuxNext]_muxVars => [NeverBack]_muxVars /\ Sent'
<1>1. ASSUME MuxInit PROVE Sent
  BY <1>1, DtsAssumption DEF MuxInit, Sent
<1>2. ASSUME Books, Sent, [MuxNext]_muxVars
      PROVE  [NeverBack]_muxVars /\ Sent'
  <2>1. cur_dts \in [Stream -> Int \cup {NoDts}]
    BY <1>2 DEF Books, TypeOK
  <2>2. CASE \E s \in -1 .. NbStreams, dts \in Dts : Accept(s, dts)
    <3>1. PICK s \in Stream, dts \in Dts :
            Monotone(s, dts) /\ cur_dts' = [cur_dts EXCEPT ![s] = dts]
      BY <2>2 DEF Accept
    <3>2. dts \in Int /\ cur_dts'[s] = dts
          /\ \A t \in Stream : t # s => cur_dts'[t] = cur_dts[t]
      BY <2>1, <3>1, DtsAssumption
    <3>3. cur_dts[s] \in Int => cur_dts[s] <= dts
      <4>1. SUFFICES ASSUME cur_dts[s] \in Int PROVE cur_dts[s] <= dts
        OBVIOUS
      <4>2. cur_dts[s] \in Dts /\ cur_dts[s] # NoDts
        BY <1>2, <4>1, DtsAssumption DEF Sent
      <4>3. CASE cur_dts[s] = 0
        BY <3>2, <4>2, <4>3
      <4>4. CASE cur_dts[s] # 0
        BY <3>1, <3>2, <4>1, <4>2, <4>4 DEF Monotone
      <4> QED
        BY <4>3, <4>4
    <3>4. NeverBack
      BY <3>2, <3>3 DEF NeverBack
    <3>5. Sent'
      BY <1>2, <3>1, <3>2 DEF Sent
    <3> QED
      BY <3>4, <3>5
  <2>3. CASE cur_dts' = cur_dts
    BY <1>2, <2>1, <2>3 DEF NeverBack, Sent
  <2> QED
    BY <1>2, <2>2, <2>3
    DEF MuxNext, MuxClient, MuxStep, MuxOver, muxVars, Refuse, FlushQueue,
        WriteTrailer, PutOut, PutOutFails, CallReturns
<1> QED
  BY <1>1, <1>2

\* The library's own check (compute_muxer_pkt_fields, mux.c 576-586) keeps a
\* client to its contract when no dts is negative, or when none is 0: only
\* after a dts of 0, which it takes for an unset one, may a smaller one pass.
THEOREM GrowingCorrect ==
  ASSUME Dts \subseteq Nat \/ 0 \notin Dts
  PROVE  MuxSpec => [][NeverBack]_muxVars
<1>1. MuxInit => Sent
  BY GrowingStep
<1>2. Books /\ Sent /\ [MuxNext]_muxVars => [NeverBack]_muxVars /\ Sent'
  BY GrowingStep
<1> QED
  BY <1>1, <1>2, BooksCorrect, PTL DEF MuxSpec

-----------------------------------------------------------------------------
(***************************************************************************)
(* The remuxer, for any number of streams, time bases and packets of       *)
(* input.  Every step of the program is a move of the muxer, so the        *)
(* invariants above hold of it; an input whose dts never go back within a  *)
(* stream makes the program a client that keeps its contract, as scaling a *)
(* dts to another time base keeps the order.                               *)
(***************************************************************************)


\* What a demuxer returns: packets of the streams of the input, with a dts.
Stamped == Inputs \subseteq Seq([stream : InStream, dts : Int])

\* Within a stream no dts is smaller than the one before it.
InputsGrow == \A p \in Inputs : \A j, k \in 1 .. Len(p) :
                j < k /\ p[j].stream = p[k].stream => p[j].dts <= p[k].dts

\* The time base that is looked up with the input's index is that of the
\* packet's own output stream: because the handled streams are the first ones
\* of the input (SameNumbers), or because the format has one time base for
\* all, as FLV has (flvenc.c 844).
BasesAgree == \A i \in Kept \cap Stream :
                OutBase(i) = TimeBase[handleStreamIndexArray[i]]

\* Where a packet of the input goes, and the dts it has there.
OutStream(p) == handleStreamIndexArray[p.stream]
OutDts(p) == Rescale(p.dts, InBase[p.stream], OutBase(p.stream))

-----------------------------------------------------------------------------
(* The inductive invariants.                                               *)

\* The entry is the packet of the input q whose number it has, one of the
\* first n.
RightCopy(e, q, n) == /\ e.id \in 1 .. n
                      /\ q[e.id].stream \in Kept \cap Stream
                      /\ e.stream = OutStream(q[e.id])
                      /\ e.dts = OutDts(q[e.id])

\* The current dts of an output stream is that of a packet that was read.
Read(s) == cur_dts[s] \in Int =>
             \E k \in 1 .. pos : /\ input[k].stream \in Kept \cap Stream
                                 /\ OutStream(input[k]) = s
                                 /\ cur_dts[s] = OutDts(input[k])

\* Program and library move in step, and a call that succeeds lost nothing.
InStep ==
  /\ input \in Inputs /\ pos \in 0 .. Len(input)
  /\ at \in {"read", "write", "trailer", "done", "aborted", "fault"}
  /\ at = "read" => mpc = "idle" /\ ret = "OK"
  /\ at = "write" => mpc \in {"idle", "write"}
  /\ at = "trailer" => mpc \in {"trailer", "done"}
  /\ at = "done" => mpc = "done"
  /\ at = "aborted" => mpc = "idle" /\ ret # "OK"
  /\ at = "fault" => mpc = "idle"
  /\ at \in {"trailer", "done"} => ret # "EINVAL"
  /\ mpc \in {"write", "trailer"} => ret = "OK"
  /\ nb_accepted <= pos
  /\ ret = "OK" => lost = {} /\ (at # "fault" => nb_accepted = pos)
  /\ ret = "EIO" => lost # {}

Copying == /\ Books /\ InStep
           /\ \A i \in 1 .. Len(All) : RightCopy(All[i], input, pos)
           /\ \A e \in lost : RightCopy(e, input, pos)
           /\ \A s \in Stream : Read(s)

\* Nothing is refused and no array is left but for a packet that cannot be
\* placed, and that one does not get through.
Smooth == /\ StopsAtUnplaceable
          /\ at = "write" =>
               /\ pos > 0 /\ (ret = "EINVAL" <=> ~Placeable(input[pos]))
               /\ ret = "EINVAL" => mpc = "idle"

-----------------------------------------------------------------------------
(* Streams and time bases.                                                 *)

LEMMA KeptFinite ==
  /\ IsFiniteSet(Kept) /\ NbStreams \in Nat
  /\ \A i \in InStream : i \in Int
  /\ \A i \in Kept : IsFiniteSet({k \in Kept : k < i})
<1>1. IsFiniteSet(0 .. NbInStreams - 1)
  BY KeptAssumption, FS_Interval
<1>2. IsFiniteSet(Kept)
  BY <1>1, KeptAssumption, FS_Subset DEF InStream
<1>3. \A i \in Kept : IsFiniteSet({k \in Kept : k < i})
  BY <1>2, FS_Subset
<1> QED
  BY <1>2, <1>3, StreamAssumption, KeptAssumption DEF InStream

\* Two handled streams never share an output stream.
LEMMA OutStreamsDiffer ==
  ASSUME NEW i \in Kept, NEW k \in Kept,
         handleStreamIndexArray[i] = handleStreamIndexArray[k]
  PROVE  i = k
<1> DEFINE Below(j) == {x \in Kept : x < j}
<1>1. \A j \in Kept : handleStreamIndexArray[j] = Cardinality(Below(j)) /\ j \in Int
  BY KeptAssumption, KeptFinite DEF handleStreamIndexArray
<1>2. ASSUME NEW a \in Kept, NEW b \in Kept, a < b
      PROVE  Cardinality(Below(a)) # Cardinality(Below(b))
  <2>1. IsFiniteSet(Below(a)) /\ IsFiniteSet(Below(b))
    BY KeptFinite
  <2>2. a \notin Below(a) /\ Below(a) \cup {a} \subseteq Below(b)
    <3>1. a \in Int /\ b \in Int /\ \A x \in Kept : x \in Int
      BY <1>1
    <3>2. a \in Below(b) /\ a \notin Below(a)
      BY <1>2, <3>1
    <3>3. \A x \in Kept : x < a => x < b
      BY <1>2, <3>1
    <3> QED
      BY <3>2, <3>3
  <2>3. Cardinality(Below(a) \cup {a}) = Cardinality(Below(a)) + 1
    BY <2>1, <2>2, FS_AddElement
  <2>4. Cardinality(Below(a) \cup {a}) <= Cardinality(Below(b))
    BY <2>1, <2>2, FS_Subset
  <2>5. Cardinality(Below(a)) \in Nat /\ Cardinality(Below(b)) \in Nat
    BY <2>1, FS_CardinalityType
  <2> QED
    BY <2>3, <2>4, <2>5
<1> HIDE DEF Below
<1>3. i \in Int /\ k \in Int
  BY <1>1
<1>4. ~(i < k) /\ ~(k < i)
  BY <1>1, <1>2
<1> QED
  BY <1>3, <1>4

\* A handled stream has an output stream.
LEMMA OutStreamExists ==
  ASSUME NEW i \in Kept
  PROVE  handleStreamIndexArray[i] \in Stream
<1> DEFINE Below == {k \in Kept : k < i}
<1>1. IsFiniteSet(Kept) /\ IsFiniteSet(Below) /\ NbStreams \in Nat /\ i \in Int
  BY KeptFinite, KeptAssumption
<1>2. i \notin Below /\ Below \cup {i} \subseteq Kept
  BY <1>1
<1>3. handleStreamIndexArray[i] = Cardinality(Below)
  BY KeptAssumption DEF handleStreamIndexArray
<1> HIDE DEF Below
<1>4. Cardinality(Below \cup {i}) = Cardinality(Below) + 1
  BY <1>1, <1>2, FS_AddElement
<1>5. Cardinality(Below \cup {i}) <= NbStreams /\ Cardinality(Below) \in Nat
  BY <1>1, <1>2, KeptAssumption, FS_Subset, FS_CardinalityType
<1> QED
  BY <1>1, <1>3, <1>4, <1>5 DEF Stream

\* The test of line 108 lets packets pass if the first stream is handled.
LEMMA ReleasedIs ==
  ASSUME 0 \in InStream
  PROVE  Released <=> 0 \notin Kept
<1>1. CASE 0 \in Kept
  <2>1. {k \in Kept : k < 0} = {}
    <3>1. \A k \in Kept : k \in Int /\ k >= 0
      BY KeptAssumption DEF InStream
    <3> QED
      BY <3>1
  <2>2. handleStreamIndexArray[0] = 0
    BY <1>1, <2>1, FS_EmptySet DEF handleStreamIndexArray
  <2> QED
    BY <1>1, <2>2 DEF Released
<1>2. CASE 0 \notin Kept
  <2>1. handleStreamIndexArray[0] = -1
    BY <1>2 DEF handleStreamIndexArray
  <2> QED
    BY <1>2, <2>1 DEF Released
<1> QED
  BY <1>1, <1>2

\* When the handled streams come first they keep their numbers.
LEMMA SameNumbers ==
  ASSUME Kept = Stream, NEW i \in Kept
  PROVE  handleStreamIndexArray[i] = i
<1>1. i \in 0 .. NbStreams - 1 /\ NbStreams \in Nat
  BY StreamAssumption DEF Stream
<1>2. {k \in Kept : k < i} = 0 .. i - 1
  BY <1>1 DEF Stream
<1>3. Cardinality(0 .. i - 1) = i
  BY <1>1, FS_Interval
<1>4. handleStreamIndexArray[i] = Cardinality({k \in Kept : k < i})
  BY KeptAssumption DEF handleStreamIndexArray
<1> QED
  BY <1>2, <1>3, <1>4

LEMMA DivGrows ==
  ASSUME NEW c \in Nat \ {0}, NEW a \in Int, NEW b \in Int, a <= b
  PROVE  a \div c <= b \div c
BY SMT

LEMMA DivType ==
  ASSUME NEW c \in Nat \ {0}, NEW a \in Int
  PROVE  a \div c \in Int /\ (a >= 0 => a \div c >= 0)
BY SMT

LEMMA TimesType ==
  ASSUME NEW b \in Nat, NEW a \in Int
  PROVE  /\ b * a \in Int
         /\ a >= 0 => b * a >= 0
         /\ a <= 0 => b * a <= 0
BY SMT

\* Scaling to another time base, rounding to the nearest tick and away from
\* 0 half way, keeps the order.
LEMMA RescaleGrows ==
  ASSUME NEW b \in Nat \ {0}, NEW c \in Nat \ {0}, NEW x \in Int, NEW y \in Int,
         x <= y
  PROVE  /\ Rescale(x, b, c) \in Int /\ Rescale(y, b, c) \in Int
         /\ Rescale(x, b, c) <= Rescale(y, b, c)
<1> DEFINE h == c \div 2
           Up(a) == (b * a + h) \div c
           Down(a) == (h - b * a) \div c
<1>1. h \in Int /\ h >= 0
  BY SMT
<1> HIDE DEF h
<1>2. \A a \in Int : /\ b * a \in Int /\ b * a + h \in Int /\ h - b * a \in Int
                     /\ a >= 0 => b * a >= 0
                     /\ a <= 0 => b * a <= 0
  BY <1>1, TimesType
<1>3. \A a \in Int : Rescale(a, b, c) = IF a < 0 THEN -Down(a) ELSE Up(a)
  BY DtsAssumption DEF Rescale, h
<1>4. \A a \in Int : /\ Up(a) \in Int /\ (a >= 0 => Up(a) >= 0)
                     /\ Down(a) \in Int /\ (a <= 0 => Down(a) >= 0)
  <2>1. ASSUME NEW a \in Int
        PROVE  /\ Up(a) \in Int /\ (a >= 0 => Up(a) >= 0)
               /\ Down(a) \in Int /\ (a <= 0 => Down(a) >= 0)
    <3> DEFINE m == b * a
    <3>1. m \in Int /\ (a >= 0 => m >= 0) /\ (a <= 0 => m <= 0)
      BY <1>2
    <3> HIDE DEF m
    <3>2. (m + h) \div c \in Int /\ (m + h >= 0 => (m + h) \div c >= 0)
      BY <1>1, <3>1, DivType
    <3>3. (h - m) \div c \in Int /\ (h - m >= 0 => (h - m) \div c >= 0)
      BY <1>1, <3>1, DivType
    <3> QED
      BY <1>1, <3>1, <3>2, <3>3 DEF m
  <2> QED
    BY <2>1
<1>5. b * x <= b * y
  BY TimeGrows
<1>6. Up(x) <= Up(y) /\ Down(y) <= Down(x)
  <2> DEFINE m == b * x
             n == b * y
  <2>1. m \in Int /\ n \in Int /\ m <= n
    BY <1>2, <1>5
  <2> HIDE DEF m, n
  <2>2. (m + h) \div c <= (n + h) \div c
    BY <1>1, <2>1, DivGrows
  <2>3. (h - n) \div c <= (h - m) \div c
    BY <1>1, <2>1, DivGrows
  <2> QED
    BY <2>2, <2>3 DEF m, n
<1> HIDE DEF Up, Down
<1>7. CASE x >= 0
  BY <1>3, <1>4, <1>6, <1>7
<1>8. CASE x < 0 /\ y >= 0
  BY <1>3, <1>4, <1>8
<1>9. CASE y < 0
  BY <1>3, <1>4, <1>6, <1>9
<1> QED
  BY <1>7, <1>8, <1>9

-----------------------------------------------------------------------------
(* What the steps of the program do to the muxer.                          *)

\* A packet of the input.
LEMMA InputType ==
  ASSUME Stamped, InStep, NEW k \in 1 .. Len(input)
  PROVE  /\ input[k].stream \in InStream /\ input[k].dts \in Int
         /\ input[k].stream \in Stream => OutDts(input[k]) \in Int
         /\ Len(input) \in Nat
<1>1. input \in Seq([stream : InStream, dts : Int])
  BY DEF Stamped, InStep
<1>2. input[k].stream \in InStream /\ input[k].dts \in Int /\ Len(input) \in Nat
  <2> DEFINE P == [stream : InStream, dts : Int]
  <2>1. input \in Seq(P) /\ \A p \in P : p.stream \in InStream /\ p.dts \in Int
    BY <1>1
  <2> HIDE DEF P
  <2>2. input[k] \in P /\ Len(input) \in Nat
    BY <2>1
  <2> QED
    BY <2>1, <2>2
<1>3. ASSUME input[k].stream \in Stream
      PROVE  OutDts(input[k]) \in Int
  <2>1. InBase[input[k].stream] \in Nat \ {0} /\ TimeBase[input[k].stream] \in Nat \ {0}
    BY <1>2, <1>3, InBaseAssumption, TimeAssumption
  <2>2. input[k].dts <= input[k].dts
    BY <1>2
  <2>3. Rescale(input[k].dts, InBase[input[k].stream], TimeBase[input[k].stream]) \in Int
    BY <1>2, <2>1, <2>2, RescaleGrows
  <2> QED
    BY <2>3 DEF OutDts, OutBase
<1> QED
  BY <1>2, <1>3

LEMMA CopyIs ==
  ASSUME Stamped, InStep, Copy
  PROVE  /\ pos + 1 \in 1 .. Len(input) /\ pos' = pos + 1 /\ input' = input
         /\ ret = "OK" /\ mpc = "idle" /\ at = "read"
         /\ \/ /\ at' = "write"
               /\ Placeable(input[pos + 1])
               /\ input[pos + 1].stream \in Kept \cap Stream
               /\ OutStream(input[pos + 1]) \in Stream
               /\ OutDts(input[pos + 1]) \in Int
               /\ Accept(OutStream(input[pos + 1]), OutDts(input[pos + 1]))
            \/ /\ at' = "write" /\ Refused /\ mpc' = mpc
               /\ Placeable(input[pos + 1]) =>
                    ~Monotone(OutStream(input[pos + 1]), OutDts(input[pos + 1]))
            \/ at' = "fault" /\ UNCHANGED muxVars /\ ~Placeable(input[pos + 1])
<1> DEFINE p == input[pos + 1]
           pkt == IF Released THEN Blank ELSE p
           s == handleStreamIndexArray[pkt.stream]
           dts == Rescale(pkt.dts, InBase[pkt.stream], OutBase(pkt.stream))
<1>1. /\ at = "read" /\ pos < Len(input) /\ pos' = pos + 1 /\ input' = input
      /\ ret = "OK" /\ mpc = "idle"
      /\ \/ pkt.stream \in Stream /\ at' = "write" /\ (Accept(s, dts) \/ Refuse(s, dts))
         \/ pkt.stream \notin Stream /\ at' = "fault" /\ UNCHANGED muxVars
  BY DEF Copy, InStep
<1>2. pos \in Nat /\ Len(input) \in Nat
  <2>1. input \in Seq([stream : InStream, dts : Int]) /\ pos \in 0 .. Len(input)
    BY DEF Stamped, InStep
  <2>2. Len(input) \in Nat
    BY <2>1
  <2> QED
    BY <2>1, <2>2
<1>3. pos + 1 \in 1 .. Len(input)
  BY <1>1, <1>2
<1>4. p.stream \in InStream /\ (p.stream \in Stream => OutDts(p) \in Int)
  BY <1>3, InputType
<1>5. 0 \in InStream
  BY <1>4, KeptAssumption DEF InStream
<1>6. ASSUME ~Released
      PROVE  pkt = p /\ s = OutStream(p) /\ dts = OutDts(p)
  BY <1>6 DEF OutStream, OutDts
<1>7. ASSUME pkt.stream \in Stream, Accept(s, dts)
      PROVE  /\ Placeable(p) /\ p.stream \in Kept \cap Stream /\ OutStream(p) \in Stream
             /\ OutDts(p) \in Int /\ Accept(OutStream(p), OutDts(p))
  <2>1. s \in Stream /\ s # -1
    BY <1>7, StreamAssumption DEF Accept, Stream
  <2>2. ~Released
    <3>1. SUFFICES ASSUME Released PROVE FALSE
      OBVIOUS
    <3>2. s = handleStreamIndexArray[0]
      BY <3>1 DEF Blank
    <3>3. 0 \in Kept
      BY <1>5, <2>1, <3>2 DEF handleStreamIndexArray
    <3> QED
      BY <1>5, <3>1, <3>3, ReleasedIs
  <2>3. 0 \in Kept
    BY <1>5, <2>2, ReleasedIs
  <2>4. pkt = p /\ s = OutStream(p) /\ dts = OutDts(p)
    BY <1>6, <2>2
  <2>5. p.stream \in Kept
    BY <1>4, <2>1, <2>4 DEF handleStreamIndexArray
  <2>6. p.stream \in Stream
    BY <1>7, <2>4
  <2> QED
    BY <1>4, <1>7, <2>1, <2>3, <2>4, <2>5, <2>6 DEF Placeable
<1>8. ASSUME Refuse(s, dts)
      PROVE  /\ Refused /\ mpc' = mpc
             /\ Placeable(p) => ~Monotone(OutStream(p), OutDts(p))
  <2>1. Refused /\ mpc' = mpc /\ (s \in Stream => ~Monotone(s, dts))
    BY <1>8 DEF Refuse, Refused
  <2>2. ASSUME Placeable(p) PROVE s = OutStream(p) /\ s \in Stream /\ dts = OutDts(p)
    BY <1>5, <1>6, <2>2, ReleasedIs, OutStreamExists DEF Placeable, OutStream
  <2> QED
    BY <2>1, <2>2
<1>9. pkt.stream \notin Stream => ~Placeable(p)
  BY <1>5, <1>6, ReleasedIs DEF Placeable
<1> HIDE DEF pkt, s, dts
<1> QED
  BY <1>1, <1>3, <1>7, <1>8, <1>9

LEMMA RemuxMoves ==
  ASSUME Stamped, InStep, [RemuxNext]_remuxVars
  PROVE  [Move]_muxVars
<1>1. CASE Copy
  BY <1>1, CopyIs DEF Move
<1>2. CASE ~Copy
  BY <1>2 DEF RemuxNext, Copied, ReadFails, TrailerWritten, Muxing, RemuxOver, Move,
              remuxVars
<1> QED
  BY <1>1, <1>2

\* A move puts no packet in the file, the list or the lost ones that was not
\* there before, but the one it accepts.
LEMMA MoveEntries ==
  ASSUME Books, MuxStep \/ UNCHANGED <<packet_buffer, written, lost>>
  PROVE  /\ \A i \in 1 .. Len(All') : \E j \in 1 .. Len(All) : All'[i] = All[j]
         /\ \A e \in lost' : e \in lost \/ \E j \in 1 .. Len(All) : e = All[j]
<1>1. CASE UNCHANGED <<packet_buffer, written, lost>>
  BY <1>1 DEF All
<1>2. CASE CallReturns
  BY <1>2 DEF All, CallReturns
<1>3. CASE PutOut
  BY <1>3, BooksPutOut DEF PutOut
<1>4. CASE PutOutFails
  <2>1. PICK k \in 1 .. Len(All) :
          All' = Without(All, k) /\ lost' = lost \cup {All[k]}
    BY <1>4, FailsIs
  <2>2. All \in Seq(Entry) /\ Len(All) \in Nat
    BY AllIs DEF Books
  <2> DEFINE r == Without(All, k)
  <2>3. /\ Len(r) = Len(All) - 1
        /\ \A i \in 1 .. Len(All) - 1 : r[i] = IF i < k THEN All[i] ELSE All[i + 1]
    BY <2>1, <2>2, WithoutIs, Zenon
  <2> HIDE DEF r
  <2>4. ASSUME NEW i \in 1 .. Len(r)
        PROVE  \E j \in 1 .. Len(All) : r[i] = All[j]
    <3>1. i \in 1 .. Len(All) /\ i + 1 \in 1 .. Len(All)
      BY <2>2, <2>3
    <3>2. r[i] = All[i] \/ r[i] = All[i + 1]
      BY <2>2, <2>3
    <3> QED
      BY <3>1, <3>2
  <2> QED
    BY <2>1, <2>4 DEF r
<1> QED
  BY <1>1, <1>2, <1>3, <1>4 DEF MuxStep

LEMMA AcceptEntries ==
  ASSUME Books, NEW s, NEW dts \in Int, Accept(s, dts)
  PROVE  /\ \A i \in 1 .. Len(All') :
              \/ \E j \in 1 .. Len(All) : All'[i] = All[j]
              \/ /\ All'[i].id = nb_accepted + 1
                 /\ All'[i].stream = s /\ All'[i].dts = dts
         /\ lost' = lost /\ nb_accepted' = nb_accepted + 1
         /\ cur_dts' = [cur_dts EXCEPT ![s] = dts] /\ s \in Stream
         /\ mpc' = "write" /\ ret' = ret
<1>1. PICK pkt \in Entry, k \in 1 .. Len(packet_buffer) + 1 :
           /\ pkt.id = nb_accepted + 1 /\ pkt.stream = s /\ pkt.dts = dts
           /\ All' = Insert(All, Len(written) + k, pkt)
           /\ Len(written) + k \in 1 .. Len(All) + 1
  BY AcceptIs
<1>2. PICK m \in 1 .. Len(All) + 1 : m = Len(written) + k
  BY <1>1
<1>3. All \in Seq(Entry) /\ Len(All) \in Nat
  BY AllIs DEF Books
<1> DEFINE r == Insert(All, m, pkt)
<1>4. /\ Len(r) = Len(All) + 1
      /\ \A i \in 1 .. Len(All) + 1 :
           r[i] = IF i < m THEN All[i] ELSE IF i = m THEN pkt ELSE All[i - 1]
  BY ZenonT(60), <1>1, <1>2, <1>3, InsertIs
<1>5. All' = r
  BY <1>1, <1>2
<1> HIDE DEF r
<1>6. ASSUME NEW i \in 1 .. Len(r)
      PROVE  r[i] = pkt \/ \E j \in 1 .. Len(All) : r[i] = All[j]
  <2>1. CASE i < m
    <3>1. i \in 1 .. Len(All) /\ r[i] = All[i]
      BY <1>2, <1>3, <1>4, <2>1
    <3> QED
      BY <3>1
  <2>2. CASE i = m
    BY <1>2, <1>3, <1>4, <2>2
  <2>3. CASE i > m
    <3>1. i - 1 \in 1 .. Len(All) /\ r[i] = All[i - 1]
      BY <1>2, <1>3, <1>4, <2>3
    <3> QED
      BY <3>1
  <2> QED
    BY <1>2, <1>3, <1>4, <2>1, <2>2, <2>3
<1>7. /\ lost' = lost /\ nb_accepted' = nb_accepted + 1
      /\ cur_dts' = [cur_dts EXCEPT ![s] = dts] /\ s \in Stream
      /\ mpc' = "write" /\ ret' = ret
  BY DEF Accept
<1> QED
  BY <1>1, <1>5, <1>6, <1>7

-----------------------------------------------------------------------------
(* Copying is inductive.                                                   *)

LEMMA CopyingInit == RemuxInit => Copying
<1> SUFFICES ASSUME RemuxInit PROVE Copying
  OBVIOUS
<1>1. Books
  BY BooksInit DEF RemuxInit
<1>2. InStep
  BY DEF RemuxInit, MuxInit, InStep
<1>3. All = <<>> /\ Len(All) = 0
  BY DEF RemuxInit, MuxInit, All
<1>4. /\ \A i \in 1 .. Len(All) : RightCopy(All[i], input, pos)
      /\ \A e \in lost : RightCopy(e, input, pos)
  BY <1>3 DEF RemuxInit, MuxInit
<1>5. \A s \in Stream : Read(s)
  BY DtsAssumption DEF RemuxInit, MuxInit, Read
<1> QED
  BY <1>1, <1>2, <1>4, <1>5 DEF Copying

\* Reading on keeps the copies right.
LEMMA CopiesStay ==
  ASSUME InStep, input' = input, pos' \in Nat, pos <= pos'
  PROVE  /\ \A e : RightCopy(e, input, pos) => RightCopy(e, input', pos')
         /\ cur_dts' = cur_dts => \A s \in Stream : Read(s) => Read(s)'
<1>1. pos \in Int /\ \A k \in 1 .. pos : k \in 1 .. pos'
  BY DEF InStep
<1>2. \A p : OutStream(p)' = OutStream(p) /\ OutDts(p)' = OutDts(p)
  BY DEF OutStream, OutDts
<1> QED
  BY <1>1 DEF RightCopy, Read, OutStream, OutDts

LEMMA InStepStep ==
  ASSUME Stamped, Books, InStep, [RemuxNext]_remuxVars
  PROVE  InStep' /\ input' = input /\ pos' \in Nat /\ pos <= pos'
<1>1. /\ input \in Inputs /\ pos \in 0 .. Len(input) /\ pos \in Nat
      /\ nb_accepted \in Nat
  BY DEF Books, TypeOK, InStep
<1>2. CASE Copy
  <2>1. /\ pos + 1 \in 1 .. Len(input) /\ pos' = pos + 1 /\ input' = input
        /\ ret = "OK" /\ mpc = "idle" /\ at = "read"
    BY <1>2, CopyIs
  <2>2. lost = {} /\ nb_accepted = pos
    BY <2>1 DEF InStep
  <2>3. CASE at' = "write" /\ \E s \in Stream, dts \in Int : Accept(s, dts)
    <3>1. lost' = lost /\ nb_accepted' = nb_accepted + 1 /\ mpc' = "write" /\ ret' = ret
      BY <2>3, AcceptEntries
    <3> QED
      BY <1>1, <2>1, <2>2, <2>3, <3>1 DEF InStep
  <2>4. CASE at' = "write" /\ Refused /\ mpc' = mpc
    BY <1>1, <2>1, <2>2, <2>4 DEF InStep, Refused
  <2>5. CASE at' = "fault" /\ UNCHANGED muxVars
    BY <1>1, <2>1, <2>2, <2>5 DEF InStep, muxVars
  <2> QED
    BY <1>2, <2>3, <2>4, <2>5, CopyIs
<1>3. CASE Copied
  BY <1>1, <1>3 DEF Copied, InStep, muxVars
<1>4. CASE ReadFails
  BY <1>1, <1>4 DEF ReadFails, WriteTrailer, InStep
<1>5. CASE TrailerWritten
  BY <1>1, <1>5 DEF TrailerWritten, InStep, muxVars
<1>6. CASE Muxing /\ PutOut
  BY <1>1, <1>6 DEF Muxing, PutOut, InStep
<1>7. CASE Muxing /\ PutOutFails
  <2>1. lost' # {}
    BY <1>7 DEF PutOutFails
  <2> QED
    BY <1>1, <1>7, <2>1 DEF Muxing, PutOutFails, Finished, InStep
<1>8. CASE Muxing /\ CallReturns
  BY <1>1, <1>8 DEF Muxing, CallReturns, Finished, InStep
<1>9. CASE UNCHANGED remuxVars
  BY <1>1, <1>9 DEF remuxVars, muxVars, InStep
<1> QED
  BY <1>2, <1>3, <1>4, <1>5, <1>6, <1>7, <1>8, <1>9
  DEF RemuxNext, RemuxOver, Muxing, MuxStep

LEMMA CopyingStep ==
  ASSUME Stamped, Copying, [RemuxNext]_remuxVars
  PROVE  Copying'
<1>1. Books /\ InStep
  BY DEF Copying
<1>2. Books'
  BY <1>1, RemuxMoves, BooksStep
<1>3. InStep' /\ input' = input /\ pos' \in Nat /\ pos <= pos'
  BY <1>1, InStepStep
<1>4. /\ \A e : RightCopy(e, input, pos) => RightCopy(e, input', pos')
      /\ cur_dts' = cur_dts => \A s \in Stream : Read(s) => Read(s)'
  BY <1>1, <1>3, CopiesStay
<1>5. /\ \A i \in 1 .. Len(All) : RightCopy(All[i], input, pos)
      /\ \A e \in lost : RightCopy(e, input, pos)
      /\ \A s \in Stream : Read(s)
  BY DEF Copying
<1>6. CASE MuxStep \/ UNCHANGED <<packet_buffer, written, lost, cur_dts>>
  <2>1. cur_dts' = cur_dts
    BY <1>6 DEF MuxStep, PutOut, PutOutFails, CallReturns
  <2>2. /\ \A i \in 1 .. Len(All') : \E j \in 1 .. Len(All) : All'[i] = All[j]
        /\ \A e \in lost' : e \in lost \/ \E j \in 1 .. Len(All) : e = All[j]
    BY <1>1, <1>6, MoveEntries
  <2>3. \A i \in 1 .. Len(All') : RightCopy(All'[i], input', pos')
    BY <1>4, <1>5, <2>2
  <2>4. \A e \in lost' : RightCopy(e, input', pos')
    BY <1>4, <1>5, <2>2
  <2> QED
    BY <1>2, <1>3, <1>4, <1>5, <2>1, <2>3, <2>4 DEF Copying
<1>7. CASE Copy /\ Accept(OutStream(input[pos + 1]), OutDts(input[pos + 1]))
                /\ input[pos + 1].stream \in Kept \cap Stream
                /\ OutDts(input[pos + 1]) \in Int
  <2> DEFINE p == input[pos + 1]
             s == OutStream(p)
  <2>1. /\ pos + 1 \in 1 .. Len(input) /\ pos' = pos + 1 /\ ret = "OK" /\ at = "read"
    BY <1>1, <1>7, CopyIs
  <2>2. nb_accepted = pos
    BY <1>1, <2>1 DEF InStep
  <2>3. /\ \A i \in 1 .. Len(All') :
              \/ \E j \in 1 .. Len(All) : All'[i] = All[j]
              \/ /\ All'[i].id = nb_accepted + 1
                 /\ All'[i].stream = s /\ All'[i].dts = OutDts(p)
        /\ lost' = lost /\ s \in Stream
        /\ cur_dts' = [cur_dts EXCEPT ![s] = OutDts(p)]
    BY <1>1, <1>7, AcceptEntries
  <2>4. pos + 1 \in 1 .. pos' /\ pos \in Nat /\ \A k \in 1 .. pos : k \in 1 .. pos'
    <3>1. pos \in Nat
      BY <1>1 DEF Books, TypeOK, InStep
    <3> QED
      BY <2>1, <3>1
  <2>5. \A e : e.id = pos + 1 /\ e.stream = s /\ e.dts = OutDts(p) => RightCopy(e, input', pos')
    BY <1>3, <1>7, <2>4 DEF RightCopy, OutStream, OutDts
  <2> HIDE DEF s
  <2>6. \A i \in 1 .. Len(All') : RightCopy(All'[i], input', pos')
    BY <1>4, <1>5, <2>2, <2>3, <2>5
  <2>7. \A e \in lost' : RightCopy(e, input', pos')
    BY <1>4, <1>5, <2>3
  <2>8. ASSUME NEW t \in Stream PROVE Read(t)'
    <3>1. cur_dts \in [Stream -> Int \cup {NoDts}]
      BY <1>1 DEF Books, TypeOK
    <3>2. CASE t = s
      <4>1. cur_dts'[t] = OutDts(p) /\ OutStream(p) = t
        BY <2>3, <3>1, <3>2 DEF s
      <4> QED
        BY <1>3, <1>7, <2>4, <4>1 DEF Read, OutStream, OutDts
    <3>3. CASE t # s
      <4>1. cur_dts'[t] = cur_dts[t] /\ Read(t)
        BY <1>5, <2>3, <3>1, <3>3
      <4> QED
        BY <1>3, <2>4, <4>1 DEF Read, OutStream, OutDts
    <3> QED
      BY <3>2, <3>3
  <2> QED
    BY <1>2, <1>3, <2>6, <2>7, <2>8 DEF Copying
<1>8. CASE Copy
  <2>1. \/ UNCHANGED <<packet_buffer, written, lost, cur_dts>>
        \/ /\ Accept(OutStream(input[pos + 1]), OutDts(input[pos + 1]))
           /\ input[pos + 1].stream \in Kept \cap Stream
           /\ OutDts(input[pos + 1]) \in Int
    BY <1>1, <1>8, CopyIs DEF Refused, muxVars
  <2> QED
    BY <1>6, <1>7, <1>8, <2>1
<1>9. CASE ~Copy /\ ~MuxStep
  BY <1>6, <1>9 DEF RemuxNext, Copied, ReadFails, TrailerWritten, Muxing, RemuxOver,
                    WriteTrailer, remuxVars, muxVars
<1> QED
  BY <1>6, <1>8, <1>9

\* What the remuxer sends are the packets of its input, rescaled.
THEOREM CopyingCorrect == ASSUME Stamped PROVE RemuxSpec => []Copying
BY CopyingInit, CopyingStep, PTL DEF RemuxSpec

-----------------------------------------------------------------------------
(* The program is a client that keeps its contract.                        *)

LEMMA DtsGrows ==
  ASSUME Stamped, InputsGrow, Copying, pos + 1 \in 1 .. Len(input),
         input[pos + 1].stream \in Kept \cap Stream,
         OutStream(input[pos + 1]) \in Stream,
         cur_dts[OutStream(input[pos + 1])] \in Int
  PROVE  cur_dts[OutStream(input[pos + 1])] <= OutDts(input[pos + 1])
<1> DEFINE p == input[pos + 1]
<1>1. InStep /\ Read(OutStream(p)) /\ pos \in Nat /\ input \in Inputs
  BY DEF Copying, Books, TypeOK, InStep
<1>2. PICK k \in 1 .. pos : /\ input[k].stream \in Kept \cap Stream
                            /\ OutStream(input[k]) = OutStream(p)
                            /\ cur_dts[OutStream(p)] = OutDts(input[k])
  BY <1>1 DEF Read
<1>3. input[k].stream = p.stream
  BY <1>2, OutStreamsDiffer DEF OutStream
<1>4. k \in 1 .. Len(input) /\ k < pos + 1
  BY <1>1, <1>2
<1>5. input[k].dts <= p.dts /\ input[k].dts \in Int /\ p.dts \in Int
  BY <1>1, <1>3, <1>4, InputType DEF InputsGrow
<1>6. InBase[p.stream] \in Nat \ {0} /\ TimeBase[p.stream] \in Nat \ {0}
  BY KeptAssumption, InBaseAssumption, TimeAssumption
<1> HIDE DEF p
<1>7. Rescale(input[k].dts, InBase[p.stream], TimeBase[p.stream])
        <= Rescale(p.dts, InBase[p.stream], TimeBase[p.stream])
  BY <1>5, <1>6, RescaleGrows
<1>8. OutDts(input[k]) <= OutDts(p)
  BY <1>3, <1>7 DEF OutDts, OutBase
<1> QED
  BY <1>2, <1>8 DEF p

LEMMA RemuxNeverBack ==
  ASSUME Stamped, InputsGrow, Copying, [RemuxNext]_remuxVars
  PROVE  [NeverBack]_muxVars
<1>1. Books /\ InStep /\ cur_dts \in [Stream -> Int \cup {NoDts}]
  BY DEF Copying, Books, TypeOK
<1>2. CASE cur_dts' = cur_dts
  BY <1>1, <1>2 DEF NeverBack
<1>3. CASE Copy /\ Accept(OutStream(input[pos + 1]), OutDts(input[pos + 1]))
                /\ input[pos + 1].stream \in Kept \cap Stream
                /\ OutDts(input[pos + 1]) \in Int
  <2>1. pos + 1 \in 1 .. Len(input)
    BY <1>1, <1>3, CopyIs
  <2>2. /\ OutStream(input[pos + 1]) \in Stream
        /\ cur_dts' = [cur_dts EXCEPT ![OutStream(input[pos + 1])] = OutDts(input[pos + 1])]
    BY <1>1, <1>3, AcceptEntries
  <2>3. cur_dts[OutStream(input[pos + 1])] \in Int
          => cur_dts[OutStream(input[pos + 1])] <= OutDts(input[pos + 1])
    BY <1>3, <2>1, <2>2, DtsGrows
  <2> QED
    BY <1>1, <2>2, <2>3 DEF NeverBack
<1>4. CASE Copy
  <2>1. \/ cur_dts' = cur_dts
        \/ /\ Accept(OutStream(input[pos + 1]), OutDts(input[pos + 1]))
           /\ input[pos + 1].stream \in Kept \cap Stream
           /\ OutDts(input[pos + 1]) \in Int
    BY <1>1, <1>4, CopyIs DEF Refused, muxVars
  <2> QED
    BY <1>2, <1>3, <1>4, <2>1
<1>5. CASE ~Copy
  BY <1>2, <1>5 DEF RemuxNext, Copied, ReadFails, TrailerWritten, Muxing, RemuxOver,
                    MuxStep, PutOut, PutOutFails, CallReturns, WriteTrailer,
                    remuxVars, muxVars
<1> QED
  BY <1>4, <1>5

LEMMA RemuxTimely ==
  ASSUME Stamped, InputsGrow
  PROVE  RemuxSpec => []Timely
<1>1. RemuxInit => Timely
  BY TimelyInit DEF RemuxInit
<1>2. Copying /\ Timely /\ [RemuxNext]_remuxVars => Timely'
  BY RemuxMoves, RemuxNeverBack, TimelyStep DEF Copying
<1> QED
  BY <1>1, <1>2, CopyingCorrect, PTL DEF RemuxSpec

LEMMA SmoothStep ==
  ASSUME Stamped, InputsGrow, TsNonstrict, Copying, Smooth, [RemuxNext]_remuxVars
  PROVE  Smooth'
<1>1. Books /\ InStep /\ cur_dts \in [Stream -> Int \cup {NoDts}]
      /\ pos \in Nat /\ input \in Inputs /\ ret \in {"OK", "EINVAL", "EIO"}
  BY DEF Copying, Books, TypeOK, InStep
<1>2. InStep' /\ input' = input
  BY <1>1, InStepStep
<1>3. CASE Copy
  <2> DEFINE p == input[pos + 1]
  <2>1. /\ pos + 1 \in 1 .. Len(input) /\ pos' = pos + 1 /\ pos' > 0
        /\ ret = "OK" /\ mpc = "idle"
    BY <1>1, <1>3, CopyIs
  <2>2. Placeable(input[pos])' <=> Placeable(p)
    BY <1>2, <2>1 DEF Placeable
  <2>3. ASSUME Placeable(p)
        PROVE  Monotone(OutStream(p), OutDts(p))
    <3>1. p.stream \in Kept \cap Stream /\ OutStream(p) \in Stream
      BY <2>3, OutStreamExists DEF Placeable, OutStream
    <3>2. OutDts(p) \in Int
      BY <1>1, <2>1, <3>1, InputType
    <3>3. SUFFICES ASSUME cur_dts[OutStream(p)] \notin {NoDts, 0}
                   PROVE  cur_dts[OutStream(p)] < OutDts(p) \/ cur_dts[OutStream(p)] = OutDts(p)
      BY DEF Monotone
    <3>4. cur_dts[OutStream(p)] \in Int
      BY <1>1, <3>1, <3>3
    <3>5. cur_dts[OutStream(p)] <= OutDts(p)
      BY <2>1, <3>1, <3>4, DtsGrows
    <3> QED
      BY <3>2, <3>4, <3>5
  <2>4. \/ at' = "write" /\ Placeable(p) /\ ret' = "OK"
        \/ at' = "write" /\ ~Placeable(p) /\ ret' = "EINVAL" /\ mpc' = "idle"
        \/ at' = "fault" /\ ~Placeable(p)
    BY <1>1, <1>3, <2>1, <2>3, CopyIs DEF Accept, Refused
  <2> HIDE DEF p
  <2> QED
    BY <2>1, <2>2, <2>4 DEF Smooth, StopsAtUnplaceable
<1>4. CASE ~Copy
  <2>1. pos' = pos /\ (Placeable(input[pos])' <=> Placeable(input[pos]))
    BY <1>2, <1>4 DEF RemuxNext, Copied, ReadFails, TrailerWritten, Muxing, RemuxOver,
                      remuxVars, Placeable
  <2>2. CASE Copied
    BY <1>1, <2>1, <2>2 DEF Copied, InStep, Smooth, StopsAtUnplaceable, muxVars
  <2>3. CASE ReadFails \/ TrailerWritten
    BY <1>1, <2>1, <2>3 DEF ReadFails, TrailerWritten, WriteTrailer, InStep, Smooth,
                            StopsAtUnplaceable, muxVars
  <2>4. CASE Muxing
    <3>1. /\ at' = at /\ lost \subseteq lost' /\ mpc \in {"write", "flush", "trailer"}
          /\ ret' = ret \/ ret' \in {"OK", "EIO"}
      BY <2>4 DEF Muxing, MuxStep, PutOut, PutOutFails, CallReturns
    <3>2. ret # "EINVAL" \/ at # "write"
      BY <3>1 DEF Smooth
    <3> QED
      BY <1>1, <2>1, <3>1, <3>2 DEF InStep, Smooth, StopsAtUnplaceable
  <2>5. CASE UNCHANGED remuxVars
    BY <2>1, <2>5 DEF remuxVars, muxVars, Smooth, StopsAtUnplaceable
  <2> QED
    BY <1>4, <2>2, <2>3, <2>4, <2>5 DEF RemuxNext, RemuxOver
<1> QED
  BY <1>3, <1>4

-----------------------------------------------------------------------------
(* What the program promises.                                              *)

\* The packets one by one: between rounds, and at the end, the muxer has every
\* packet that was read, each once, in its own stream, in every stream in the
\* order they were read, with the dts the code computes: in the time base it
\* looks up, be it that of the stream or not.
CopiesFaithful ==
  at \in {"read", "trailer", "done"} /\ lost = {} =>
    /\ Len(All) = pos
    /\ \A k \in 1 .. pos : \E i \in 1 .. Len(All) : All[i].id = k
    /\ \A i \in 1 .. Len(All) : RightCopy(All[i], input, pos)
    /\ InOrder(All)

\* For any number and kinds of streams, any time bases and any input.
LEMMA CopiesFaithfulCorrect ==
  ASSUME Stamped PROVE RemuxSpec => []CopiesFaithful
<1>1. Copying => CopiesFaithful
  <2> SUFFICES ASSUME Copying, at \in {"read", "trailer", "done"}, lost = {}
               PROVE  /\ Len(All) = pos
                      /\ \A k \in 1 .. pos : \E i \in 1 .. Len(All) : All[i].id = k
                      /\ \A i \in 1 .. Len(All) : RightCopy(All[i], input, pos)
                      /\ InOrder(All)
    BY DEF CopiesFaithful
  <2>1. Books /\ InStep /\ ret \in {"OK", "EINVAL", "EIO"}
    BY DEF Copying, Books, TypeOK
  <2>2. nb_accepted = pos
    BY <2>1 DEF InStep
  <2>3. Cardinality(lost) = 0 /\ Len(All) \in Nat
    BY <2>1, FS_EmptySet, AllIs DEF Books
  <2>4. Len(All) = pos
    BY <2>1, <2>2, <2>3 DEF Books
  <2> QED
    BY <2>1, <2>2, <2>4 DEF Copying, Books, Numbered
<1> QED
  BY <1>1, CopyingCorrect, PTL

-----------------------------------------------------------------------------
(* The same, stream by stream.                                             *)

\* g names, in order, the places in s the packets of stream i come from.
OfFrom(g, s, i) == /\ Lists(g, {n \in 1 .. Len(s) : s[n].stream = i})
                   /\ Len(g) = Len(Of(s, i))
                   /\ \A k \in 1 .. Len(g) : Of(s, i)[k] = s[g[k]]

\* There are such places.
LEMMA OfPicks ==
  ASSUME NEW S, NEW s \in Seq(S), NEW i
  PROVE  \E g : OfFrom(g, s, i)
<1> DEFINE X == {p \in Entries(s) : p.stream # i}
<1>1. Staying(s, X) = {n \in 1 .. Len(s) : s[n].stream = i}
  BY DEF Staying, Entries
<1>2. Of(s, i) = Omit(s, X)
  BY DEF Of
<1> HIDE DEF X
<1>3. PICK g : Picks(g, s, X)
  BY OmitPicks
<1> QED
  BY <1>1, <1>2, <1>3 DEF Picks, OfFrom

\* The ids of the copies of stream i are the numbers of its packets.
LEMMA CopiesList ==
  ASSUME CopiesFaithful, at \in {"read", "trailer", "done"}, lost = {},
         All \in Seq(Entry), pos \in Nat, NEW i \in Kept,
         NEW g, Lists(g, {n \in 1 .. Len(All) :
                            All[n].stream = handleStreamIndexArray[i]})
  PROVE  Lists([k \in 1 .. Len(g) |-> All[g[k]].id],
               {n \in 1 .. pos : input[n].stream = i})
<1> DEFINE w == [k \in 1 .. Len(g) |-> All[g[k]].id]
           T == {n \in 1 .. pos : input[n].stream = i}
<1>1. /\ \A n \in 1 .. pos : \E m \in 1 .. Len(All) : All[m].id = n
      /\ \A m \in 1 .. Len(All) : RightCopy(All[m], input, pos)
      /\ InOrder(All)
  BY DEF CopiesFaithful
<1>2. /\ Len(g) \in Nat
      /\ \A k \in 1 .. Len(g) : /\ g[k] \in 1 .. Len(All)
                                 /\ All[g[k]].stream = handleStreamIndexArray[i]
      /\ \A j, k \in 1 .. Len(g) : j < k => g[j] < g[k]
  BY LenProperties DEF Lists
<1>3. \A m \in 1 .. Len(All) : All[m].id \in Nat
  <2>1. \A e \in Entry : e.id \in Nat
    BY DEF Entry
  <2> QED
    BY <2>1, ElementOfSeq
<1>4. w \in Seq(Nat) /\ Len(w) = Len(g) /\ \A k \in 1 .. Len(g) : w[k] = All[g[k]].id
  BY <1>2, <1>3
<1> HIDE DEF w
<1>5. ASSUME NEW j \in 1 .. Len(w), NEW k \in 1 .. Len(w), j < k
      PROVE  w[j] < w[k]
  <2>1. j \in 1 .. Len(g) /\ k \in 1 .. Len(g)
    BY <1>4
  <2>2. /\ g[j] \in 1 .. Len(All) /\ g[k] \in 1 .. Len(All) /\ g[j] < g[k]
        /\ All[g[j]].stream = All[g[k]].stream
    BY <1>2, <1>5, <2>1
  <2>3. All[g[j]].id < All[g[k]].id
    BY <1>1, <2>2 DEF InOrder
  <2> QED
    BY <1>4, <2>1, <2>3
<1>6. ASSUME NEW k \in 1 .. Len(w)
      PROVE  w[k] \in T
  <2> DEFINE n == All[g[k]].id
  <2>1. RightCopy(All[g[k]], input, pos) /\ All[g[k]].stream = handleStreamIndexArray[i]
    BY <1>1, <1>2, <1>4
  <2>2. /\ n \in 1 .. pos /\ input[n].stream \in Kept
        /\ handleStreamIndexArray[input[n].stream] = handleStreamIndexArray[i]
    BY <2>1 DEF RightCopy, OutStream
  <2>3. input[n].stream = i
    BY <2>2, OutStreamsDiffer, Zenon
  <2> QED
    BY <1>4, <2>2, <2>3
<1>7. ASSUME NEW n \in T
      PROVE  \E k \in 1 .. Len(w) : w[k] = n
  <2>1. PICK m \in 1 .. Len(All) : All[m].id = n
    BY <1>1
  <2>2. All[m].stream = handleStreamIndexArray[i]
    BY <1>1, <2>1 DEF RightCopy, OutStream
  <2>3. PICK k \in 1 .. Len(g) : g[k] = m
    BY <2>2 DEF Lists
  <2> QED
    BY <1>4, <2>1, <2>3
<1>8. Lists(w, T)
  BY <1>4, <1>5, <1>6, <1>7 DEF Lists
<1> QED
  BY <1>8 DEF w

\* A remux that looks up the right time bases has put the packets of each
\* handled stream, without loss, repetition or reordering, and with their dts
\* in that stream's own time base, into its list and file (mp4toflv.c 105-130).
THEOREM RemuxFaithfulCorrect ==
  ASSUME Stamped, BasesAgree PROVE RemuxSpec => []RemuxFaithful
<1>1. Copying /\ CopiesFaithful => RemuxFaithful
  <2> SUFFICES ASSUME Copying, CopiesFaithful,
                      at \in {"read", "trailer", "done"}, lost = {},
                      NEW i \in Kept
               PROVE  Copies(i) = Expected(i)
    BY DEF RemuxFaithful
  <2> DEFINE s == SubSeq(input, 1, pos)
             o == handleStreamIndexArray[i]
             P == [stream : InStream, dts : Int]
  <2>1. TypeOK /\ InStep /\ input \in Seq(P) /\ pos \in 0 .. Len(input)
    BY DEF Copying, Books, InStep, Stamped
  <2>2. pos \in Nat /\ All \in Seq(Entry)
    BY <2>1, AllIs
  <2> HIDE DEF P
  <2>3. s \in Seq(P) /\ Len(s) = pos /\ \A n \in 1 .. pos : s[n] = input[n]
    <3>1. \A n \in 1 .. pos : input[n] \in P
      BY <2>1, LenProperties, ElementOfSeq
    <3>2. /\ s \in Seq(P) /\ Len(s) = (IF 1 <= pos THEN pos - 1 + 1 ELSE 0)
          /\ \A n \in 1 .. pos - 1 + 1 : s[n] = input[1 + n - 1]
      BY <2>2, <3>1, SubSeqProperties
    <3>3. \A n \in 1 .. pos : n \in 1 .. pos - 1 + 1 /\ 1 + n - 1 = n
      BY <2>2
    <3> HIDE DEF s
    <3> QED
      BY <2>2, <3>2, <3>3
  <2>4. PICK g : OfFrom(g, All, o)
    BY <2>2, OfPicks, Zenon
  <2>5. PICK f : OfFrom(f, s, i)
    BY <2>3, OfPicks, Zenon
  <2> DEFINE w == [k \in 1 .. Len(g) |-> All[g[k]].id]
             T == {n \in 1 .. pos : input[n].stream = i}
  <2>6. {n \in 1 .. Len(s) : s[n].stream = i} = T
    BY <2>3
  <2>7. Lists(w, T) /\ Lists(f, T)
    BY <2>2, <2>4, <2>5, <2>6, CopiesList DEF OfFrom
  <2>8. Len(w) = Len(g) /\ \A k \in 1 .. Len(g) : w[k] = All[g[k]].id
    BY <2>4, LenProperties DEF Lists, OfFrom
  <2> HIDE DEF w, T, s, o, P
  <2>9. Len(w) = Len(f) /\ \A k \in 1 .. Len(w) : w[k] = f[k]
    BY <2>7, ListsAgree
  <2>10. ASSUME NEW k \in 1 .. Len(g)
         PROVE  Of(All, o)[k].dts = Rescale(Of(s, i)[k].dts, InBase[i], TimeBase[o])
    <3>1. g[k] \in 1 .. Len(All) /\ f[k] \in T
      BY <2>4, <2>7, <2>8, <2>9 DEF Lists, OfFrom
    <3>2. f[k] \in 1 .. pos /\ input[f[k]].stream = i
      BY <3>1 DEF T
    <3>3. RightCopy(All[g[k]], input, pos) /\ All[g[k]].id = f[k]
      BY <2>8, <2>9, <3>1 DEF CopiesFaithful
    <3>4. i \in Kept \cap Stream
          /\ All[g[k]].dts = Rescale(input[f[k]].dts, InBase[i], OutBase(i))
      BY <3>2, <3>3 DEF RightCopy, OutDts
    <3>5. Of(All, o)[k] = All[g[k]] /\ Of(s, i)[k] = input[f[k]]
      BY <2>3, <2>4, <2>5, <2>8, <2>9, <3>2 DEF OfFrom
    <3> QED
      BY <3>4, <3>5 DEF BasesAgree, o
  <2>11. Copies(i) = [k \in 1 .. Len(g) |-> Of(All, o)[k].dts]
    BY <2>4 DEF Copies, All, o, OfFrom
  <2>12. Expected(i) =
           [k \in 1 .. Len(g) |-> Rescale(Of(s, i)[k].dts, InBase[i], TimeBase[o])]
    BY <2>5, <2>8, <2>9 DEF Expected, s, o, OfFrom
  <2> QED
    BY <2>10, <2>11, <2>12
<1> QED
  BY <1>1, CopyingCorrect, CopiesFaithfulCorrect, PTL

\* A trailer that succeeds leaves a file with every packet that was read,
\* ordered by dts across the streams unless packets were put out early, if
\* the input's dts do not go back (mp4toflv.c 98-140).
THEOREM FileCompleteCorrect ==
  ASSUME Stamped, InputsGrow PROVE RemuxSpec => []FileComplete
<1>1. Copying /\ Timely => FileComplete
  <2> SUFFICES ASSUME Copying, Timely, at = "done", ret = "OK"
               PROVE  /\ packet_buffer = <<>>
                      /\ Len(written) = pos
                      /\ ~forced => Sorted(written)
    BY DEF FileComplete
  <2>1. Books /\ TypeOK /\ mpc = "done" /\ lost = {} /\ nb_accepted = pos
    BY DEF Copying, Books, InStep
  <2>2. packet_buffer = <<>>
    BY <2>1 DEF Timely, NothingWithheld
  <2>3. All = written /\ Len(written) \in Nat
    BY <2>1, <2>2 DEF All, TypeOK
  <2>4. Cardinality(lost) = 0
    BY <2>1, FS_EmptySet
  <2>5. Len(written) = pos
    BY <2>1, <2>3, <2>4 DEF Books
  <2> QED
    BY <2>2, <2>3, <2>5 DEF Timely
<1> QED
  BY <1>1, CopyingCorrect, RemuxTimely, PTL

\* When no write fails, the first packet the program cannot place ends the
\* remux, and no other packet does, for any number and kinds of streams, if the
\* input's dts do not go back and the format takes equal dts, as FLV does
\* (flvenc.c 1273), since rescaling may make two equal.
THEOREM StopsAtUnplaceableCorrect ==
  ASSUME Stamped, InputsGrow, TsNonstrict
  PROVE  RemuxSpec => []StopsAtUnplaceable
<1>1. RemuxInit => Smooth
  BY DEF RemuxInit, MuxInit, Smooth, StopsAtUnplaceable
<1>2. Copying /\ Smooth /\ [RemuxNext]_remuxVars => Smooth'
  BY SmoothStep
<1> QED
  BY <1>1, <1>2, CopyingCorrect, PTL DEF RemuxSpec, Smooth

\* The time bases that are looked up are the right ones when the handled
\* streams are the first ones of the input, or when there is one for all.
LEMMA BasesAgreeWhen ==
  ASSUME Kept = Stream \/ \A s, u \in Stream : TimeBase[s] = TimeBase[u]
  PROVE  BasesAgree
BY SameNumbers, OutStreamExists DEF BasesAgree, OutBase

-----------------------------------------------------------------------------
(* What a program owns (module Lifecycle): the discipline of the tables.   *)

\* The steps of a body and the entries of a cleanup block.
Steps(p) == 1 .. Len(p.body)
CleanupEntries(p) == 1 .. Len(p.cleanup)

\* A table says what its operations need.
StepOk(o) ==
  /\ o.op \in {"get", "use", "declare", "try", "drop", "loop"}
  /\ o.op \in {"get", "use", "declare", "drop"} => o.res \in Resource
  /\ o.op = "get" => o.as \in Owned
  /\ o.op = "drop" => o.left \in {"null", "stale"}
  /\ o.op = "loop" => o.uses \subseteq Resource
  /\ o.op \in {"get", "try", "loop"} => o.fail.to \in {"next", "exit", "cleanup"}

WellFormed(p) ==
  /\ Len(p.body) \in Nat /\ Len(p.cleanup) \in Nat
  /\ \A k \in Steps(p) : StepOk(p.body[k])
  /\ \A i \in CleanupEntries(p) : /\ p.cleanup[i].res \in Resource
                           /\ p.cleanup[i].left \in {"null", "stale"}

\* r was acquired, or at least initialised, by a step before the k-th.
Got(p, r, k) ==
  \E j \in Steps(p) : j < k /\ p.body[j].op = "get" /\ p.body[j].res = r
Initialised(p, r, k) ==
  \E j \in Steps(p) : j < k /\ p.body[j].op \in {"get", "declare"} /\ p.body[j].res = r

\* A step that may end the program releases what was acquired before it.
SafeExit(p) ==
  \A k \in Steps(p) :
    p.body[k].op \in {"get", "try", "loop"} /\ p.body[k].fail.to = "exit" =>
      \A r \in Manages(p) : Got(p, r, k) => \/ r \in p.body[k].fail.frees
                                            \/ p.body[k].op = "get" /\ p.body[k].res = r

\* Nothing is released before the cleanup, which releases each thing once.  A
\* main loop comes last but for checks, when everything the cleanup tests is
\* initialised; if it ends, the cleanup closes what it frees.
Leaves(o) == o.ends \/ o.fail.to # "next"
Tame(p) ==
  /\ \A k \in Steps(p) : p.body[k].op # "drop"
  /\ \A i, j \in CleanupEntries(p) : p.cleanup[i].res = p.cleanup[j].res => i = j
  /\ \A k \in Steps(p) : p.body[k].op = "loop" =>
       /\ p.body[k].drops = {}
       /\ \A j \in Steps(p) : j > k => p.body[j].op = "try"
       /\ \A r \in Manages(p) : Initialised(p, r, k)
       /\ Leaves(p.body[k]) => \A i \in CleanupEntries(p) : p.cleanup[i].closes

\* A failing step ends the program, and what is used was acquired.
Strict(p) ==
  /\ \A k \in Steps(p) : /\ p.body[k].op \in {"get", "try", "loop"}
                         /\ p.body[k].fail.to = "exit"
  /\ \A k \in Steps(p) : p.body[k].op = "loop" =>
       \A r \in p.body[k].uses : Got(p, r, k)
  /\ \A i \in CleanupEntries(p) : /\ p.cleanup[i].closes
                           /\ Got(p, p.cleanup[i].res, Len(p.body) + 1)

\* The programs that release inside their main, and those that clean up in
\* their failing branches.
Exempt == {"demuxing_video", "mp4toh264"}
Straight == {"demuxing_audio", "dumpMetaData"}

\* What every table keeps to.
Disciplined(p) ==
  /\ WellFormed(p)
  /\ SafeExit(p)
  /\ p.name \notin Exempt => Tame(p)
  /\ p.name \in Straight => Strict(p)

-----------------------------------------------------------------------------
(* The tables of the programs keep to it.                                  *)

\* Every program of src/src keeps to the discipline: read off its table.
LEMMA MainsDisciplined == \A p \in Mains : Disciplined(p)
<1> USE DEF Disciplined, WellFormed, StepOk, SafeExit, Tame, Strict, Exempt, Straight,
            Steps, CleanupEntries, Got, Initialised, Leaves, Manages, Resource, Owned,
            Ignore, Return, Fail, ReturnFreeing, Get, Open, Alloc, Use, Declare, Try,
            Drop, Loop, Freeing, Closing, FreeOnly
<1>1. Disciplined(decodeVideo)
  <2>1. WellFormed(decodeVideo)
    BY SMTT(60) DEF decodeVideo
  <2>2. SafeExit(decodeVideo)
    BY SMTT(60) DEF decodeVideo
  <2>3. Tame(decodeVideo)
    BY SMTT(60) DEF decodeVideo
  <2>4. decodeVideo.name \notin {"demuxing_audio", "dumpMetaData"}
    BY DEF decodeVideo
  <2> HIDE DEF WellFormed, SafeExit, Tame, Strict
  <2> QED
    BY <2>1, <2>2, <2>3, <2>4, Zenon
<1>2. Disciplined(decodeVideoChange)
  <2>1. WellFormed(decodeVideoChange)
    BY SMTT(60) DEF decodeVideoChange, Scaling
  <2>2. SafeExit(decodeVideoChange)
    BY SMTT(60) DEF decodeVideoChange, Scaling
  <2>3. Tame(decodeVideoChange)
    BY SMTT(60) DEF decodeVideoChange, Scaling
  <2>4. decodeVideoChange.name \notin {"demuxing_audio", "dumpMetaData"}
    BY DEF decodeVideoChange
  <2> HIDE DEF WellFormed, SafeExit, Tame, Strict
  <2> QED
    BY <2>1, <2>2, <2>3, <2>4, Zenon
<1>3. Disciplined(decodeImage)
  <2>1. WellFormed(decodeImage)
    BY SMTT(60) DEF decodeImage, Scaling
  <2>2. SafeExit(decodeImage)
    BY SMTT(60) DEF decodeImage, Scaling
  <2>3. Tame(decodeImage)
    BY SMTT(60) DEF decodeImage, Scaling
  <2>4. decodeImage.name \notin {"demuxing_audio", "dumpMetaData"}
    BY DEF decodeImage
  <2> HIDE DEF WellFormed, SafeExit, Tame, Strict
  <2> QED
    BY <2>1, <2>2, <2>3, <2>4, Zenon
<1>4. Disciplined(decodeAudio)
  <2>1. WellFormed(decodeAudio)
    BY SMTT(60) DEF decodeAudio
  <2>2. SafeExit(decodeAudio)
    BY SMTT(60) DEF decodeAudio
  <2>3. Tame(decodeAudio)
    BY SMTT(60) DEF decodeAudio
  <2>4. decodeAudio.name \notin {"demuxing_audio", "dumpMetaData"}
    BY DEF decodeAudio
  <2> HIDE DEF WellFormed, SafeExit, Tame, Strict
  <2> QED
    BY <2>1, <2>2, <2>3, <2>4, Zenon
<1>5. Disciplined(captureAudio)
  <2>1. WellFormed(captureAudio)
    BY SMTT(60) DEF captureAudio
  <2>2. SafeExit(captureAudio)
    BY SMTT(60) DEF captureAudio
  <2>3. Tame(captureAudio)
    BY SMTT(60) DEF captureAudio
  <2>4. captureAudio.name \notin {"demuxing_audio", "dumpMetaData"}
    BY DEF captureAudio
  <2> HIDE DEF WellFormed, SafeExit, Tame, Strict
  <2> QED
    BY <2>1, <2>2, <2>3, <2>4, Zenon
<1>6. Disciplined(captureVideo)
  <2>1. WellFormed(captureVideo)
    BY SMTT(60) DEF captureVideo
  <2>2. SafeExit(captureVideo)
    BY SMTT(60) DEF captureVideo
  <2>3. Tame(captureVideo)
    BY SMTT(60) DEF captureVideo
  <2>4. captureVideo.name \notin {"demuxing_audio", "dumpMetaData"}
    BY DEF captureVideo
  <2> HIDE DEF WellFormed, SafeExit, Tame, Strict
  <2> QED
    BY <2>1, <2>2, <2>3, <2>4, Zenon
<1>7. Disciplined(encodeAudioDemo)
  <2>1. WellFormed(encodeAudioDemo)
    BY SMTT(60) DEF encodeAudioDemo
  <2>2. SafeExit(encodeAudioDemo)
    BY SMTT(60) DEF encodeAudioDemo
  <2>3. Tame(encodeAudioDemo)
    BY SMTT(60) DEF encodeAudioDemo
  <2>4. encodeAudioDemo.name \notin {"demuxing_audio", "dumpMetaData"}
    BY DEF encodeAudioDemo
  <2> HIDE DEF WellFormed, SafeExit, Tame, Strict
  <2> QED
    BY <2>1, <2>2, <2>3, <2>4, Zenon
<1>8. Disciplined(encodeVideoDemo)
  <2>1. WellFormed(encodeVideoDemo)
    BY SMTT(60) DEF encodeVideoDemo
  <2>2. SafeExit(encodeVideoDemo)
    BY SMTT(60) DEF encodeVideoDemo
  <2>3. Tame(encodeVideoDemo)
    BY SMTT(60) DEF encodeVideoDemo
  <2>4. encodeVideoDemo.name \notin {"demuxing_audio", "dumpMetaData"}
    BY DEF encodeVideoDemo
  <2> HIDE DEF WellFormed, SafeExit, Tame, Strict
  <2> QED
    BY <2>1, <2>2, <2>3, <2>4, Zenon
<1>9. Disciplined(mp4toflv)
  <2>1. WellFormed(mp4toflv)
    BY SMTT(60) DEF mp4toflv
  <2>2. SafeExit(mp4toflv)
    BY SMTT(60) DEF mp4toflv
  <2>3. Tame(mp4toflv)
    BY SMTT(60) DEF mp4toflv
  <2>4. mp4toflv.name \notin {"demuxing_audio", "dumpMetaData"}
    BY DEF mp4toflv
  <2> HIDE DEF WellFormed, SafeExit, Tame, Strict
  <2> QED
    BY <2>1, <2>2, <2>3, <2>4, Zenon
<1>10. Disciplined(mp4toh264)
  <2>1. WellFormed(mp4toh264)
    BY SMTT(60) DEF mp4toh264
  <2>2. SafeExit(mp4toh264)
    BY SMTT(60) DEF mp4toh264
  <2>3. mp4toh264.name \in {"demuxing_video", "mp4toh264"}
    BY DEF mp4toh264
  <2>4. mp4toh264.name \notin {"demuxing_audio", "dumpMetaData"}
    BY DEF mp4toh264
  <2> HIDE DEF WellFormed, SafeExit, Tame, Strict
  <2> QED
    BY <2>1, <2>2, <2>3, <2>4, Zenon
<1>11. Disciplined(demuxing_video)
  <2>1. WellFormed(demuxing_video)
    BY SMTT(60) DEF demuxing_video
  <2>2. SafeExit(demuxing_video)
    BY SMTT(60) DEF demuxing_video
  <2>3. demuxing_video.name \in {"demuxing_video", "mp4toh264"}
    BY DEF demuxing_video
  <2>4. demuxing_video.name \notin {"demuxing_audio", "dumpMetaData"}
    BY DEF demuxing_video
  <2> HIDE DEF WellFormed, SafeExit, Tame, Strict
  <2> QED
    BY <2>1, <2>2, <2>3, <2>4, Zenon
<1>12. Disciplined(demuxing_audio)
  BY SMTT(60) DEF demuxing_audio
<1>13. Disciplined(dumpMetaData)
  BY SMTT(60) DEF dumpMetaData
<1> HIDE DEF Disciplined
<1> QED
  BY <1>1, <1>2, <1>3, <1>4, <1>5, <1>6, <1>7, <1>8, <1>9, <1>10, <1>11, <1>12, <1>13,
      Zenon DEF Mains

-----------------------------------------------------------------------------
(* The inductive invariant of what a program owns.                         *)

LifeTypeOK ==
  /\ program \in Programs
  /\ phase \in {"body", "cleanup", "exit", "halt"}
  /\ step \in Nat \ {0}
  /\ round \in Nat
  /\ value \in [Resource -> Value]

\* What is owned was acquired on the way, until the cleanup has passed it.
LifeOwnedInv ==
  /\ phase = "body" => \A r \in Resource : value[r] \in Owned => Got(program, r, step)
  /\ phase = "cleanup" => \A i \in CleanupEntries(program) :
                            i < step => value[program.cleanup[i].res] \notin Owned
  /\ ReleasesAll

\* What the steps have passed is initialised, and nothing released is kept
\* but what the cleanup has passed.
LifeKeptInv ==
  /\ phase = "body" =>
       \A r \in Resource : /\ value[r] # "stale"
                           /\ Initialised(program, r, step) => value[r] # "garbage"
  /\ phase = "cleanup" => \A i \in CleanupEntries(program) :
                            i >= step => value[program.cleanup[i].res] # "stale"

\* A round has been done: the loop is running, or was left when it could be.
InLoop(k)   == k = step /\ \A r \in program.body[k].uses : value[r] \in Owned
LoopDone(k) == k < step /\ Leaves(program.body[k])
LifeRoundInv == round > 0 =>
  /\ phase = "body" => \E k \in Steps(program) : /\ program.body[k].op = "loop"
                                                 /\ InLoop(k) \/ LoopDone(k)
  /\ phase = "cleanup" => \A i \in CleanupEntries(program) :
                            /\ value[program.cleanup[i].res] # "garbage"
                            /\ program.cleanup[i].closes

\* Where no failure is survived, what was acquired is there.
LifeStraightInv ==
  /\ phase = "body" => \A r \in Resource : Got(program, r, step) => value[r] \in Owned
  /\ phase = "cleanup" => \A i \in CleanupEntries(program) :
                            i >= step => value[program.cleanup[i].res] \in Owned

\* Undefined behaviour halts the program, and comes where it may only.
LifeFaultInv ==
  /\ fault # <<>> <=> phase = "halt"
  /\ WellDefined

\* The programs that release on the way are left out of LifeKeptInv, for it is
\* false of them; LifeStraightInv is about those that survive no failure.
LifeInv ==
  /\ LifeTypeOK /\ LifeOwnedInv /\ LifeFaultInv
  /\ program.name \notin Exempt => LifeKeptInv /\ LifeRoundInv
  /\ program.name \in Straight => LifeStraightInv

-----------------------------------------------------------------------------
\* So does the program that runs.
LEMMA MainProgram == ASSUME program \in Programs PROVE Disciplined(program)
  BY ProgramsAssumption, MainsDisciplined

\* Nothing has been acquired when main starts.
LEMMA LifeInitHolds == Init => LifeInv
<1> SUFFICES ASSUME Init PROVE LifeInv
  OBVIOUS
<1>0. Disciplined(program)
  BY MainProgram DEF Init
<1>1. LifeTypeOK
  BY DEF Init, LifeTypeOK, Value
<1>2. LifeOwnedInv
  BY DEF Init, LifeOwnedInv, ReleasesAll, Owned
<1>3. LifeFaultInv
  BY DEF Init, LifeFaultInv, WellDefined
<1>4. LifeKeptInv
  BY DEF Init, LifeKeptInv, Initialised, Steps
<1>5. LifeRoundInv
  BY DEF Init, LifeRoundInv
<1>6. LifeStraightInv
  BY DEF Init, LifeStraightInv, Got, Steps
<1> QED
  BY <1>1, <1>2, <1>3, <1>4, <1>5, <1>6 DEF LifeInv

\* A step keeps the types: it goes to a step of the table, and a pointer gets
\* one of its values.
LEMMA LifeTypeStep ==
  ASSUME LifeTypeOK, Next
  PROVE  LifeTypeOK'
<1> USE DEF LifeTypeOK
<1>0. Disciplined(program)
  BY MainProgram
<1>1. CASE GetOk
  BY <1>0, <1>1 DEF Disciplined, WellFormed, StepOk, Steps, Value, Owned, GetOk, InBody,
      Advance, This
<1>2. CASE GetFails
  BY <1>0, <1>2 DEF Disciplined, WellFormed, StepOk, Steps, Value, GetFails, InBody,
      FailTo, This
<1>3. CASE DeclareNull
  BY <1>0, <1>3 DEF Disciplined, WellFormed, StepOk, Steps, Value, DeclareNull, InBody,
      Advance, This
<1>4. CASE UseLive
  BY <1>4 DEF UseLive, InBody, Advance, This
<1>5. CASE UseDead
  BY <1>5 DEF UseDead, InBody, Halt, This
<1>6. CASE TryOk
  BY <1>6 DEF TryOk, InBody, Advance
<1>7. CASE TryFails
  BY <1>0, <1>7 DEF Disciplined, WellFormed, StepOk, Steps, Value, TryFails, InBody,
      FailTo, This
<1>8. CASE DropOne
  BY <1>0, <1>8 DEF Disciplined, WellFormed, StepOk, Steps, Value, DropOne, InBody,
      Advance, Halt, This
<1>9. CASE LoopRound
  BY <1>9, RoundsAssumption DEF Value, LoopRound, InBody, This
<1>10. CASE LoopUsesDead
  BY <1>10 DEF LoopUsesDead, InBody, Halt, This
<1>11. CASE LoopEnds
  BY <1>11 DEF LoopEnds, InBody, Advance, This
<1>12. CASE LoopFails
  BY <1>0, <1>12 DEF Disciplined, WellFormed, StepOk, Steps, Value, LoopFails, InBody,
      FailTo, This
<1>13. CASE BodyEnds
  BY <1>13 DEF BodyEnds
<1>14. CASE Cleanup
  BY <1>0, <1>14 DEF Disciplined, WellFormed, CleanupEntries, Value, Cleanup, Halt
<1>15. CASE Exit
  BY <1>15 DEF Exit
<1>16. CASE Over
  BY <1>16 DEF Over, vars
<1> QED
  BY Zenon, <1>1, <1>2, <1>3, <1>4, <1>5, <1>6, <1>7, <1>8, <1>9, <1>10, <1>11, <1>12,
      <1>13, <1>14, <1>15, <1>16 DEF Next

\* A step keeps what is owned accounted for: acquired on the way, or not yet
\* passed by the cleanup; a failing branch that returns releases it all.
LEMMA LifeOwnedStep ==
  ASSUME LifeTypeOK, LifeOwnedInv, LifeTypeOK', Next
  PROVE  LifeOwnedInv'
<1> USE DEF LifeTypeOK, LifeOwnedInv
<1>0. Disciplined(program)
  BY MainProgram
<1>1. CASE GetOk
  BY <1>1 DEF Steps, Got, ReleasesAll, GetOk, InBody, Advance, This
<1>2. CASE GetFails
  <2> DEFINE o == program.body[step]
  <2>1. /\ step \in Steps(program) /\ o.op = "get" /\ phase = "body"
        /\ FailTo(o.fail, [value EXCEPT ![o.res] = "null"])
    BY <1>2 DEF GetFails, InBody, This, Steps
  <2>2. o.res \in Resource /\ o.fail.to \in {"next", "exit", "cleanup"}
    BY <1>0, <2>1 DEF Disciplined, WellFormed, StepOk
  <2>3. \A r \in Resource : value'[r] \in Owned =>
          value[r] \in Owned /\ r \notin o.fail.frees /\ r # o.res
    BY <2>1, <2>2 DEF FailTo, Owned
  <2>4. CASE o.fail.to = "next"
    BY <2>1, <2>3, <2>4 DEF FailTo, Got, Steps, ReleasesAll
  <2>5. CASE o.fail.to = "cleanup"
    BY <2>1, <2>5 DEF FailTo, CleanupEntries, ReleasesAll
  <2>6. CASE o.fail.to = "exit"
    <3>1. \A r \in Manages(program) : r \in Resource
      BY <1>0 DEF Disciplined, WellFormed, Manages, CleanupEntries
    <3>2. \A r \in Manages(program) :
            Got(program, r, step) => r \in o.fail.frees \/ o.res = r
      BY <1>0, <2>1, <2>6 DEF Disciplined, SafeExit
    <3>3. \A r \in Manages(program) : value'[r] \notin Owned
      BY <2>1, <2>3, <3>1, <3>2
    <3> QED
      BY <2>1, <2>6, <3>3 DEF FailTo, ReleasesAll
  <2> QED
    BY <2>2, <2>4, <2>5, <2>6
<1>3. CASE DeclareNull
  BY <1>3 DEF Steps, Owned, Got, ReleasesAll, DeclareNull, InBody, Advance, This
<1>4. CASE UseLive
  BY <1>4 DEF Steps, Got, ReleasesAll, UseLive, InBody, Advance, This
<1>5. CASE UseDead
  BY <1>5 DEF ReleasesAll, UseDead, InBody, Halt, This
<1>6. CASE TryOk
  BY <1>6 DEF Steps, Got, ReleasesAll, TryOk, InBody, Advance
<1>7. CASE TryFails
  BY <1>0, <1>7 DEF Disciplined, WellFormed, StepOk, SafeExit, Steps, CleanupEntries,
      Owned, Got, Manages, ReleasesAll, TryFails, InBody, FailTo, This
<1>8. CASE DropOne
  BY <1>8 DEF Steps, Got, ReleasesAll, DropOne, InBody, Advance, Halt, This
<1>9. CASE LoopRound
  BY <1>9, RoundsAssumption DEF Owned, ReleasesAll, LoopRound, InBody, This
<1>10. CASE LoopUsesDead
  BY <1>10 DEF ReleasesAll, LoopUsesDead, InBody, Halt, This
<1>11. CASE LoopEnds
  BY <1>11 DEF Steps, Got, ReleasesAll, LoopEnds, InBody, Advance, This
<1>12. CASE LoopFails
  BY <1>0, <1>12 DEF Disciplined, WellFormed, StepOk, SafeExit, Steps, CleanupEntries,
      Value, Owned, Manages, ReleasesAll, LoopFails, InBody, FailTo, This
<1>13. CASE BodyEnds
  BY <1>13 DEF CleanupEntries, ReleasesAll, BodyEnds
<1>14. CASE Cleanup
  BY <1>0, <1>14 DEF Disciplined, WellFormed, CleanupEntries, Owned, Got, ReleasesAll,
      Cleanup, Halt
<1>15. CASE Exit
  BY <1>15 DEF CleanupEntries, Manages, ReleasesAll, Exit
<1>16. CASE Over
  BY <1>16 DEF ReleasesAll, Over, vars
<1> QED
  BY Zenon, <1>1, <1>2, <1>3, <1>4, <1>5, <1>6, <1>7, <1>8, <1>9, <1>10, <1>11, <1>12,
      <1>13, <1>14, <1>15, <1>16 DEF Next

\* A step keeps no released pointer and leaves none uninitialised behind it,
\* in a program that releases nothing before its cleanup.
LEMMA LifeKeptStep ==
  ASSUME LifeTypeOK, LifeKeptInv, LifeTypeOK', program.name \notin Exempt, Next
  PROVE  LifeKeptInv'
<1> USE DEF LifeTypeOK, LifeKeptInv
<1>0. Disciplined(program)
  BY MainProgram
<1>1. CASE GetOk
  BY <1>0, <1>1 DEF Disciplined, WellFormed, StepOk, Steps, Owned, Initialised, GetOk,
      InBody, Advance, This
<1>2. CASE GetFails
  BY <1>0, <1>2 DEF Disciplined, WellFormed, Steps, Initialised, GetFails, InBody, FailTo,
      This
<1>3. CASE DeclareNull
  BY <1>3 DEF Steps, Initialised, DeclareNull, InBody, Advance, This
<1>4. CASE UseLive
  BY <1>4 DEF Steps, Initialised, UseLive, InBody, Advance, This
<1>5. CASE UseDead
  BY <1>5 DEF UseDead, InBody, Halt, This
<1>6. CASE TryOk
  BY <1>6 DEF Steps, Initialised, TryOk, InBody, Advance
<1>7. CASE TryFails
  BY <1>0, <1>7 DEF Disciplined, WellFormed, Steps, Initialised, TryFails, InBody, FailTo,
      This
<1>8. CASE DropOne
  BY <1>0, <1>8 DEF Disciplined, Tame, Steps, DropOne, InBody, Advance, Halt, This
<1>9. CASE LoopRound
  BY <1>9, RoundsAssumption DEF LoopRound, InBody, This
<1>10. CASE LoopUsesDead
  BY <1>10 DEF LoopUsesDead, InBody, Halt, This
<1>11. CASE LoopEnds
  BY <1>11 DEF Steps, Initialised, LoopEnds, InBody, Advance, This
<1>12. CASE LoopFails
  BY <1>0, <1>12 DEF Disciplined, WellFormed, StepOk, Steps, LoopFails, InBody, FailTo, This
<1>13. CASE BodyEnds
  BY <1>0, <1>13 DEF Disciplined, WellFormed, BodyEnds
<1>14. CASE Cleanup
  BY <1>0, <1>14 DEF Disciplined, WellFormed, Tame, CleanupEntries, Cleanup, Halt
<1>15. CASE Exit
  BY <1>15 DEF Exit
<1>16. CASE Over
  BY <1>16 DEF Over, vars
<1> QED
  BY Zenon, <1>1, <1>2, <1>3, <1>4, <1>5, <1>6, <1>7, <1>8, <1>9, <1>10, <1>11, <1>12,
      <1>13, <1>14, <1>15, <1>16 DEF Next

\* A round done and the loop left, what the cleanup tests is initialised.
LEMMA LoopLeft ==
  ASSUME LifeTypeOK, LifeKeptInv, program.name \notin Exempt, phase = "body",
         NEW k \in Steps(program), program.body[k].op = "loop", k <= step,
         Leaves(program.body[k])
  PROVE  \A i \in CleanupEntries(program) : /\ value[program.cleanup[i].res] # "garbage"
                                     /\ program.cleanup[i].closes
<1>0. Disciplined(program)
  BY MainProgram DEF LifeTypeOK
<1> TAKE i \in CleanupEntries(program)
<1> DEFINE r == program.cleanup[i].res
<1>1. r \in Resource /\ r \in Manages(program)
  BY <1>0 DEF Disciplined, WellFormed, Manages, CleanupEntries
<1>2. Initialised(program, r, k) /\ program.cleanup[i].closes
  BY <1>0, <1>1 DEF Disciplined, Tame
<1>3. Initialised(program, r, step)
  BY <1>2 DEF Initialised, Steps, LifeTypeOK
<1> QED
  BY <1>1, <1>2, <1>3 DEF LifeKeptInv

\* Once a round is done a step that is not the loop comes after it.
LEMMA AfterLoop ==
  ASSUME LifeTypeOK, LifeRoundInv, program.name \notin Exempt, phase = "body", round > 0
  PROVE  \E k \in Steps(program) :
           /\ program.body[k].op = "loop"
           /\ InLoop(k) \/ LoopDone(k)
           /\ step \in Steps(program) /\ program.body[step].op = "loop" => InLoop(step)
           /\ step \in Steps(program) /\ program.body[step].op # "loop" =>
                LoopDone(k) /\ program.body[step].op = "try"
           /\ step \notin Steps(program) => LoopDone(k)
<1>0. Disciplined(program)
  BY MainProgram DEF LifeTypeOK
<1>1. PICK k \in Steps(program) : program.body[k].op = "loop" /\ (InLoop(k) \/ LoopDone(k))
  BY DEF LifeRoundInv
<1>2. \A j \in Steps(program) : j > k => program.body[j].op = "try"
  BY <1>0, <1>1 DEF Disciplined, Tame
<1> QED
  BY <1>1, <1>2 DEF InLoop, LoopDone, Steps, LifeTypeOK

\* A step keeps what a round of the main loop has shown: the resources of the
\* loop were live, and nothing but checks comes after it.
LEMMA LifeRoundStep ==
  ASSUME LifeTypeOK, LifeKeptInv, LifeRoundInv, LifeTypeOK', program.name \notin Exempt,
      Next
  PROVE  LifeRoundInv'
<1> USE DEF LifeTypeOK, LifeRoundInv
<1>0. Disciplined(program)
  BY MainProgram
<1>1. CASE GetOk
  BY <1>1 DEF Steps, InLoop, LoopDone, GetOk, InBody, Advance, This
<1>2. CASE GetFails
  BY <1>0, <1>2 DEF Disciplined, Tame, Steps, InLoop, LoopDone, GetFails, InBody, FailTo,
      This
<1>3. CASE DeclareNull
  BY <1>3 DEF Steps, InLoop, LoopDone, DeclareNull, InBody, Advance, This
<1>4. CASE UseLive
  BY <1>4 DEF Steps, InLoop, LoopDone, UseLive, InBody, Advance, This
<1>5. CASE UseDead
  BY <1>5 DEF UseDead, InBody, Halt, This
<1>6. CASE TryOk
  BY <1>6 DEF Steps, InLoop, LoopDone, TryOk, InBody, Advance
<1>7. CASE TryFails
  <2> SUFFICES ASSUME round > 0 PROVE LifeRoundInv'
    BY <1>7 DEF TryFails, FailTo
  <2>1. /\ step \in Steps(program) /\ program.body[step].op = "try" /\ phase = "body"
        /\ FailTo(program.body[step].fail, value)
    BY <1>7 DEF TryFails, InBody, This, Steps
  <2>2. PICK k \in Steps(program) : program.body[k].op = "loop" /\ LoopDone(k)
    BY <2>1, AfterLoop
  <2>3. \A i \in CleanupEntries(program) : /\ value[program.cleanup[i].res] # "garbage"
                                    /\ program.cleanup[i].closes
    BY <2>1, <2>2, LoopLeft DEF LoopDone, Steps
  <2> QED
    <3>1. CASE program.body[step].fail.to = "next"
      <4>1. LoopDone(k)'
        BY <2>1, <2>2, <3>1 DEF FailTo, LoopDone, Steps
      <4> QED
        BY <2>1, <2>2, <3>1, <4>1 DEF FailTo, Steps
    <3>2. CASE program.body[step].fail.to # "next"
      <4>1. program.body[step].fail.to # "body"
        BY <1>0, <2>1 DEF Disciplined, WellFormed, StepOk
      <4> QED
        BY <1>0, <2>1, <2>3, <3>2, <4>1 DEF FailTo, Disciplined, WellFormed, CleanupEntries
    <3> QED
      BY <3>1, <3>2
<1>8. CASE DropOne
  BY <1>0, <1>8 DEF Disciplined, Tame, Steps, DropOne, InBody
<1>9. CASE LoopRound
  BY <1>0, <1>9, RoundsAssumption DEF Disciplined, Tame, Steps, InLoop, LoopRound, InBody,
      This
<1>10. CASE LoopUsesDead
  BY <1>10 DEF LoopUsesDead, InBody, Halt, This
<1>11. CASE LoopEnds
  BY <1>11 DEF Steps, LoopDone, Leaves, LoopEnds, InBody, Advance, This
<1>12. CASE LoopFails
  <2>1. /\ step \in Steps(program) /\ program.body[step].op = "loop" /\ phase = "body"
        /\ FailTo(program.body[step].fail, value) /\ Leaves(program.body[step])
    BY <1>12 DEF LoopFails, InBody, This, Steps, Leaves
  <2>2. program.body[step].fail.to # "next"
    BY <1>12 DEF LoopFails, This
  <2>3. \A i \in CleanupEntries(program) : /\ value[program.cleanup[i].res] # "garbage"
                                    /\ program.cleanup[i].closes
    BY <2>1, LoopLeft
  <2>4. program.body[step].fail.to # "body"
    BY <1>0, <2>1 DEF Disciplined, WellFormed, StepOk
  <2> QED
    BY <1>0, <2>1, <2>2, <2>3, <2>4 DEF FailTo, Disciplined, WellFormed, CleanupEntries
<1>13. CASE BodyEnds
  <2> SUFFICES ASSUME round > 0 PROVE LifeRoundInv'
    BY <1>13 DEF BodyEnds
  <2>1. phase = "body" /\ step \notin Steps(program)
    BY <1>13 DEF BodyEnds, Steps
  <2>2. PICK k \in Steps(program) : program.body[k].op = "loop" /\ LoopDone(k)
    BY <2>1, AfterLoop
  <2>3. \A i \in CleanupEntries(program) : /\ value[program.cleanup[i].res] # "garbage"
                                    /\ program.cleanup[i].closes
    BY <2>1, <2>2, LoopLeft DEF LoopDone, Steps
  <2> QED
    BY <1>13, <2>3 DEF BodyEnds, CleanupEntries
<1>14. CASE Cleanup
  BY <1>0, <1>14 DEF Disciplined, WellFormed, CleanupEntries, Cleanup, Halt
<1>15. CASE Exit
  BY <1>15 DEF Exit
<1>16. CASE Over
  BY <1>16 DEF Over, vars
<1> QED
  BY Zenon, <1>1, <1>2, <1>3, <1>4, <1>5, <1>6, <1>7, <1>8, <1>9, <1>10, <1>11, <1>12,
      <1>13, <1>14, <1>15, <1>16 DEF Next

\* A step keeps live what was acquired, where every failure ends the program.
LEMMA LifeStraightStep ==
  ASSUME LifeTypeOK, LifeStraightInv, LifeTypeOK', program.name \in Straight, Next
  PROVE  LifeStraightInv'
<1> USE DEF LifeTypeOK, LifeStraightInv
<1>0. Disciplined(program)
  BY MainProgram
<1>1. CASE GetOk
  BY <1>0, <1>1 DEF Disciplined, WellFormed, StepOk, Steps, Got, GetOk, InBody, Advance,
      This
<1>2. CASE GetFails
  BY <1>0, <1>2 DEF Disciplined, Strict, Steps, GetFails, InBody, FailTo, This
<1>3. CASE DeclareNull
  BY <1>0, <1>3 DEF Disciplined, Strict, Steps, DeclareNull, InBody, Advance, This
<1>4. CASE UseLive
  BY <1>4 DEF Steps, Got, UseLive, InBody, Advance, This
<1>5. CASE UseDead
  BY <1>5 DEF UseDead, InBody, Halt, This
<1>6. CASE TryOk
  BY <1>6 DEF Steps, Got, TryOk, InBody, Advance
<1>7. CASE TryFails
  BY <1>0, <1>7 DEF Disciplined, Strict, Steps, TryFails, InBody, FailTo, This
<1>8. CASE DropOne
  BY <1>0, <1>8 DEF Disciplined, Strict, Straight, Steps, DropOne, InBody, Advance, Halt,
      This
<1>9. CASE LoopRound
  BY <1>0, <1>9, RoundsAssumption DEF Disciplined, Tame, Exempt, Straight, Steps,
      LoopRound, InBody, This
<1>10. CASE LoopUsesDead
  BY <1>10 DEF LoopUsesDead, InBody, Halt, This
<1>11. CASE LoopEnds
  BY <1>11 DEF Steps, Got, LoopEnds, InBody, Advance, This
<1>12. CASE LoopFails
  BY <1>0, <1>12 DEF Disciplined, Strict, Steps, LoopFails, InBody, FailTo, This
<1>13. CASE BodyEnds
  <2>1. \A i \in CleanupEntries(program) : /\ program.cleanup[i].res \in Resource
                                    /\ Got(program, program.cleanup[i].res,
                                        Len(program.body) + 1)
    BY <1>0 DEF Disciplined, WellFormed, Strict
  <2>2. \A r \in Resource : Got(program, r, Len(program.body) + 1) => Got(program, r, step)
    BY <1>0, <1>13 DEF BodyEnds, Got, Steps, Disciplined, WellFormed
  <2> QED
    BY <1>13, <2>1, <2>2 DEF BodyEnds, CleanupEntries
<1>14. CASE Cleanup
  BY <1>0, <1>14 DEF Disciplined, WellFormed, StepOk, Tame, Exempt, Straight,
      CleanupEntries, Cleanup, Halt
<1>15. CASE Exit
  BY <1>15 DEF Exit
<1>16. CASE Over
  BY <1>16 DEF Over, vars
<1> QED
  BY Zenon, <1>1, <1>2, <1>3, <1>4, <1>5, <1>6, <1>7, <1>8, <1>9, <1>10, <1>11, <1>12,
      <1>13, <1>14, <1>15, <1>16 DEF Next

\* A step runs into undefined behaviour only where WellDefined says.
LEMMA LifeFaultStep ==
  ASSUME LifeInv, Next
  PROVE  LifeFaultInv'
<1> USE DEF LifeTypeOK, LifeFaultInv
<1>0. Disciplined(program)
  BY MainProgram DEF LifeInv
<1>1. CASE GetOk
  BY <1>1 DEF LifeInv, WellDefined, GetOk, InBody, Advance, This
<1>2. CASE GetFails
  BY <1>0, <1>2 DEF LifeInv, Disciplined, WellFormed, StepOk, Steps, WellDefined,
      GetFails, InBody, FailTo, This
<1>3. CASE DeclareNull
  BY <1>3 DEF LifeInv, WellDefined, DeclareNull, InBody, Advance, This
<1>4. CASE UseLive
  BY <1>4 DEF LifeInv, WellDefined, UseLive, InBody, Advance, This
<1>5. CASE UseDead
  <2>1. /\ step \in Steps(program) /\ program.body[step].op = "use" /\ phase = "body"
        /\ Halt("dead", program.body[step].res)
    BY <1>5 DEF UseDead, InBody, This, Steps, LifeInv
  <2>2. program.name \notin Straight
    BY <1>0, <2>1 DEF Disciplined, Strict
  <2>3. program.name \notin Exempt => round = 0
    <3> SUFFICES ASSUME program.name \notin Exempt, round > 0 PROVE FALSE
      BY DEF LifeInv
    <3> QED
      BY <2>1, AfterLoop DEF LifeInv
  <2> QED
    BY <2>1, <2>2, <2>3 DEF Halt, WellDefined, Faulty, Exempt, Straight
<1>6. CASE TryOk
  BY <1>6 DEF LifeInv, WellDefined, TryOk, InBody, Advance
<1>7. CASE TryFails
  BY <1>0, <1>7 DEF LifeInv, Disciplined, WellFormed, StepOk, Steps, WellDefined,
      TryFails, InBody, FailTo, This
<1>8. CASE DropOne
  <2>1. /\ step \in Steps(program) /\ program.body[step].op = "drop"
        /\ program' = program
    BY <1>8 DEF DropOne, InBody, Steps, Advance, Halt, LifeInv
  <2>2. program.name \in Exempt
    BY <1>0, <2>1 DEF Disciplined, Tame
  <2>3. /\ phase = "body"
        /\ \/ phase' = "body" /\ fault' = fault
           \/ \E r : phase' = "halt" /\ fault' = <<"double", r>>
    BY <1>8 DEF DropOne, InBody, Advance, Halt
  <2>4. \A r : <<"double", r>> # <<>>
    OBVIOUS
  <2>5. fault' # <<>> <=> phase' = "halt"
    BY <2>3, <2>4 DEF LifeInv
  <2>6. WellDefined'
    BY <2>1, <2>2, Zenon DEF WellDefined, Exempt
  <2> QED
    BY <2>5, <2>6, Zenon
<1>9. CASE LoopRound
  BY <1>9 DEF LifeInv, WellDefined, LoopRound, InBody, This
<1>10. CASE LoopUsesDead
  BY <1>0, <1>10 DEF LifeInv, Disciplined, WellFormed, StepOk, Tame, Strict, Exempt,
      Straight, Steps, LifeRoundInv, InLoop, LoopDone, LifeStraightInv, WellDefined,
      Faulty, LoopUsesDead, InBody, Halt, This
<1>11. CASE LoopEnds
  BY <1>11 DEF LifeInv, WellDefined, LoopEnds, InBody, Advance, This
<1>12. CASE LoopFails
  BY <1>0, <1>12 DEF LifeInv, Disciplined, WellFormed, StepOk, Steps, WellDefined,
      LoopFails, InBody, FailTo, This
<1>13. CASE BodyEnds
  BY <1>13 DEF LifeInv, WellDefined, BodyEnds
<1>14. CASE Cleanup
  <2> DEFINE c == program.cleanup[step]
  <2>1. phase = "cleanup" /\ step \in CleanupEntries(program) /\ c.res \in Resource
    BY <1>0, <1>14 DEF Cleanup, CleanupEntries, Disciplined, WellFormed, LifeInv
  <2>2. CASE Halt("double", c.res) /\ value[c.res] = "stale"
    <3>1. program.name \in Exempt
      BY <2>1, <2>2 DEF LifeInv, LifeKeptInv, CleanupEntries
    <3> QED
      BY <2>2, <3>1 DEF Halt, WellDefined, Exempt
  <2>3. ASSUME NEW kind, kind # "double", Halt(kind, c.res),
               value[c.res] # "garbage" => ~c.closes
        PROVE  LifeFaultInv'
    <3>1. program.name \notin Exempt => round = 0
      BY <2>1, <2>3 DEF LifeInv, LifeRoundInv
    <3>2. program.name \notin Straight
      BY <1>0, <2>1, <2>3 DEF LifeInv, LifeStraightInv, Owned, CleanupEntries,
          Disciplined, Strict
    <3> QED
      BY <2>3, <3>1, <3>2 DEF Halt, WellDefined, Faulty, Exempt, Straight
  <2>4. CASE phase' = phase /\ fault' = fault /\ program' = program /\ round' = round
    BY <2>1, <2>4 DEF WellDefined, Faulty, LifeInv
  <2>5. \/ Halt("indeterminate", c.res) /\ value[c.res] = "garbage"
        \/ Halt("double", c.res) /\ value[c.res] = "stale"
        \/ Halt("unclosed", c.res) /\ value[c.res] = "open" /\ ~c.closes
        \/ phase' = phase /\ fault' = fault /\ program' = program /\ round' = round
    BY <1>14 DEF Cleanup
  <2>6. CASE Halt("indeterminate", c.res) /\ value[c.res] = "garbage"
    BY <2>3, <2>6, Zenon
  <2>7. CASE Halt("unclosed", c.res) /\ value[c.res] = "open" /\ ~c.closes
    BY <2>3, <2>7
  <2> QED
    BY <2>2, <2>4, <2>5, <2>6, <2>7, Zenon
<1>15. CASE Exit
  BY <1>15 DEF LifeInv, WellDefined, Exit
<1>16. CASE Over
  BY <1>16 DEF LifeInv, WellDefined, Faulty, Over, vars
<1> QED
  BY Zenon, <1>1, <1>2, <1>3, <1>4, <1>5, <1>6, <1>7, <1>8, <1>9, <1>10, <1>11, <1>12,
      <1>13, <1>14, <1>15, <1>16 DEF Next

\* Every step keeps the invariant, and the program stays the same.
LEMMA LifeInvStep == LifeInv /\ [Next]_vars => LifeInv'
<1> SUFFICES ASSUME LifeInv, [Next]_vars PROVE LifeInv'
  OBVIOUS
<1>1. CASE UNCHANGED vars
  BY <1>1 DEF vars, LifeInv, LifeTypeOK, LifeOwnedInv, ReleasesAll, LifeFaultInv,
      WellDefined, Faulty, LifeKeptInv, LifeRoundInv, InLoop, LoopDone, LifeStraightInv
<1>2. CASE Next
  <2>1. LifeTypeOK' /\ LifeOwnedInv' /\ LifeFaultInv'
    BY <1>2, LifeTypeStep, LifeOwnedStep, LifeFaultStep DEF LifeInv
  <2>2. program' = program
    BY <1>2 DEF Next, GetOk, GetFails, DeclareNull, UseLive, UseDead, TryOk, TryFails,
        DropOne, LoopRound, LoopUsesDead, LoopEnds, LoopFails, BodyEnds, Cleanup, Exit,
        Over, Advance, FailTo, Halt, vars
  <2>3. program.name \notin Exempt => LifeKeptInv' /\ LifeRoundInv'
    BY <1>2, <2>1, LifeKeptStep, LifeRoundStep DEF LifeInv
  <2>4. program.name \in Straight => LifeStraightInv'
    BY <1>2, <2>1, LifeStraightStep DEF LifeInv
  <2> QED
    BY <2>1, <2>2, <2>3, <2>4 DEF LifeInv
<1> QED
  BY <1>1, <1>2

\* Whatever fails on the way, a program that exits has released everything its
\* cleanup block answers for: the goto fail and return branches of the mains.
THEOREM ReleasesAllCorrect == Spec => []ReleasesAll
<1>1. LifeInv => ReleasesAll
  BY DEF LifeInv, LifeOwnedInv
<1> QED
  BY <1>1, LifeInitHolds, LifeInvStep, PTL DEF Spec

\* No program releases twice nor uses what is not live once its loop has run,
\* and demuxing_audio and dumpMetaData never do; demuxing_video and mp4toh264
\* are exempt.
THEOREM WellDefinedCorrect == Spec => []WellDefined
<1>1. LifeInv => WellDefined
  BY DEF LifeInv, LifeFaultInv
<1> QED
  BY <1>1, LifeInitHolds, LifeInvStep, PTL DEF Spec

=============================================================================
