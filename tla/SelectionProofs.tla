-------------------------- MODULE SelectionProofs --------------------------
(***************************************************************************)
(* What Omit does to an empty sequence, to one more element and to a       *)
(* concatenation.  What a recursive function computes is shown by taking   *)
(* the least number for which it would not hold.                           *)
(***************************************************************************)
EXTENDS Selection, Integers, SequenceTheorems, WellFoundedInduction, TLAPS

\* A nonempty set of numbers has a least one.
LEMMA LeastNat ==
  ASSUME NEW T, T \subseteq Nat, T # {}
  PROVE  \E i \in T : \A j \in T : i <= j
<1>1. PICK x \in T : \A y \in T : ~(<<y, x>> \in OpToRel(<, Nat))
  BY NatLessThanWellFounded, WFMin
<1>2. \A y \in T : ~(y < x)
  BY <1>1 DEF OpToRel
<1> QED
  BY <1>2

-----------------------------------------------------------------------------
(* The function that Omit is the last value of.                            *)

Next1(f, s, X, n) == IF s[n] \in X THEN f[n - 1] ELSE Append(f[n - 1], s[n])

\* f is that function, up to m.
Keeps(f, s, X, m) ==
  f = [n \in 0 .. m |-> IF n = 0 THEN <<>> ELSE Next1(f, s, X, n)]

LEMMA KeepsExists ==
  ASSUME NEW s, NEW X, NEW m \in Nat
  PROVE  \E f : Keeps(f, s, X, m)
<1> DEFINE T == {k \in Nat : ~ \E f : Keeps(f, s, X, k)}
<1> SUFFICES ASSUME T # {} PROVE FALSE
  OBVIOUS
<1>1. PICK k \in T : \A j \in T : k <= j
  BY LeastNat
<1>2. k # 0
  <2> DEFINE f == [n \in 0 .. 0 |-> <<>>]
  <2>1. \A n \in 0 .. 0 : n = 0
    OBVIOUS
  <2>2. Keeps(f, s, X, 0)
    BY <2>1 DEF Keeps
  <2> QED
    BY <1>1, <2>2
<1>3. k - 1 \in Nat /\ k - 1 \notin T
  BY <1>1, <1>2
<1>4. PICK g : Keeps(g, s, X, k - 1)
  BY <1>3
<1> DEFINE f == [n \in 0 .. k |-> IF n = k THEN Next1(g, s, X, k) ELSE g[n]]
<1>5. \A n \in 0 .. k - 1 : f[n] = g[n] /\ g[n] = IF n = 0 THEN <<>> ELSE Next1(g, s, X, n)
  BY <1>3, <1>4 DEF Keeps
<1>6. \A n \in 0 .. k : n # 0 => Next1(f, s, X, n) = Next1(g, s, X, n)
  <2> SUFFICES ASSUME NEW n \in 0 .. k, n # 0
               PROVE  Next1(f, s, X, n) = Next1(g, s, X, n)
    OBVIOUS
  <2>1. n - 1 \in 0 .. k - 1
    BY <1>3
  <2>2. f[n - 1] = g[n - 1]
    BY <1>5, <2>1
  <2> QED
    BY <2>2 DEF Next1
<1>7. \A n \in 0 .. k : f[n] = IF n = 0 THEN <<>> ELSE Next1(f, s, X, n)
  <2> SUFFICES ASSUME NEW n \in 0 .. k
               PROVE  f[n] = IF n = 0 THEN <<>> ELSE Next1(f, s, X, n)
    OBVIOUS
  <2>1. CASE n = k
    BY <1>2, <1>6, <2>1
  <2>2. CASE n # k
    <3>1. n \in 0 .. k - 1
      BY <1>3, <2>2
    <3> HIDE DEF f
    <3> QED
      BY <1>5, <1>6, <3>1
  <2> QED
    BY <2>1, <2>2
<1>8. Keeps(f, s, X, k)
  <2>1. f = [n \in 0 .. k |-> f[n]]
    OBVIOUS
  <2> HIDE DEF f
  <2>2. [n \in 0 .. k |-> f[n]] = [n \in 0 .. k |-> IF n = 0 THEN <<>> ELSE Next1(f, s, X, n)]
    BY <1>7
  <2> QED
    BY <2>1, <2>2 DEF Keeps
<1> QED
  BY <1>1, <1>8

\* It depends on the elements it has passed only.
LEMMA KeepsAgree ==
  ASSUME NEW s, NEW t, NEW X, NEW f, NEW g, NEW m \in Nat, NEW k \in Nat,
         Keeps(f, s, X, m), Keeps(g, t, X, k), m <= k,
         \A n \in 1 .. m : s[n] = t[n]
  PROVE  \A n \in 0 .. m : f[n] = g[n]
<1> DEFINE T == {n \in 0 .. m : f[n] # g[n]}
<1> SUFFICES ASSUME T # {} PROVE FALSE
  OBVIOUS
<1>0. T \subseteq Nat
  OBVIOUS
<1>1. PICK n \in T : \A j \in T : n <= j
  BY <1>0, LeastNat
<1>2. n \in 0 .. m /\ n \in 0 .. k
  BY <1>1
<1>3. f[n] = (IF n = 0 THEN <<>> ELSE Next1(f, s, X, n))
      /\ g[n] = (IF n = 0 THEN <<>> ELSE Next1(g, t, X, n))
  BY <1>2 DEF Keeps
<1>4. n # 0
  BY <1>1, <1>3
<1>5. n - 1 \in 0 .. m /\ n - 1 \notin T /\ n \in 1 .. m
  BY <1>1, <1>2, <1>4
<1>6. f[n - 1] = g[n - 1] /\ s[n] = t[n]
  BY <1>5
<1> QED
  BY <1>1, <1>3, <1>4, <1>6 DEF Next1

LEMMA OmitKeeps ==
  ASSUME NEW s, NEW X, Len(s) \in Nat
  PROVE  \E f : Keeps(f, s, X, Len(s)) /\ Omit(s, X) = f[Len(s)]
<1>1. \E f : Keeps(f, s, X, Len(s))
  BY KeepsExists
<1> DEFINE F == CHOOSE f : Keeps(f, s, X, Len(s))
<1>2. Keeps(F, s, X, Len(s))
  BY <1>1
<1>3. Omit(s, X) = F[Len(s)]
  BY DEF Omit, Keeps, Next1
<1> QED
  BY <1>2, <1>3

\* What Omit returns for a sequence of elements of S, and for one more.
LEMMA OmitType ==
  ASSUME NEW S, NEW s \in Seq(S), NEW X
  PROVE  Omit(s, X) \in Seq(S)
<1>1. Len(s) \in Nat
  BY LenProperties
<1>2. PICK f : Keeps(f, s, X, Len(s)) /\ Omit(s, X) = f[Len(s)]
  BY <1>1, OmitKeeps
<1> DEFINE T == {n \in 0 .. Len(s) : f[n] \notin Seq(S)}
<1> SUFFICES ASSUME T # {} PROVE FALSE
  BY <1>1, <1>2
<1>3. T \subseteq Nat
  OBVIOUS
<1>4. PICK n \in T : \A j \in T : n <= j
  BY <1>3, LeastNat
<1>5. f[n] = IF n = 0 THEN <<>> ELSE Next1(f, s, X, n)
  BY <1>2 DEF Keeps
<1>6. n # 0
  BY <1>4, <1>5, EmptySeq
<1>7. n - 1 \in 0 .. Len(s) /\ n - 1 \notin T /\ n \in 1 .. Len(s)
  BY <1>1, <1>4, <1>6
<1>8. f[n - 1] \in Seq(S) /\ s[n] \in S
  BY <1>7, ElementOfSeq
<1>9. Next1(f, s, X, n) \in Seq(S)
  BY <1>8, AppendProperties DEF Next1
<1> QED
  BY <1>4, <1>5, <1>6, <1>9

LEMMA OmitEmpty ==
  ASSUME NEW X
  PROVE  Omit(<<>>, X) = <<>>
<1>1. Len(<<>>) = 0 /\ 0 \in Nat
  BY EmptySeq
<1>2. PICK f : Keeps(f, <<>>, X, 0) /\ Omit(<<>>, X) = f[0]
  BY <1>1, OmitKeeps
<1> QED
  BY <1>2 DEF Keeps

LEMMA OmitAppend ==
  ASSUME NEW S, NEW s \in Seq(S), NEW u \in S, NEW X
  PROVE  Omit(Append(s, u), X) =
           IF u \in X THEN Omit(s, X) ELSE Append(Omit(s, X), u)
<1> DEFINE t == Append(s, u)
           k == Len(s)
<1>1. k \in Nat /\ Len(t) = k + 1 /\ t[k + 1] = u /\ \A n \in 1 .. k : t[n] = s[n]
  BY AppendProperties, LenProperties
<1> HIDE DEF t, k
<1>2. PICK f : Keeps(f, s, X, k) /\ Omit(s, X) = f[k]
  BY <1>1, OmitKeeps DEF k
<1>3. PICK g : Keeps(g, t, X, k + 1) /\ Omit(t, X) = g[k + 1]
  BY <1>1, OmitKeeps
<1>4. \A n \in 0 .. k : f[n] = g[n]
  BY <1>1, <1>2, <1>3, KeepsAgree
<1>5. k + 1 \in 0 .. k + 1 /\ k + 1 # 0 /\ k \in 0 .. k /\ (k + 1) - 1 = k
  BY <1>1
<1>6. g[k + 1] = Next1(g, t, X, k + 1)
  BY <1>3, <1>5 DEF Keeps
<1>7. Next1(g, t, X, k + 1) = IF u \in X THEN g[k] ELSE Append(g[k], u)
  BY <1>1, <1>5 DEF Next1
<1> QED
  BY <1>2, <1>3, <1>4, <1>5, <1>6, <1>7 DEF t

\* A sequence that is not empty is another one and its last element.
LEMMA Unsnoc ==
  ASSUME NEW S, NEW s \in Seq(S), s # <<>>
  PROVE  \E r \in Seq(S), u \in S : s = Append(r, u) /\ Len(r) = Len(s) - 1
<1>1. PICK m \in Nat : Len(s) = m + 1
  <2>1. Len(s) \in Nat /\ Len(s) # 0
    BY EmptySeq, LenProperties
  <2> QED
    BY <2>1
<1> DEFINE r == SubSeq(s, 1, m)
           u == s[m + 1]
<1>2. u \in S /\ \A k \in 1 .. m : s[k] \in S
  BY <1>1, ElementOfSeq
<1>4. /\ r \in Seq(S) /\ Len(r) = m
      /\ \A k \in 1 .. m : r[k] = s[k]
  BY <1>2, SubSeqProperties
<1> HIDE DEF r, u
<1>5. /\ Append(r, u) \in Seq(S) /\ Len(Append(r, u)) = m + 1
      /\ \A k \in 1 .. m : Append(r, u)[k] = r[k]
      /\ Append(r, u)[m + 1] = u
  BY <1>2, <1>4, AppendProperties
<1>6. \A k \in 1 .. Len(s) : Append(r, u)[k] = s[k]
  BY <1>1, <1>4, <1>5 DEF u
<1>7. Append(r, u) = s
  BY <1>1, <1>5, <1>6, SeqEqual
<1> QED
  BY <1>1, <1>2, <1>4, <1>7

LEMMA AppendToConcat ==
  ASSUME NEW S, NEW s \in Seq(S), NEW t \in Seq(S), NEW u \in S
  PROVE  s \o Append(t, u) = Append(s \o t, u) /\ s \o t \in Seq(S)
<1>1. s \o t \in Seq(S) /\ <<u>> \in Seq(S)
  BY ConcatProperties
<1>2. Append(t, u) = t \o <<u>> /\ Append(s \o t, u) = (s \o t) \o <<u>>
  BY <1>1, AppendIsConcat, Zenon
<1>3. (s \o t) \o <<u>> = s \o (t \o <<u>>)
  BY <1>1, ConcatAssociative
<1> QED
  BY <1>1, <1>2, <1>3, Zenon

\* Omit goes through a concatenation.
LEMMA OmitConcat ==
  ASSUME NEW S, NEW s \in Seq(S), NEW t \in Seq(S), NEW X
  PROVE  Omit(s \o t, X) = Omit(s, X) \o Omit(t, X)
<1> DEFINE Goes(r) == Omit(s \o r, X) = Omit(s, X) \o Omit(r, X)
           T == {n \in Nat : \E r \in Seq(S) : Len(r) = n /\ ~Goes(r)}
<1> SUFFICES ASSUME T # {} PROVE FALSE
  BY LenProperties
<1>1. T \subseteq Nat
  OBVIOUS
<1>2. PICK n \in T : \A j \in T : n <= j
  BY <1>1, LeastNat
<1>3. PICK r \in Seq(S) : Len(r) = n /\ ~Goes(r)
  BY <1>2
<1>31. ~Goes(r)
  BY <1>3
<1>4. r # <<>>
  <2>1. s \o <<>> = s /\ Omit(s, X) \o <<>> = Omit(s, X) /\ Omit(<<>>, X) = <<>>
    BY OmitType, OmitEmpty, ConcatEmptySeq
  <2> QED
    BY <1>3, <2>1
<1>41. \E q \in Seq(S), u \in S : r = Append(q, u) /\ Len(q) = Len(r) - 1
  BY <1>4, Unsnoc, Zenon
<1>5. PICK q \in Seq(S), u \in S : r = Append(q, u) /\ Len(q) = n - 1
  BY <1>3, <1>41, Zenon
<1>6. n \in Nat /\ Len(q) \in Nat /\ Len(q) < n
  BY <1>2, <1>5, LenProperties
<1>7. Goes(q)
  <2>1. Len(q) \notin T
    BY <1>2, <1>6
  <2> QED
    BY <1>6, <2>1
<1> HIDE DEF Goes, T
<1>8. s \o Append(q, u) = Append(s \o q, u) /\ s \o q \in Seq(S)
  BY AppendToConcat
<1>81. \A w \in Seq(S) : Omit(Append(w, u), X) = IF u \in X THEN Omit(w, X)
                                                  ELSE Append(Omit(w, X), u)
  BY SMTT(60), OmitAppend
<1>9. Omit(Append(s \o q, u), X) = IF u \in X THEN Omit(s \o q, X)
                                             ELSE Append(Omit(s \o q, X), u)
  BY <1>8, <1>81, Zenon
<1>91. Omit(Append(q, u), X) = IF u \in X THEN Omit(q, X) ELSE Append(Omit(q, X), u)
  BY SMTT(60), OmitAppend
<1>10. Append(Omit(s, X) \o Omit(q, X), u) = Omit(s, X) \o Append(Omit(q, X), u)
  <2>1. Omit(s, X) \in Seq(S) /\ Omit(q, X) \in Seq(S) /\ <<u>> \in Seq(S)
    BY OmitType
  <2>2. ASSUME NEW v \in Seq(S), NEW w \in Seq(S)
        PROVE  v \o Append(w, u) = Append(v \o w, u)
    BY AppendToConcat
  <2> QED
    BY <2>1, <2>2, Zenon
<1> QED
  BY <1>3, <1>5, <1>7, <1>8, <1>9, <1>91, <1>10 DEF Goes

\* One element stays or goes.
LEMMA OmitOne ==
  ASSUME NEW S, NEW u \in S, NEW X
  PROVE  Omit(<<u>>, X) = IF u \in X THEN <<>> ELSE <<u>>
<1>1. <<u>> = Append(<<>>, u) /\ <<>> \in Seq(S)
  BY EmptySeq, AppendIsConcat, ConcatEmptySeq
<1>2. Omit(Append(<<>>, u), X) = IF u \in X THEN Omit(<<>>, X) ELSE Append(Omit(<<>>, X), u)
  BY <1>1, OmitAppend, Zenon
<1> QED
  BY <1>1, <1>2, OmitEmpty

-----------------------------------------------------------------------------
(* Where the elements that stay come from.                                 *)

\* g lists the numbers in T, smaller ones first.
Lists(g, T) ==
  /\ g \in Seq(Nat)
  /\ \A j, k \in 1 .. Len(g) : j < k => g[j] < g[k]
  /\ \A k \in 1 .. Len(g) : g[k] \in T
  /\ \A n \in T : \E k \in 1 .. Len(g) : g[k] = n

Staying(s, X) == {n \in 1 .. Len(s) : s[n] \notin X}

\* The numbers of the elements of s that stay, in order.
Picks(g, s, X) == /\ Lists(g, Staying(s, X))
                  /\ Len(g) = Len(Omit(s, X))
                  /\ \A k \in 1 .. Len(g) : Omit(s, X)[k] = s[g[k]]

\* One element more.
LEMMA PicksAppend ==
  ASSUME NEW S, NEW r \in Seq(S), NEW u \in S, NEW X, NEW g, Picks(g, r, X)
  PROVE  \E h : Picks(h, Append(r, u), X)
<1> DEFINE s == Append(r, u)
           m == Len(r)
           q == Omit(r, X)
<1>1. /\ m \in Nat /\ Len(s) = m + 1 /\ s[m + 1] = u
      /\ \A n \in 1 .. m : s[n] = r[n]
  BY AppendProperties, LenProperties
<1>2. /\ g \in Seq(Nat) /\ Len(g) = Len(q) /\ Len(g) \in Nat
      /\ \A j, k \in 1 .. Len(g) : j < k => g[j] < g[k]
      /\ \A k \in 1 .. Len(g) : g[k] \in Nat /\ g[k] \in 1 .. m /\ r[g[k]] \notin X
      /\ \A n \in 1 .. m : r[n] \notin X => \E k \in 1 .. Len(g) : g[k] = n
      /\ \A k \in 1 .. Len(g) : q[k] = r[g[k]]
  BY LenProperties, ElementOfSeq DEF Picks, Lists, Staying
<1>3. Omit(s, X) = IF u \in X THEN q ELSE Append(q, u)
  BY OmitAppend, Zenon
<1>4. q \in Seq(S)
  BY OmitType
<1> HIDE DEF s, m, q
<1>5. \A n \in 1 .. m + 1 : n = m + 1 \/ n \in 1 .. m
  BY <1>1
<1>6. \A n \in 1 .. m : n \in 1 .. m + 1 /\ n < m + 1
  BY <1>1
<1>7. CASE u \in X
  <2>1. Staying(s, X) = {n \in 1 .. m : r[n] \notin X}
    BY <1>1, <1>5, <1>6, <1>7 DEF Staying
  <2>2. Lists(g, Staying(s, X))
    BY <1>2, <2>1 DEF Lists
  <2>3. \A k \in 1 .. Len(g) : Omit(s, X)[k] = s[g[k]]
    BY <1>1, <1>2, <1>3, <1>7
  <2> QED
    BY <1>2, <1>3, <1>7, <2>2, <2>3 DEF Picks, s
<1>8. CASE u \notin X
  <2> DEFINE h == Append(g, m + 1)
  <2>1. /\ h \in Seq(Nat) /\ Len(h) = Len(g) + 1 /\ h[Len(g) + 1] = m + 1
        /\ \A k \in 1 .. Len(g) : h[k] = g[k]
    BY <1>1, <1>2, AppendProperties
  <2>2. /\ Omit(s, X) = Append(q, u)
        /\ Len(Append(q, u)) = Len(q) + 1 /\ Append(q, u)[Len(q) + 1] = u
        /\ \A k \in 1 .. Len(q) : Append(q, u)[k] = q[k]
    BY <1>3, <1>4, <1>8, AppendProperties
  <2> HIDE DEF h
  <2>3. \A k \in 1 .. Len(h) : k = Len(g) + 1 \/ k \in 1 .. Len(g)
    BY <1>2, <2>1
  <2>4. \A k \in 1 .. Len(h) : Omit(s, X)[k] = s[h[k]]
    <3> SUFFICES ASSUME NEW k \in 1 .. Len(h) PROVE Omit(s, X)[k] = s[h[k]]
      OBVIOUS
    <3>1. CASE k \in 1 .. Len(g)
      BY ZenonT(40), <1>1, <1>2, <2>1, <2>2, <3>1
    <3>2. CASE k = Len(g) + 1
      BY <1>1, <1>2, <2>1, <2>2, <3>2
    <3> QED
      BY <2>3, <3>1, <3>2
  <2>5. \A j, k \in 1 .. Len(h) : j < k => h[j] < h[k]
    <3> SUFFICES ASSUME NEW j \in 1 .. Len(h), NEW k \in 1 .. Len(h), j < k
                 PROVE  h[j] < h[k]
      OBVIOUS
    <3>1. j \in 1 .. Len(g)
      BY <1>2, <2>1
    <3>2. CASE k \in 1 .. Len(g)
      BY <1>2, <2>1, <3>1, <3>2
    <3>3. CASE k = Len(g) + 1
      BY <1>2, <1>6, <2>1, <3>1, <3>3
    <3> QED
      BY <2>3, <3>2, <3>3
  <2>6. \A k \in 1 .. Len(h) : h[k] \in Staying(s, X)
    <3> SUFFICES ASSUME NEW k \in 1 .. Len(h)
                 PROVE  h[k] \in 1 .. m + 1 /\ s[h[k]] \notin X
      BY <1>1 DEF Staying
    <3>1. CASE k \in 1 .. Len(g)
      BY <1>1, <1>2, <1>6, <2>1, <3>1
    <3>2. CASE k = Len(g) + 1
      BY <1>1, <1>8, <2>1, <3>2
    <3> QED
      BY <2>3, <3>1, <3>2
  <2>7. ASSUME NEW n \in Staying(s, X)
        PROVE  \E k \in 1 .. Len(h) : h[k] = n
    <3>1. n \in 1 .. m + 1 /\ s[n] \notin X
      BY <1>1 DEF Staying
    <3>2. CASE n = m + 1
      BY <1>2, <2>1, <3>2
    <3>3. CASE n \in 1 .. m
      <4>1. r[n] \notin X
        BY <1>1, <3>1, <3>3
      <4>2. PICK k \in 1 .. Len(g) : g[k] = n
        BY <1>2, <3>3, <4>1
      <4> QED
        BY <1>2, <2>1, <4>2
    <3> QED
      BY <1>5, <3>1, <3>2, <3>3
  <2>8. Lists(h, Staying(s, X))
    BY <2>1, <2>5, <2>6, <2>7 DEF Lists
  <2>9. Len(h) = Len(Omit(s, X))
    BY <1>2, <2>1, <2>2
  <2>10. Picks(h, s, X)
    BY <2>4, <2>8, <2>9 DEF Picks
  <2>11. \E f : Picks(f, s, X)
    BY <2>10, Zenon
  <2> QED
    BY <2>11, Zenon DEF s
<1> QED
  BY <1>7, <1>8

LEMMA OmitPicks ==
  ASSUME NEW S, NEW s \in Seq(S), NEW X
  PROVE  \E g : Picks(g, s, X)
<1> DEFINE Has(r) == \E g : Picks(g, r, X)
           T == {n \in Nat : \E r \in Seq(S) : Len(r) = n /\ ~Has(r)}
<1> SUFFICES ASSUME T # {} PROVE FALSE
  BY LenProperties
<1>1. T \subseteq Nat
  OBVIOUS
<1>2. PICK n \in T : \A j \in T : n <= j
  BY <1>1, LeastNat
<1>3. PICK r \in Seq(S) : Len(r) = n /\ ~Has(r)
  BY <1>2
<1>4. r # <<>>
  <2> SUFFICES ASSUME r = <<>> PROVE Has(<<>>)
    BY <1>3
  <2>1. /\ <<>> \in Seq(Nat) /\ Len(<<>>) = 0 /\ Omit(<<>>, X) = <<>>
        /\ \A k \in 1 .. 0 : FALSE
    BY EmptySeq, OmitEmpty
  <2>2. Staying(<<>>, X) = {}
    BY <2>1 DEF Staying
  <2>3. Picks(<<>>, <<>>, X)
    BY <2>1, <2>2 DEF Picks, Lists
  <2> QED
    BY <2>3
<1>5. \E q \in Seq(S), u \in S : r = Append(q, u) /\ Len(q) = Len(r) - 1
  BY <1>4, Unsnoc, Zenon
<1>6. PICK q \in Seq(S), u \in S : r = Append(q, u) /\ Len(q) = n - 1
  BY <1>3, <1>5, Zenon
<1>7. Len(q) \in Nat /\ Len(q) \notin T
  BY <1>2, <1>6, LenProperties
<1>8. PICK g : Picks(g, q, X)
  BY <1>7
<1> HIDE DEF T
<1>9. Has(Append(q, u))
  BY <1>8, PicksAppend
<1> QED
  BY <1>3, <1>6, <1>9

\* There is one way to list a set of numbers in order.
LEMMA ListsBegin ==
  ASSUME NEW T, NEW g, NEW h, Lists(g, T), Lists(h, T)
  PROVE  \A k \in 1 .. Len(g) : k \in 1 .. Len(h) /\ g[k] = h[k]
<1>1. /\ Len(g) \in Nat /\ Len(h) \in Nat
      /\ \A k \in 1 .. Len(g) : g[k] \in Nat
      /\ \A k \in 1 .. Len(h) : h[k] \in Nat
  BY LenProperties, ElementOfSeq DEF Lists
<1> DEFINE D == {k \in 1 .. Len(g) : ~(k \in 1 .. Len(h) /\ g[k] = h[k])}
<1> SUFFICES ASSUME D # {} PROVE FALSE
  OBVIOUS
<1>2. D \subseteq Nat
  OBVIOUS
<1>3. PICK k \in D : \A j \in D : k <= j
  BY <1>2, LeastNat
<1>4. /\ k \in 1 .. Len(g) /\ ~(k \in 1 .. Len(h) /\ g[k] = h[k])
      /\ \A j \in 1 .. Len(g) : j < k => j \in 1 .. Len(h) /\ g[j] = h[j]
  BY <1>3
<1> HIDE DEF D
<1>5. PICK m \in 1 .. Len(h) : h[m] = g[k]
  BY <1>4 DEF Lists
<1>6. ~(m < k)
  <2> SUFFICES ASSUME m < k PROVE FALSE
    OBVIOUS
  <2>1. m \in 1 .. Len(g) /\ g[m] = h[m] /\ g[m] < g[k]
    BY <1>1, <1>4 DEF Lists
  <2> QED
    BY <1>1, <1>4, <1>5, <2>1
<1>7. k \in 1 .. Len(h) /\ (k = m \/ h[k] < h[m])
  BY SMTT(60), <1>1, <1>4, <1>6 DEF Lists
<1>8. PICK n \in 1 .. Len(g) : g[n] = h[k]
  BY <1>7 DEF Lists
<1>9. ~(n < k)
  <2> SUFFICES ASSUME n < k PROVE FALSE
    OBVIOUS
  <2>1. n \in 1 .. Len(h) /\ g[n] = h[n] /\ h[n] < h[k]
    BY <1>1, <1>4, <1>7, <1>8 DEF Lists
  <2> QED
    BY <1>1, <1>7, <1>8, <2>1
<1>10. n = k \/ g[k] < g[n]
  BY <1>1, <1>4, <1>8, <1>9 DEF Lists
<1>11. g[k] \in Nat /\ h[k] \in Nat
  BY <1>1, <1>4, <1>7
<1> QED
  BY <1>4, <1>5, <1>7, <1>8, <1>10, <1>11

LEMMA ListsAgree ==
  ASSUME NEW T, NEW g, NEW h, Lists(g, T), Lists(h, T)
  PROVE  Len(g) = Len(h) /\ \A k \in 1 .. Len(g) : g[k] = h[k]
<1>1. Len(g) \in Nat /\ Len(h) \in Nat
  BY LenProperties DEF Lists
<1>2. \A k \in 1 .. Len(g) : k \in 1 .. Len(h) /\ g[k] = h[k]
  BY ListsBegin
<1>3. \A k \in 1 .. Len(h) : k \in 1 .. Len(g)
  BY ListsBegin
<1> QED
  BY <1>1, <1>2, <1>3
=============================================================================
