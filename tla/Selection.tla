----------------------------- MODULE Selection -----------------------------
(***************************************************************************)
(* Leaving elements out of a sequence: the frames a decoder does not show, *)
(* those an encoder makes no packet of, the packets of other streams.      *)
(* This is SelectSeq with a test of membership, as a recursive function,   *)
(* which can be reasoned about (SelectionProofs).                          *)
(***************************************************************************)
EXTENDS Naturals, Sequences

\* s without the elements that are in X.
Omit(s, X) ==
  LET kept[n \in 0 .. Len(s)] ==
        IF n = 0 THEN <<>>
        ELSE IF s[n] \in X THEN kept[n - 1] ELSE Append(kept[n - 1], s[n])
  IN  kept[Len(s)]
=============================================================================
