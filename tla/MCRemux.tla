------------------------------ MODULE MCRemux ------------------------------
(***************************************************************************)
(* Remux on all inputs of up to InputLen packets of the streams in From,   *)
(* with dts up to MaxDts that grow within a stream, as a demuxer returns   *)
(* them.  Input ticks are shorter than output ticks for stream 0, so that  *)
(* rescaling rounds, and longer for the others.                            *)
(***************************************************************************)
EXTENDS Remux

CONSTANTS InputLen, MaxDts, From

MCTimeBase == [s \in Stream |-> IF s = 0 THEN 3 ELSE 2]
MCInBase == [i \in InStream |-> IF i = 0 THEN 2 ELSE 3]

Growing(p) == \A j, k \in 1 .. Len(p) :
                j < k /\ p[j].stream = p[k].stream => p[j].dts < p[k].dts

MCInputs ==
  UNION {{p \in [1 .. n -> [stream : From, dts : 0 .. MaxDts]] : Growing(p)} :
         n \in 0 .. InputLen}
=============================================================================
