------------------------------ MODULE MCMuxer ------------------------------
(***************************************************************************)
(* Muxer on small instances: the even streams count time in ticks of 2,    *)
(* the odd ones in ticks of 3.                                             *)
(***************************************************************************)
EXTENDS Muxer

MCTimeBase == [s \in Stream |-> IF s % 2 = 0 THEN 2 ELSE 3]

ShortDts == 0 .. 2
=============================================================================
