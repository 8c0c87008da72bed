----------------------------- MODULE MCDecoder -----------------------------
(***************************************************************************)
(* Decoder on small instances: packets are all sequences of at most        *)
(* PacketLen units, 1 for a video codec, more for an audio codec.          *)
(***************************************************************************)
EXTENDS Decoder

CONSTANT PacketLen

MCPacket == UNION {[1 .. n -> Unit] : n \in 1 .. PacketLen}
=============================================================================
