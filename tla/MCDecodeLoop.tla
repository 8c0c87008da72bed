---------------------------- MODULE MCDecodeLoop ----------------------------
(***************************************************************************)
(* DecodeLoop on all inputs of up to VideoLen packets of one unit each and *)
(* up to AudioLen packets of up to two, each of the chosen stream or of    *)
(* another one.                                                            *)
(***************************************************************************)
EXTENDS DecodeLoop

CONSTANTS VideoLen, AudioLen

Units(n) == [1 .. n -> Unit]
MCPacket == Units(1) \cup Units(2)

Own(ps) == {[own |-> TRUE, data |-> p] : p \in ps}
Other == [own |-> FALSE, data |-> <<>>]
Upto(n, rs) == UNION {[1 .. k -> rs \cup {Other}] : k \in 0 .. n}
MCInputs == Upto(VideoLen, Own(Units(1))) \cup Upto(AudioLen, Own(MCPacket))

MCPrograms == {decodeVideo, decodeVideoChange, decodeImage, captureVideo,
               decodeAudio, captureAudio}
=============================================================================
