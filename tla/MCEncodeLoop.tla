---------------------------- MODULE MCEncodeLoop ----------------------------
(***************************************************************************)
(* EncodeLoop on every input of up to InputLen frames, for both programs.  *)
(***************************************************************************)
EXTENDS EncodeLoop

BothPrograms == {encodeAudioDemo, encodeVideoDemo}
=============================================================================
