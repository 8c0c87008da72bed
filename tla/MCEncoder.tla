----------------------------- MODULE MCEncoder -----------------------------
(***************************************************************************)
(* Encoder on small instances; the runs need model values only.            *)
(***************************************************************************)
EXTENDS Encoder
=============================================================================
