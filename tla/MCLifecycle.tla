---------------------------- MODULE MCLifecycle ----------------------------
(* Lifecycle for all the programs it has a table of.                        *)
EXTENDS Lifecycle

AllPrograms == Mains
=============================================================================
