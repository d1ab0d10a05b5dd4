---------------------------- MODULE MCSymposium ----------------------------
(* Instances of Symposium for TLC.                                         *)
EXTENDS Symposium
=============================================================================
