----------------------------- MODULE MCMachine -----------------------------
(* Instances of Machine for TLC.                                           *)
EXTENDS Machine

CONSTANTS DeepDepth, OtherDepth

(* The serial core nests deeper than the others.                           *)
MCMaxDepth == [c \in Cores |-> IF c = SerialCore THEN DeepDepth ELSE OtherDepth]

=============================================================================
