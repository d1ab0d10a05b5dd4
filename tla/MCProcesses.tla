---------------------------- MODULE MCProcesses ----------------------------
(* Instances of Processes for TLC.  Threads and FCBs are interchangeable;  *)
(* pids are not, since the code treats pid 1 specially.                    *)
EXTENDS Processes

Symmetry == Permutations(Threads) \cup Permutations(FCBs)

=============================================================================
