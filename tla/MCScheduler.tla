---------------------------- MODULE MCScheduler ----------------------------
(***************************************************************************)
(* Model values and symmetry for the runs of Scheduler.                    *)
(***************************************************************************)
EXTENDS Scheduler, TLC

(* Cores and threads are interchangeable, those of the devices among each  *)
(* other: Init names none and the lists compare them only for equality.    *)
Symmetry ==
    Permutations(Threads) \cup Permutations(DeviceCores)
      \cup Permutations(Cores \ DeviceCores)
=============================================================================
