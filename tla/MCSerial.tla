------------------------------ MODULE MCSerial ------------------------------
(* An instance of Serial for TLC: two readers, who are woken together, and *)
(* a writer at one terminal.                                               *)
EXTENDS Serial

CONSTANTS r1, r2, w1

MCReaders == {r1, r2}
MCWriters == {w1}
MCTerm    == [r \in {r1, r2, w1} |-> 1]

=============================================================================
