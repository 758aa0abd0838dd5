------------------------------ MODULE MCBatch ------------------------------
(* Small instances of BatchManager for TLC.                                *)
EXTENDS BatchManager, TLC

CONSTANTS t1, t2, i1, i2, i3

\* Tables and timers are interchangeable: sound for the safety runs.
Symmetry == Permutations(Tables) \cup Permutations(Timers)
=============================================================================
