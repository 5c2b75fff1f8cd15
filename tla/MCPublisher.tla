------------------------------- MODULE MCPublisher -------------------------------
(* Instances of the StatePublisher for TLC.                                 *)
EXTENDS StatePublisher, TLC

CONSTANTS t1, t2

OneThread == {t1}
Threads == {t1, t2}
Symmetry == Permutations(Threads)
==================================================================================
