------------------------------ MODULE MCSubscribers ------------------------------
(* Instances of the StateSubscriberRegistry for TLC.                         *)
EXTENDS SubscriberRegistry, TLC

CONSTANTS zero, d1, d2, d3, x1, x2, t1, t2

Devices == {zero, d1, d2, d3}
Definitions == {x1, x2}
Threads == {t1, t2}
Symmetry == Permutations({d1, d2, d3}) \cup Permutations(Definitions)
                \cup Permutations(Threads)
==================================================================================
