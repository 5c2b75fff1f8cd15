-------------------------------- MODULE MCManager --------------------------------
(* Instances of the RemoteStateManager for TLC.                             *)
EXTENDS ManagerHistory, TLC

CONSTANTS zero, d1, d2, s1, s2, v0, v1, t1, t2

OneDevice == {zero, d1}
Devices == {zero, d1, d2}
OneDefinition == {s1}
Definitions == {s1, s2}
OneValue == {v0}
Values == {v0, v1}
Threads == {t1, t2}
OneReport == {"Connected"}

Symmetry == Permutations(Threads) \cup Permutations({d1, d2})
==================================================================================
