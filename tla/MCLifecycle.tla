------------------------------- MODULE MCLifecycle -------------------------------
(* Instances of the ObserverLifecycle for TLC.                              *)
EXTENDS ObserverLifecycle

CONSTANTS zero, d1, s1, v0, v1, t1, t2

OneDevice == {zero, d1}
OneDefinition == {s1}
Values == {v0, v1}
Threads == {t1, t2}
OneReporter == {t1}
==================================================================================
