------------------------------ MODULE MCReplication ------------------------------
(* Instances of StateReplication for TLC.                                   *)
EXTENDS StateReplication

CONSTANT t1

OneThread == {t1}
===================================================================================
