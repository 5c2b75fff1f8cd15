----------------------------- MODULE MCSubscriptions -----------------------------
(* Instances of the StateSubscriptionRegistry for TLC.                       *)
EXTENDS SubscriptionRegistry

CONSTANTS zero, d1, x1, x2, t1, t2

Devices == {zero, d1}
Definitions == {x1, x2}
Threads == {t1, t2}
==================================================================================
