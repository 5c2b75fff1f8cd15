------------------------------- MODULE MCProtocol -------------------------------
(* An instance of StateProtocol for TLC: bytes of ten values, identifiers   *)
(* that differ in one byte and in two, definitions of equal sizes, one      *)
(* whose payload has the largest size that two bytes count, and one that is *)
(* larger.                                                                  *)
EXTENDS StateProtocol, TLC

Counting(first, n) == [k \in 0 .. n - 1 |-> (first + k) % ByteModulus]
Small(x, y) == [k \in 0 .. 7 |-> CASE k = 0 -> x [] k = 1 -> y [] OTHER -> 0]

Devices == {Counting(3, 16)}
Epochs == {Counting(5, 4)}
Revisions == {Zero(8), Counting(1, 8)}
Front == Small(1, 1)
Rear == Small(2, 1)
Far == Small(3, 2)
Largest == Small(6, 4)
TooLarge == Small(7, 5)
TypeIds == {Zero(8), Front, Rear, Far, Largest, TooLarge}
Sizes == [t \in TypeIds |-> CASE t = Largest -> 99 [] t = TooLarge -> 100 [] OTHER -> 2]
Values == [t \in TypeIds |-> {Counting(n, Sizes[t]) : n \in {0, 7}}]
================================================================================
