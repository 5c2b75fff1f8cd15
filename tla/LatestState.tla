------------------------------ MODULE LatestState ------------------------------
(***************************************************************************)
(* What keeping a copy of somebody else's latest state promises, with no   *)
(* mention of threads, mutexes, records or notifications.                  *)
(*                                                                         *)
(* For every key (a state of a device) updates become known one after      *)
(* another, in any order and any number of times.  The copy shows nothing, *)
(* or one of the known updates, and only ever moves on to a known update   *)
(* that is newer than the one it shows.                                    *)
(***************************************************************************)
EXTENDS Naturals

CONSTANTS
    Key,     \* What a copy is kept of.
    Update   \* Updates: records with (at least) an epoch and a revision in Nat.

VARIABLES
    known,  \* Per key, the updates that have become known.
    shown   \* Per key, the update shown: a set of at most one.

(* Publication order: a later epoch, or a later revision of the same epoch. *)
Newer(u, w) == u.epoch > w.epoch \/ (u.epoch = w.epoch /\ u.revision > w.revision)

Init ==
    /\ known = [k \in Key |-> {}]
    /\ shown = [k \in Key |-> {}]

Learn(k) ==
    \E u \in Update :
        /\ known' = [known EXCEPT ![k] = @ \cup {u}]
        /\ \/ UNCHANGED shown
           \/ /\ \A w \in shown[k] : Newer(u, w)
              /\ shown' = [shown EXCEPT ![k] = {u}]

MoveOn(k) ==
    /\ \E u \in known[k] :
          /\ \A w \in shown[k] : Newer(u, w)
          /\ shown' = [shown EXCEPT ![k] = {u}]
    /\ UNCHANGED known

Next == \E k \in Key : Learn(k) \/ MoveOn(k)

Spec == Init /\ [][Next]_<<known, shown>>
================================================================================
