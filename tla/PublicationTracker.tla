--------------------------- MODULE PublicationTracker ---------------------------
(***************************************************************************)
(* StatePublicationTracker and the PendingStateUpdate it owns: the latest  *)
(* update of one state that one subscriber has not acknowledged.           *)
(*                                                                         *)
(* Its owner, a transport, calls it from one thread at a time: it hands    *)
(* over what the publisher announces, sends the retained update again and  *)
(* again, and passes on acknowledgements, which a network delays, loses,   *)
(* repeats and reorders.  A value is identified with its version, and the  *)
(* destination, which only labels the notifications, is left out.          *)
(*                                                                         *)
(* Definitions that no action uses are faulty variants of the definition   *)
(* below them; README.md says which property each of them would break.     *)
(***************************************************************************)
EXTENDS Naturals

CONSTANTS
    Epoch,     \* Epochs of the publisher.
    Revision   \* Revisions it publishes; 0 is never valid.

ASSUME TrackerAssumption == Epoch \subseteq Nat /\ Revision \subseteq Nat

VARIABLES
    pendingUpdate,  \* _pending, without the value.
    observed,       \* _observable exists: somebody registered an observer.
    mirror,         \* What the notifications say is pending, at most one.
    handed,         \* History: the versions Replace() was called with.
    acked           \* History: the versions Acknowledge() was called with.

vars == <<pendingUpdate, observed, mirror, handed, acked>>

Version == [epoch : Nat, revision : Nat]

At(e, r) == [epoch |-> e, revision |-> r]

(* Before the first notification: a version that nothing can have.         *)
Unknown == {At(0, 0)}

PendingStateUpdate ==
    [pending : BOOLEAN, epoch : Nat, revision : Nat, lastAcknowledged : Nat]

(* What a tracker begins with.                                             *)
NeverReplaced ==
    [pending |-> FALSE, epoch |-> 0, revision |-> 0, lastAcknowledged |-> 0]

Retained == At(pendingUpdate.epoch, pendingUpdate.revision)

Older(x, y) == x.epoch < y.epoch \/ (x.epoch = y.epoch /\ x.revision < y.revision)

(***************************************************************************)
(* Replace() and what it tells the observers: Pending, or Superseded.      *)
(***************************************************************************)
ComparesWithWhatWasSettled(e, r) ==
    r # 0 /\ Older(Retained, At(e, r))

Replaces(e, r) ==
    /\ r # 0
    /\ ~(pendingUpdate.pending /\ e < pendingUpdate.epoch)
    /\ ~(pendingUpdate.pending /\ e = pendingUpdate.epoch /\ r <= pendingUpdate.revision)

KeepsTheRevision(e, r) ==
    [pendingUpdate EXCEPT !.pending = TRUE, !.epoch = e]

KeepsThePendingFlag(e, r) ==
    [pendingUpdate EXCEPT !.epoch = e, !.revision = r]

Replaced(e, r) ==
    [pendingUpdate EXCEPT !.pending = TRUE, !.epoch = e, !.revision = r]

Replace(e, r) ==
    /\ \/ /\ Replaces(e, r)
          /\ pendingUpdate' = Replaced(e, r)
          /\ mirror' = IF observed THEN {At(e, r)} ELSE mirror
       \/ ~Replaces(e, r) /\ UNCHANGED <<pendingUpdate, mirror>>
    /\ handed' = handed \cup {At(e, r)}
    /\ UNCHANGED <<observed, acked>>

(***************************************************************************)
(* Acknowledge().  Settles is the tracker's `current`, Accepts the result  *)
(* of PendingStateUpdate::Acknowledge().                                   *)
(***************************************************************************)
AnyRevisionOfTheEpoch(e, r) == pendingUpdate.pending /\ e = pendingUpdate.epoch

Settles(e, r) ==
    /\ pendingUpdate.pending
    /\ e = pendingUpdate.epoch
    /\ r >= pendingUpdate.revision

AcknowledgedInSequence(e, r) ==
    e = pendingUpdate.epoch /\ r = pendingUpdate.lastAcknowledged + 1

Accepts(e, r) ==
    /\ e = pendingUpdate.epoch
    /\ r # 0
    /\ ~(r < pendingUpdate.lastAcknowledged)

EveryAcceptedAck(e, r) == Accepts(e, r)

AnnouncesAcknowledged(e, r) == Accepts(e, r) /\ Settles(e, r)

Acknowledge(e, r) ==
    /\ \/ /\ Accepts(e, r)
          /\ pendingUpdate' =
                [pendingUpdate EXCEPT !.lastAcknowledged = r,
                                      !.pending = @ /\ ~Settles(e, r)]
       \/ ~Accepts(e, r) /\ UNCHANGED pendingUpdate
    /\ mirror' = IF observed /\ AnnouncesAcknowledged(e, r) THEN {} ELSE mirror
    /\ acked' = acked \cup {At(e, r)}
    /\ UNCHANGED <<observed, handed>>

RegisterObserver ==
    /\ ~observed
    /\ observed' = TRUE
    /\ UNCHANGED <<pendingUpdate, mirror, handed, acked>>

Init ==
    /\ pendingUpdate = NeverReplaced
    /\ observed = FALSE
    /\ mirror = Unknown
    /\ handed = {}
    /\ acked = {}

(* A subscriber acknowledges only what it was sent: something retained     *)
(* here once, and so handed over.                                          *)
AcknowledgeSent == \E x \in handed : Acknowledge(x.epoch, x.revision)

(* The publisher's notifications, made after its mutex was released, may   *)
(* come from several threads and so in any order.                          *)
Next ==
    \/ \E e \in Epoch, r \in Revision : Replace(e, r)
    \/ AcknowledgeSent
    \/ RegisterObserver

Spec == Init /\ [][Next]_vars

(* A publisher that is called from one thread announces versions in order. *)
ReplaceInOrder(e, r) ==
    (\A x \in handed : Older(x, At(e, r))) /\ Replace(e, r)

OrderedNext ==
    \/ \E e \in Epoch, r \in Revision \ {0} : ReplaceInOrder(e, r)
    \/ AcknowledgeSent
    \/ RegisterObserver

OrderedSpec == Init /\ [][OrderedNext]_vars

(***************************************************************************)
(* Types.  What is pending carries a valid revision.                       *)
(***************************************************************************)
TypeOK ==
    /\ pendingUpdate \in PendingStateUpdate
    /\ pendingUpdate.pending => pendingUpdate.revision # 0
    /\ observed \in BOOLEAN
    /\ mirror \subseteq Version
    /\ handed \subseteq Version
    /\ acked \subseteq Version

(***************************************************************************)
(* Properties.                                                             *)
(***************************************************************************)

(* An update stops being pending only because a subscriber acknowledged it *)
(* or a later revision of its epoch, in whatever order updates and         *)
(* acknowledgements come; what is retained was handed over.                *)
NothingDroppedUnacknowledged ==
    (\E x \in handed : x.revision # 0) =>
        /\ Retained \in handed
        /\ ~pendingUpdate.pending =>
              \E x \in acked : /\ x.epoch = pendingUpdate.epoch
                               /\ x.revision >= pendingUpdate.revision

(* An observer that follows the Pending, Superseded and Acknowledged       *)
(* notifications knows, from the first of them on, what is pending.        *)
MirrorAgrees ==
    mirror # Unknown =>
        mirror = IF pendingUpdate.pending THEN {Retained} ELSE {}

(* With updates in order, nothing pending means that the newest update of  *)
(* all was acknowledged, and whatever is retained is the newest.           *)
SettledMeansNewestAcknowledged ==
    \A x \in handed :
        /\ ~Older(Retained, x)
        /\ ~Older(x, Retained) /\ ~pendingUpdate.pending => x \in acked

(* PendingStateUpdate::Acknowledge() "clears pending state when            *)
(* satisfied": an acknowledgement of the very update that is pending is    *)
(* one the tracker would accept.                                           *)
AckOfPendingCounts ==
    pendingUpdate.pending => Accepts(pendingUpdate.epoch, pendingUpdate.revision)
================================================================================
