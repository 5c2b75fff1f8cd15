----------------------------- MODULE ManagerHistory -----------------------------
(***************************************************************************)
(* The RemoteStateManager under any number of calling threads, with the    *)
(* history its correctness is stated over: which updates reached the       *)
(* comparison of epochs and revisions, and what the observers have been    *)
(* told.                                                                   *)
(***************************************************************************)
EXTENDS RemoteStateManager

CONSTANT OfferLimit  \* Bound: distinct updates offered for one state.

VARIABLES
    offered,  \* Per device and definition, the comparable updates Apply got.
    heard     \* Registrations and acceptances the observers were told of.

historyVars == <<offered, heard>>
vars == <<devices, availability, slot, notes, offered, heard>>

Update == [epoch : Epoch, revision : Revision, value : Value]

UpdateOf(e, r, v) == [epoch |-> e, revision |-> r, value |-> v]

(***************************************************************************)
(* An update counts as offered when a copy of it could be kept: it carries *)
(* a revision, and its device has a record or gets one.                    *)
(***************************************************************************)
Comparable(d, r) == r # 0 /\ HasRecord(d)

HApply(t, d, s, e, r, v) ==
    /\ Apply(t, d, s, e, r, v)
    /\ \/ /\ Comparable(d, r)
          /\ \/ UpdateOf(e, r, v) \in offered[d][s]
             \/ Cardinality(offered[d][s]) < OfferLimit
          /\ offered' = [offered EXCEPT ![d][s] = @ \cup {UpdateOf(e, r, v)}]
       \/ ~Comparable(d, r) /\ UNCHANGED offered
    /\ UNCHANGED heard

HSetAvailability(t, d, a) == SetAvailability(t, d, a) /\ UNCHANGED historyVars

HAnnounce(t) ==
    /\ Announce(t)
    /\ heard' = heard \cup ({Head(notes[t])} \cap (RegisteredNotes \cup AcceptedNotes))
    /\ UNCHANGED offered

HInit ==
    /\ ManagerInit
    /\ offered = [d \in Device |-> [s \in Definition |-> {}]]
    /\ heard = {}

HNext ==
    \E t \in Thread :
        \/ \E d \in Device, s \in Definition, e \in Epoch, r \in Revision, v \in Value :
               HApply(t, d, s, e, r, v)
        \/ \E d \in Device, a \in Reported : HSetAvailability(t, d, a)
        \/ HAnnounce(t)

HSpec == HInit /\ [][HNext]_vars

(***************************************************************************)
(* Types of the manager's state and of the history.                        *)
(***************************************************************************)
TypeOK ==
    /\ ManagerTypeOK
    /\ offered \in [Device -> [Definition -> SUBSET Update]]
    /\ heard \subseteq Note

(***************************************************************************)
(* Properties.                                                             *)
(***************************************************************************)

(* A slot holds an update that was offered for it, and none that was       *)
(* offered is newer: whatever the order, repetition or interleaving of the *)
(* Apply() calls, nothing stale survives and nothing newer is dropped.     *)
StoredIsNewest ==
    \A d \in Device, s \in Definition :
        LET mine == slot[d][s] IN
        /\ mine.hasValue <=> offered[d][s] # {}
        /\ mine.hasValue =>
              /\ UpdateOf(mine.epoch, mine.revision, mine.value) \in offered[d][s]
              /\ \A u \in offered[d][s] : ~Precedes(mine, u)

(* The version a slot holds was announced as accepted, or is about to be   *)
(* by a thread still inside Apply(): an observer that looks up the state   *)
(* on every acceptance misses no version that is there to stay.            *)
StoredIsAnnounced ==
    \A d \in Device, s \in Definition :
        LET Tells(n) == /\ n.kind = "accepted"
                        /\ n.device = d
                        /\ n.def = s
                        /\ n.epoch = slot[d][s].epoch
                        /\ n.revision = slot[d][s].revision
        IN slot[d][s].hasValue =>
              \/ \E n \in heard : Tells(n)
              \/ \E t \in Thread : \E i \in DOMAIN notes[t] : Tells(notes[t][i])

(* A device that has a record was registered with the observers once, or   *)
(* exactly one thread has still to do so; no other device ever is.         *)
RegisteredOnce ==
    \A d \in Device :
        LET pending == {t \in Thread : \E i \in DOMAIN notes[t] :
                                           notes[t][i] = RegisteredNote(d)}
            told == RegisteredNote(d) \in heard
        IN /\ d \notin devices => ~told /\ pending = {}
           /\ d \in devices => IF told THEN pending = {} ELSE Cardinality(pending) = 1

(***************************************************************************)
(* The manager keeps latest states: the copy of a state is its slot.       *)
(***************************************************************************)
known == [k \in Device \X Definition |-> offered[k[1]][k[2]]]

shown ==
    [k \in Device \X Definition |->
        LET mine == slot[k[1]][k[2]]
        IN IF mine.hasValue
           THEN {UpdateOf(mine.epoch, mine.revision, mine.value)} ELSE {}]

Latest == INSTANCE LatestState WITH Key <- Device \X Definition

(* What Read() returns for a state only moves on, to a version that was    *)
(* offered and is newer than the one it returned before.                   *)
KeepsLatest == Latest!Spec
================================================================================
