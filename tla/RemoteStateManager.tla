--------------------------- MODULE RemoteStateManager ---------------------------
(***************************************************************************)
(* RemoteStateManager<TContract, TMaximumDevices>: the bounded repository  *)
(* of the newest State of remote devices.                                  *)
(*                                                                         *)
(* Every public operation runs in the thread of its caller (a transport    *)
(* receive context, an application task) in two parts: a section under the *)
(* manager's mutex, which is one step here, and, after the mutex has been  *)
(* released, the synchronous notification of the observers, one step per   *)
(* notification.  Between these steps other threads run.                   *)
(*                                                                         *)
(* A failed EnsureRuntimeStorage() makes every operation return before it  *)
(* touches anything: a stuttering step of this model.                      *)
(*                                                                         *)
(* Definitions that no action uses (RevisionOnly, NoCapacityCheck, ...)    *)
(* are faulty variants of the definition below them; README.md says which  *)
(* property each of them would break.                                      *)
(***************************************************************************)
EXTENDS Naturals, FiniteSets, Sequences

CONSTANTS
    Device,         \* Device identifiers, the all-zero one included.
    ZeroDevice,     \* The all-zero identifier, which names no device.
    Definition,     \* The state definitions of the contract.
    Value,          \* Values a state may have.
    DefaultValue,   \* TValue{}, what a slot holds before its first update.
    Epoch,          \* Epochs that arrive with updates.
    Revision,       \* Revisions that arrive with updates; 0 is never valid.
    Reported,       \* Availabilities that callers report.
    MaximumDevices, \* TMaximumDevices.
    Thread          \* Threads that call the manager.

Availability == {"Unknown", "Connected", "Stale", "Disconnected", "ConnectionLost"}

ASSUME ManagerAssumption ==
    /\ ZeroDevice \in Device
    /\ DefaultValue \in Value
    /\ Epoch \subseteq Nat
    /\ Revision \subseteq Nat
    /\ Reported \subseteq Availability
    /\ MaximumDevices \in Nat
    /\ IsFiniteSet(Definition)

VARIABLES
    devices,        \* Identifiers that have a DeviceRecord in _devices.
    availability,   \* DeviceRecord::Availability.
    slot,           \* DeviceRecord::States, one slot per definition.
    notes           \* Per thread, what its current call has yet to announce.

managerVars == <<devices, availability, slot, notes>>

Slot == [hasValue : BOOLEAN, epoch : Nat, revision : Nat, value : Value]

EmptySlot ==
    [hasValue |-> FALSE, epoch |-> 0, revision |-> 0, value |-> DefaultValue]

(***************************************************************************)
(* Notifications that a call has still to make.                            *)
(***************************************************************************)
RegisteredNote(d) == [kind |-> "registered", device |-> d]

AcceptedNote(d, s, e, r, c) ==
    [kind |-> "accepted", device |-> d, def |-> s, epoch |-> e, revision |-> r,
     changed |-> c]

RejectedNote(d, s, e, r) ==
    [kind |-> "rejected", device |-> d, def |-> s, epoch |-> e, revision |-> r]

AvailabilityNote(d, p, c) ==
    [kind |-> "availability", device |-> d, previous |-> p, current |-> c]

RegisteredNotes == {RegisteredNote(d) : d \in Device}

AcceptedNotes ==
    [kind : {"accepted"}, device : Device, def : Definition, epoch : Nat,
     revision : Nat, changed : BOOLEAN]

RejectedNotes ==
    [kind : {"rejected"}, device : Device, def : Definition, epoch : Nat,
     revision : Nat]

AvailabilityNotes ==
    [kind : {"availability"}, device : Device, previous : Availability,
     current : Availability]

Note == RegisteredNotes \cup AcceptedNotes \cup RejectedNotes \cup AvailabilityNotes

(***************************************************************************)
(* FindOrCreateLocked: whether d has a record once the call returns, and   *)
(* whether the call created it.  Records are never removed.                *)
(***************************************************************************)
ZeroIsADevice(d) == d \in devices \/ Cardinality(devices) < MaximumDevices

NoCapacityCheck(d) == d # ZeroDevice

HasRecord(d) ==
    /\ d # ZeroDevice
    /\ d \in devices \/ Cardinality(devices) < MaximumDevices

CreatedFlagAlwaysSet(d) == HasRecord(d)

Creates(d) == HasRecord(d) /\ d \notin devices

RegistrationNotes(d) == IF Creates(d) THEN <<RegisteredNote(d)>> ELSE <<>>

(* What Apply() turns away: epoch first, then revision.                    *)
RevisionOnly(e, r, x) == r <= x.revision

EpochOnly(e, r, x) == e < x.epoch

SameRevisionIsNewer(e, r, x) == e < x.epoch \/ (e = x.epoch /\ r < x.revision)

NotNewer(e, r, x) == e < x.epoch \/ (e = x.epoch /\ r <= x.revision)

Accepts(d, s, e, r) ==
    /\ HasRecord(d)
    /\ r # 0
    /\ ~(slot[d][s].hasValue /\ NotNewer(e, r, slot[d][s]))

(* The slot's own operator==, not the definition's StateComparison.        *)
ValueChanges(d, s, v) == ~slot[d][s].hasValue \/ slot[d][s].value # v

OnlyChangesAreAnnounced(d, s, e, r, v) ==
    IF ValueChanges(d, s, v) THEN <<AcceptedNote(d, s, e, r, TRUE)>> ELSE <<>>

AcceptanceNotes(d, s, e, r, v) == <<AcceptedNote(d, s, e, r, ValueChanges(d, s, v))>>

(* The order of versions as the properties mean it, whatever Apply() does. *)
Precedes(x, y) == x.epoch < y.epoch \/ (x.epoch = y.epoch /\ x.revision < y.revision)

(***************************************************************************)
(* The operations.                                                         *)
(***************************************************************************)
Idle(t) == notes[t] = <<>>

Apply(t, d, s, e, r, v) ==
    /\ Idle(t)
    /\ devices' = IF Creates(d) THEN devices \cup {d} ELSE devices
    /\ \/ /\ Accepts(d, s, e, r)
          /\ slot' = [slot EXCEPT ![d][s] =
                 [hasValue |-> TRUE, epoch |-> e, revision |-> r, value |-> v]]
          /\ notes' = [notes EXCEPT ![t] = RegistrationNotes(d) \o
                 AcceptanceNotes(d, s, e, r, v)]
       \/ /\ ~Accepts(d, s, e, r)
          /\ notes' = [notes EXCEPT ![t] = RegistrationNotes(d) \o
                 <<RejectedNote(d, s, e, r)>>]
          /\ UNCHANGED slot
    /\ UNCHANGED availability

SetAvailability(t, d, a) ==
    /\ Idle(t)
    /\ HasRecord(d)
    /\ devices' = devices \cup {d}
    /\ availability' = [availability EXCEPT ![d] = a]
    /\ notes' = [notes EXCEPT ![t] = RegistrationNotes(d) \o
           (IF a # availability[d]
            THEN <<AvailabilityNote(d, availability[d], a)>> ELSE <<>>)]
    /\ UNCHANGED slot

(* Thread t makes the next notification of its call.                       *)
Announce(t) ==
    /\ notes[t] # <<>>
    /\ notes' = [notes EXCEPT ![t] = Tail(@)]
    /\ UNCHANGED <<devices, availability, slot>>

(* What Read() copies out under the mutex; no record, no snapshot.         *)
Read(d, s) ==
    {[state |-> slot[d][s], availability |-> availability[x]] : x \in devices \cap {d}}

ManagerInit ==
    /\ devices = {}
    /\ availability = [d \in Device |-> "Unknown"]
    /\ slot = [d \in Device |-> [s \in Definition |-> EmptySlot]]
    /\ notes = [t \in Thread |-> <<>>]

(* Types.  There are never more records than EnsureRuntimeStorage() has    *)
(* reserved room for, so that a record never moves.                        *)
ManagerTypeOK ==
    /\ devices \subseteq Device \ {ZeroDevice}
    /\ IsFiniteSet(devices) /\ Cardinality(devices) <= MaximumDevices
    /\ availability \in [Device -> Availability]
    /\ slot \in [Device -> [Definition -> Slot]]
    /\ notes \in [Thread -> Seq(Note)]

=================================================================================
