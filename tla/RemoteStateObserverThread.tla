------------------------ MODULE RemoteStateObserverThread ------------------------
(***************************************************************************)
(* RemoteStateObserverThread: the worker that tells application observers  *)
(* of remote changes.  It observes the RemoteStateManager; the manager's   *)
(* notifications, which run in the threads that call the manager, only     *)
(* mark what has changed, and the worker delivers it later.                *)
(*                                                                         *)
(* Modelled from Prepare() on: storage is reserved and the manager knows   *)
(* its observer.  WakeForWork() and the 1000 ms period both make the       *)
(* worker call Drain(); a wake-up adds nothing but haste, and the worker   *)
(* of this model may drain whenever its last drain is over.  The bounded   *)
(* vectors of marks are sets: they are searched before every insertion,    *)
(* and nothing depends on the order in which they are walked.              *)
(*                                                                         *)
(* Definitions that no action uses are faulty variants of the definition   *)
(* below them; README.md says which property each of them would break.     *)
(***************************************************************************)
EXTENDS RemoteStateManager

VARIABLES
    marks,                   \* Per thread, states its callback has still to mark.
    dirtyStates,             \* _dirtyStates: <<device, definition>> pairs.
    processingStates,        \* _processingStates, what the worker has not finished.
    dirtyAvailability,       \* _dirtyAvailability.
    processingAvailability,  \* _processingAvailability, what it has not delivered.
    reading,                 \* The snapshot NotifyState() holds: at most one.
    deliveredDevices,        \* Devices that have a DeliveredDevice record.
    delivered,               \* DeliveredDevice::States.
    told                     \* History: availability the observers were last told.

markVars == <<marks, dirtyStates, dirtyAvailability>>
workVars == <<processingStates, processingAvailability, reading,
              deliveredDevices, delivered, told>>
vars == <<devices, availability, slot, notes, marks, dirtyStates,
          processingStates, dirtyAvailability, processingAvailability, reading,
          deliveredDevices, delivered, told>>

DirtyAvailability ==
    [device : Device, previous : Availability, current : Availability]

OneMarkPerDevice == MaximumDevices

MaximumDirtyStates == MaximumDevices * Cardinality(Definition)

(***************************************************************************)
(* The sets of marks after a mark was made.  A mark that finds the set     *)
(* full is dropped without a word.                                         *)
(***************************************************************************)
SkipWhatIsBeingProcessed(d, s) ==
    IF <<d, s>> \in processingStates THEN dirtyStates
    ELSE dirtyStates \cup {<<d, s>>}

MarkStateDirty(d, s) ==
    IF Cardinality(dirtyStates) < MaximumDirtyStates
    THEN dirtyStates \cup {<<d, s>>} ELSE dirtyStates

KeepFirstTransition(d, p, c) ==
    IF \E r \in dirtyAvailability : r.device = d THEN dirtyAvailability
    ELSE dirtyAvailability \cup {[device |-> d, previous |-> p, current |-> c]}

KeepLastTransition(d, p, c) ==
    {r \in dirtyAvailability : r.device # d}
        \cup {[device |-> d, previous |-> p, current |-> c]}

KeepsOnePlaceFree(d, p, c) ==
    IF Cardinality(dirtyAvailability) + 1 < MaximumDevices
    THEN dirtyAvailability \cup {[device |-> d, previous |-> p, current |-> c]}
    ELSE dirtyAvailability

MarkAvailabilityDirty(d, p, c) ==
    LET mine == {r \in dirtyAvailability : r.device = d}
    IN IF mine # {}
       THEN (dirtyAvailability \ mine) \cup {[r EXCEPT !.current = c] : r \in mine}
       ELSE IF Cardinality(dirtyAvailability) < MaximumDevices
            THEN dirtyAvailability
                    \cup {[device |-> d, previous |-> p, current |-> c]}
            ELSE dirtyAvailability

(***************************************************************************)
(* The threads that call the manager.  A thread whose callback has marks   *)
(* left to make has not returned to the manager yet.                       *)
(***************************************************************************)
Returned(t) == marks[t] = {}

CallApply(t, d, s, e, r, v) ==
    Returned(t) /\ Apply(t, d, s, e, r, v) /\ UNCHANGED <<markVars, workVars>>

CallSetAvailability(t, d, a) ==
    Returned(t) /\ SetAvailability(t, d, a) /\ UNCHANGED <<markVars, workVars>>

OnRemoteStateAccepted(t) ==
    /\ Returned(t)
    /\ Announce(t)
    /\ LET n == Head(notes[t])
       IN /\ n.kind = "accepted"
          /\ dirtyStates' =
                IF n.changed THEN MarkStateDirty(n.device, n.def) ELSE dirtyStates
    /\ UNCHANGED <<marks, dirtyAvailability, workVars>>

OnRemoteStateAvailabilityChanged(t) ==
    /\ Returned(t)
    /\ Announce(t)
    /\ LET n == Head(notes[t])
       IN /\ n.kind = "availability"
          /\ dirtyAvailability' = MarkAvailabilityDirty(n.device, n.previous, n.current)
          /\ marks' = [marks EXCEPT ![t] = {<<n.device, s>> : s \in Definition}]
    /\ UNCHANGED <<dirtyStates, workVars>>

(* MarkAllStatesDirty: one section of _dirtyMutex per definition.          *)
MarkAllStatesDirty(t) ==
    /\ \E m \in marks[t] :
          /\ dirtyStates' = MarkStateDirty(m[1], m[2])
          /\ marks' = [marks EXCEPT ![t] = @ \ {m}]
    /\ UNCHANGED <<managerVars, dirtyAvailability, workVars>>

(* Registrations and rejections: the inherited callbacks do nothing.       *)
OtherNotification(t) ==
    /\ Returned(t)
    /\ Announce(t)
    /\ Head(notes[t]).kind \in {"registered", "rejected"}
    /\ UNCHANGED <<markVars, workVars>>

(***************************************************************************)
(* The worker.                                                             *)
(***************************************************************************)
Drain ==
    /\ processingAvailability = {} /\ processingStates = {}
    /\ processingStates' = dirtyStates
    /\ processingAvailability' = dirtyAvailability
    /\ dirtyStates' = {}
    /\ dirtyAvailability' = {}
    /\ UNCHANGED <<managerVars, marks, reading, deliveredDevices, delivered, told>>

DeliverAvailability ==
    /\ \E r \in processingAvailability :
          /\ processingAvailability' = processingAvailability \ {r}
          /\ told' = [told EXCEPT ![r.device] = r.current]
    /\ UNCHANGED <<managerVars, markVars, processingStates, reading,
                   deliveredDevices, delivered>>

(* NotifyState up to and with Manager::Read(): without a value the record  *)
(* is done with.                                                           *)
ReadState ==
    /\ processingAvailability = {}
    /\ reading = {}
    /\ \E m \in processingStates :
          LET found == {x \in Read(m[1], m[2]) : x.state.hasValue}
          IN /\ reading' = {[mark |-> m, state |-> x.state] : x \in found}
             /\ processingStates' =
                   IF found = {} THEN processingStates \ {m} ELSE processingStates
    /\ UNCHANGED <<managerVars, markVars, processingAvailability,
                   deliveredDevices, delivered, told>>

FindOrCreateDelivered(d) ==
    d \in deliveredDevices \/ Cardinality(deliveredDevices) < MaximumDevices

(* The rest of NotifyState: tell the observers and remember what they were *)
(* told; with no DeliveredDevice to be had, neither.                       *)
NotifyState ==
    /\ \E x \in reading :
          LET d == x.mark[1]
              s == x.mark[2]
          IN /\ \/ /\ FindOrCreateDelivered(d)
                   /\ deliveredDevices' = deliveredDevices \cup {d}
                   /\ delivered' = [delivered EXCEPT ![d][s] = x.state]
                \/ ~FindOrCreateDelivered(d) /\ UNCHANGED <<deliveredDevices, delivered>>
             /\ processingStates' = processingStates \ {x.mark}
    /\ reading' = {}
    /\ UNCHANGED <<managerVars, markVars, processingAvailability, told>>

Worker == Drain \/ DeliverAvailability \/ ReadState \/ NotifyState

Calling(t) ==
    \/ \E d \in Device, s \in Definition, e \in Epoch, r \in Revision, v \in Value :
           CallApply(t, d, s, e, r, v)
    \/ \E d \in Device, a \in Reported : CallSetAvailability(t, d, a)

Finishing(t) ==
    \/ OnRemoteStateAccepted(t)
    \/ OnRemoteStateAvailabilityChanged(t)
    \/ MarkAllStatesDirty(t)
    \/ OtherNotification(t)

Init ==
    /\ ManagerInit
    /\ marks = [t \in Thread |-> {}]
    /\ dirtyStates = {} /\ processingStates = {}
    /\ dirtyAvailability = {} /\ processingAvailability = {}
    /\ reading = {}
    /\ deliveredDevices = {}
    /\ delivered = [d \in Device |-> [s \in Definition |-> EmptySlot]]
    /\ told = [d \in Device |-> "Unknown"]

Next == (\E t \in Thread : Calling(t) \/ Finishing(t)) \/ Worker

Spec == Init /\ [][Next]_vars

(***************************************************************************)
(* Types, and what the marks may name.                                     *)
(***************************************************************************)
TypeOK ==
    /\ ManagerTypeOK
    /\ marks \in [Thread -> SUBSET (Device \X Definition)]
    /\ dirtyStates \subseteq Device \X Definition
    /\ processingStates \subseteq Device \X Definition
    /\ dirtyAvailability \subseteq DirtyAvailability
    /\ processingAvailability \subseteq DirtyAvailability
    /\ reading \subseteq [mark : processingStates, state : Slot]
    /\ deliveredDevices \subseteq Device
    /\ delivered \in [Device -> [Definition -> Slot]]
    /\ told \in [Device -> Availability]

(***************************************************************************)
(* Properties.                                                             *)
(***************************************************************************)

(* The states thread t is still going to mark.                             *)
Announcing(t, d, s) ==
    \/ <<d, s>> \in marks[t]
    \/ \E i \in DOMAIN notes[t] :
          LET n == notes[t][i]
          IN \/ n.kind = "accepted" /\ n.device = d /\ n.def = s /\ n.changed
             \/ n.kind = "availability" /\ n.device = d

(* The bounded vectors always have room for the mark or the record that a  *)
(* callback or the worker is about to add, so the silent early returns of  *)
(* MarkStateDirty, MarkAvailabilityDirty and FindOrCreateDelivered are     *)
(* never taken: their bounds and the manager's agree.                      *)
MarksFit ==
    /\ \A t \in Thread, d \in Device, s \in Definition :
          Announcing(t, d, s) =>
             <<d, s>> \in dirtyStates \/ Cardinality(dirtyStates) < MaximumDirtyStates
    /\ \A t \in Thread : \A i \in DOMAIN notes[t] :
          notes[t][i].kind = "availability" =>
             \/ \E r \in dirtyAvailability : r.device = notes[t][i].device
             \/ Cardinality(dirtyAvailability) < MaximumDevices
    /\ \A x \in reading : FindOrCreateDelivered(x.mark[1])

(* Nothing about the availability of d is under way to the observers.      *)
AvailabilityQuiet(d) ==
    /\ \A t \in Thread : \A i \in DOMAIN notes[t] :
          ~(notes[t][i].kind = "availability" /\ notes[t][i].device = d)
    /\ \A r \in dirtyAvailability \cup processingAvailability : r.device # d

(* Once everything under way has arrived, the availability the observers   *)
(* were last told is the manager's.                                        *)
AvailabilitySettles ==
    \A d \in Device : AvailabilityQuiet(d) => told[d] = availability[d]

(* Coalesced or not, the transitions an observer is told form a chain: the *)
(* previous availability of each is the current one of the one before.     *)
TransitionsChain == \A r \in processingAvailability : r.previous = told[r.device]
==================================================================================
