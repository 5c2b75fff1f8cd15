--------------------------- MODULE ObserverThreadProofs ---------------------------
(***************************************************************************)
(* The bounded sets of marks of the RemoteStateObserverThread never run    *)
(* out of room, availability that settles is delivered, and an application *)
(* that prepares, visits and shuts down misses nothing: for any number of  *)
(* devices and definitions and for every capacity.                         *)
(***************************************************************************)
EXTENDS ObserverLifecycle, ManagerTypes

(* Notifications that make the thread mark something name a device that    *)
(* has a record when they may be made of the devices ds.                   *)
NoteAbout(ds) ==
    {n \in Note : n.kind \in {"accepted", "availability"} => n.device \in ds}

(* The inductive invariant: every mark, and all that becomes one, names a  *)
(* device with a record, and no device has two availability records.       *)
NamesRecords ==
    /\ notes \in [Thread -> Seq(NoteAbout(devices))]
    /\ marks \in [Thread -> SUBSET (devices \X Definition)]
    /\ dirtyStates \subseteq devices \X Definition
    /\ processingStates \subseteq devices \X Definition
    /\ \A r \in dirtyAvailability : r.device \in devices
    /\ \A r, q \in dirtyAvailability : r.device = q.device => r = q
    /\ deliveredDevices \subseteq devices

(***************************************************************************)
(* Types.                                                                  *)
(***************************************************************************)
LEMMA KindsOfNotes ==
    ASSUME NEW n \in Note
    PROVE  /\ n.kind \in {"registered", "accepted", "rejected", "availability"}
           /\ n.kind = "accepted" => n.device \in Device /\ n.def \in Definition
           /\ n.kind = "availability" => /\ n.device \in Device
                                         /\ n.previous \in Availability
                                         /\ n.current \in Availability
BY DEF Note, RegisteredNotes, RegisteredNote, AcceptedNotes, RejectedNotes,
       AvailabilityNotes

(* What a mark leaves in _dirtyAvailability: the records of the other      *)
(* devices, and of d either the old record with a new current availability *)
(* or, if it had none, at most the new one.                                *)
LEMMA MarkedAvailability ==
    ASSUME TypeOK, NEW d \in Device, NEW p \in Availability, NEW c \in Availability,
           NEW r \in MarkAvailabilityDirty(d, p, c)
    PROVE  /\ r \in DirtyAvailability
           /\ \/ r \in dirtyAvailability
              \/ /\ r.device = d
                 /\ \/ \A q \in dirtyAvailability : q.device # d
                    \/ \E q \in dirtyAvailability :
                          q.device = d /\ r = [q EXCEPT !.current = c]
<1> DEFINE mine == {q \in dirtyAvailability : q.device = d}
           new == [device |-> d, previous |-> p, current |-> c]
<1>1. dirtyAvailability \subseteq DirtyAvailability
  BY DEF TypeOK
<1>2. CASE mine # {}
  <2>1. r \in (dirtyAvailability \ mine) \cup {[q EXCEPT !.current = c] : q \in mine}
    BY <1>2 DEF MarkAvailabilityDirty
  <2>2. CASE r \in dirtyAvailability
    BY <1>1, <2>2
  <2>3. CASE r \notin dirtyAvailability
    <3>1. PICK q \in mine : r = [q EXCEPT !.current = c]
      BY <2>1, <2>3
    <3>2. q \in DirtyAvailability /\ q.device = d
      BY <1>1
    <3>3. r \in DirtyAvailability /\ r.device = d
      BY <3>1, <3>2 DEF DirtyAvailability
    <3>4. QED
      BY <3>1, <3>3
  <2>4. QED
    BY <2>2, <2>3
<1>3. CASE mine = {}
  <2>1. r \in dirtyAvailability \cup {new}
    BY <1>3 DEF MarkAvailabilityDirty
  <2>2. new \in DirtyAvailability /\ new.device = d
    BY DEF DirtyAvailability
  <2>3. \A q \in dirtyAvailability : q.device # d
    BY <1>3
  <2>4. QED
    BY <1>1, <2>1, <2>2, <2>3
<1>4. QED
  BY <1>2, <1>3

LEMMA TypeInit == Init => TypeOK
BY ManagerTypeInit, EmptySlotIsTyped DEF Init, TypeOK, Availability

LEMMA TypeCalling ==
    ASSUME TypeOK, NEW t \in Thread, Calling(t)
    PROVE  TypeOK'
<1>1. UNCHANGED <<markVars, workVars>>
  BY DEF Calling, CallApply, CallSetAvailability
<1>2. ManagerTypeOK'
  BY ManagerTypeApply, ManagerTypeSetAvailability
     DEF Calling, CallApply, CallSetAvailability, TypeOK
<1>3. QED
  BY <1>1, <1>2 DEF TypeOK, markVars, workVars

LEMMA TypeFinishing ==
    ASSUME TypeOK, NEW t \in Thread, Finishing(t)
    PROVE  TypeOK'
<1> DEFINE n == Head(notes[t])
<1>1. CASE OnRemoteStateAccepted(t)
  <2>1. ManagerTypeOK' /\ n \in Note /\ n.kind = "accepted"
    BY <1>1, ManagerTypeAnnounce DEF OnRemoteStateAccepted, TypeOK
  <2>2. dirtyStates' \subseteq Device \X Definition
    BY <1>1, <2>1, KindsOfNotes DEF OnRemoteStateAccepted, MarkStateDirty, TypeOK
  <2>3. QED
    BY <1>1, <2>1, <2>2 DEF OnRemoteStateAccepted, TypeOK, workVars
<1>2. CASE OnRemoteStateAvailabilityChanged(t)
  <2>1. ManagerTypeOK' /\ n \in Note /\ n.kind = "availability"
    BY <1>2, ManagerTypeAnnounce DEF OnRemoteStateAvailabilityChanged, TypeOK
  <2>2. dirtyAvailability' \subseteq DirtyAvailability
    BY <1>2, <2>1, KindsOfNotes, MarkedAvailability DEF OnRemoteStateAvailabilityChanged
  <2>3. marks' \in [Thread -> SUBSET (Device \X Definition)]
    BY <1>2, <2>1, KindsOfNotes DEF OnRemoteStateAvailabilityChanged, TypeOK
  <2>4. QED
    BY <1>2, <2>1, <2>2, <2>3 DEF OnRemoteStateAvailabilityChanged, TypeOK, workVars
<1>3. CASE MarkAllStatesDirty(t)
  <2>1. PICK m \in marks[t] : /\ dirtyStates' = MarkStateDirty(m[1], m[2])
                              /\ marks' = [marks EXCEPT ![t] = @ \ {m}]
    BY <1>3 DEF MarkAllStatesDirty
  <2>2. m \in Device \X Definition /\ <<m[1], m[2]>> \in Device \X Definition
    BY DEF TypeOK
  <2>3. dirtyStates' \subseteq Device \X Definition
    BY <2>1, <2>2 DEF MarkStateDirty, TypeOK
  <2>4. QED
    BY <1>3, <2>1, <2>3
       DEF MarkAllStatesDirty, TypeOK, managerVars, workVars, ManagerTypeOK
<1>4. CASE OtherNotification(t)
  BY <1>4, ManagerTypeAnnounce DEF OtherNotification, TypeOK, markVars, workVars
<1>5. QED
  BY <1>1, <1>2, <1>3, <1>4 DEF Finishing

LEMMA TypeWorker ==
    ASSUME TypeOK, Worker
    PROVE  TypeOK'
<1>1. UNCHANGED managerVars => ManagerTypeOK'
  BY DEF managerVars, TypeOK, ManagerTypeOK
<1>2. CASE Drain
  BY <1>1, <1>2 DEF Drain, TypeOK
<1>3. CASE DeliverAvailability
  BY <1>1, <1>3 DEF DeliverAvailability, TypeOK, markVars, DirtyAvailability
<1>4. CASE ReadState
  <2>1. PICK m \in processingStates :
            LET found == {x \in Read(m[1], m[2]) : x.state.hasValue}
            IN /\ reading' = {[mark |-> m, state |-> x.state] : x \in found}
               /\ processingStates' =
                     IF found = {} THEN processingStates \ {m} ELSE processingStates
    BY <1>4 DEF ReadState
  <2>2. m[1] \in Device /\ m[2] \in Definition
    BY DEF TypeOK
  <2>3. slot[m[1]][m[2]] \in Slot
    BY <2>2 DEF TypeOK, ManagerTypeOK
  <2>4. \A x \in Read(m[1], m[2]) : x.state \in Slot
    BY <2>3 DEF Read
  <2>5. reading' \subseteq [mark : processingStates', state : Slot]
    BY <2>1, <2>4
  <2>6. QED
    BY <1>1, <1>4, <2>1, <2>5 DEF ReadState, TypeOK, markVars
<1>5. CASE NotifyState
  <2>1. PICK x \in reading :
            /\ \/ /\ deliveredDevices' = deliveredDevices \cup {x.mark[1]}
                  /\ delivered' = [delivered EXCEPT ![x.mark[1]][x.mark[2]] = x.state]
               \/ UNCHANGED <<deliveredDevices, delivered>>
            /\ processingStates' = processingStates \ {x.mark}
    BY <1>5 DEF NotifyState
  <2>2. x.mark \in Device \X Definition /\ x.state \in Slot
    BY DEF TypeOK
  <2>3. deliveredDevices' \subseteq Device
    BY <2>1, <2>2 DEF TypeOK
  <2>4. delivered' \in [Device -> [Definition -> Slot]]
    <3>1. /\ delivered \in [Device -> [Definition -> Slot]]
          /\ x.mark[1] \in Device /\ x.mark[2] \in Definition /\ x.state \in Slot
      BY <2>2 DEF TypeOK
    <3>2. CASE UNCHANGED delivered
      BY <3>1, <3>2
    <3>3. CASE delivered' = [delivered EXCEPT ![x.mark[1]][x.mark[2]] = x.state]
      BY <3>1, <3>3, SlotsAreTyped
    <3>4. QED
      BY <2>1, <3>2, <3>3
  <2>5. QED
    BY <1>1, <1>5, <2>1, <2>3, <2>4 DEF NotifyState, TypeOK, markVars
<1>6. QED
  BY <1>2, <1>3, <1>4, <1>5 DEF Worker

LEMMA TypeStep == TypeOK /\ [Next]_vars => TypeOK'
<1>1. TypeOK /\ UNCHANGED vars => TypeOK'
  BY DEF vars, TypeOK, ManagerTypeOK
<1>2. QED
  BY <1>1, TypeCalling, TypeFinishing, TypeWorker DEF Next

(* The types of the worker's state and of the marks hold.                  *)
THEOREM TypeCorrect == Spec => []TypeOK
BY TypeInit, TypeStep, PTL DEF Spec

(***************************************************************************)
(* Marks name devices that have a record.                                  *)
(***************************************************************************)
LEMMA NamesInit == Init => NamesRecords
BY DEF Init, ManagerInit, NamesRecords

(* Records are never removed, so what named one goes on naming one.        *)
LEMMA NamesMonotone ==
    ASSUME NamesRecords, devices \subseteq devices',
           UNCHANGED <<marks, dirtyStates, processingStates, dirtyAvailability,
                       deliveredDevices>>,
           notes' \in [Thread -> Seq(NoteAbout(devices'))]
    PROVE  NamesRecords'
BY DEF NamesRecords

(* A call that announces x and then y announces only what it may, when x   *)
(* and y do.                                                               *)
LEMMA NamesAnnouncements ==
    ASSUME NamesRecords, devices \subseteq devices', NEW t \in Thread,
           NEW x \in Seq(NoteAbout(devices')), NEW y \in Seq(NoteAbout(devices')),
           notes' = [notes EXCEPT ![t] = x \o y]
    PROVE  notes' \in [Thread -> Seq(NoteAbout(devices'))]
<1>1. NoteAbout(devices) \subseteq NoteAbout(devices')
  BY DEF NoteAbout
<1>2. \A u \in Thread : notes[u] \in Seq(NoteAbout(devices'))
  BY <1>1 DEF NamesRecords
<1>3. x \o y \in Seq(NoteAbout(devices'))
  OBVIOUS
<1>4. QED
  BY <1>2, <1>3 DEF NamesRecords

LEMMA NamesCalling ==
    ASSUME TypeOK, NamesRecords, NEW t \in Thread, Calling(t)
    PROVE  NamesRecords'
<1>1. UNCHANGED <<marks, dirtyStates, processingStates, dirtyAvailability,
                  deliveredDevices>>
  BY DEF Calling, CallApply, CallSetAvailability, markVars, workVars
<1>2. CASE \E d \in Device, s \in Definition, e \in Epoch, r \in Revision, v \in Value :
               CallApply(t, d, s, e, r, v)
  <2>1. PICK d \in Device, s \in Definition, e \in Epoch, r \in Revision, v \in Value :
            Apply(t, d, s, e, r, v)
    BY <1>2 DEF CallApply
  <2>2. devices \subseteq devices'
    BY <2>1 DEF Apply
  <2>3. /\ RegistrationNotes(d) \in Seq(NoteAbout(devices'))
        /\ <<RejectedNote(d, s, e, r)>> \in Seq(NoteAbout(devices'))
    <3>1. RegisteredNote(d) \in Note /\ RegisteredNote(d).kind = "registered"
      BY DEF Note, RegisteredNotes, RegisteredNote
    <3>2. RejectedNote(d, s, e, r) \in Note /\ RejectedNote(d, s, e, r).kind = "rejected"
      BY ManagerAssumption DEF Note, RejectedNotes, RejectedNote
    <3>3. QED
      BY <3>1, <3>2 DEF RegistrationNotes, NoteAbout
  <2>4. CASE Accepts(d, s, e, r)
    <3>1. d \in devices'
      BY <2>1, <2>4 DEF Apply, Accepts, Creates
    <3>2. AcceptedNote(d, s, e, r, ValueChanges(d, s, v)) \in NoteAbout(devices')
      BY <3>1, ManagerAssumption
         DEF AcceptedNote, NoteAbout, Note, AcceptedNotes, ValueChanges
    <3>3. notes' = [notes EXCEPT ![t] =
                        RegistrationNotes(d) \o AcceptanceNotes(d, s, e, r, v)]
      BY <2>1, <2>4 DEF Apply
    <3>4. AcceptanceNotes(d, s, e, r, v) \in Seq(NoteAbout(devices'))
      BY <3>2 DEF AcceptanceNotes
    <3>5. QED
      BY <1>1, <2>2, <2>3, <3>3, <3>4, NamesAnnouncements, NamesMonotone
  <2>5. CASE ~Accepts(d, s, e, r)
    <3>1. notes' = [notes EXCEPT ![t] =
                        RegistrationNotes(d) \o <<RejectedNote(d, s, e, r)>>]
      BY <2>1, <2>5 DEF Apply
    <3>2. QED
      BY <1>1, <2>2, <2>3, <3>1, NamesAnnouncements, NamesMonotone
  <2>6. QED
    BY <2>4, <2>5
<1>3. CASE \E d \in Device, a \in Reported : CallSetAvailability(t, d, a)
  <2>1. PICK d \in Device, a \in Reported : SetAvailability(t, d, a)
    BY <1>3 DEF CallSetAvailability
  <2>2. devices \subseteq devices' /\ d \in devices'
    BY <2>1 DEF SetAvailability
  <2>3. /\ RegistrationNotes(d) \in Seq(NoteAbout(devices'))
        /\ <<AvailabilityNote(d, availability[d], a)>> \in Seq(NoteAbout(devices'))
        /\ <<>> \in Seq(NoteAbout(devices'))
    <3>1. RegisteredNote(d) \in Note /\ RegisteredNote(d).kind = "registered"
      BY DEF Note, RegisteredNotes, RegisteredNote
    <3>2. a \in Availability /\ availability[d] \in Availability
      BY ManagerAssumption DEF TypeOK, ManagerTypeOK
    <3>3. /\ AvailabilityNote(d, availability[d], a) \in Note
          /\ AvailabilityNote(d, availability[d], a).device = d
      BY <3>2 DEF Note, AvailabilityNotes, AvailabilityNote
    <3>4. /\ RegisteredNote(d) \in NoteAbout(devices')
          /\ AvailabilityNote(d, availability[d], a) \in NoteAbout(devices')
      BY <2>2, <3>1, <3>3 DEF NoteAbout
    <3>5. QED
      BY <3>4 DEF RegistrationNotes
  <2>4. \/ notes' = [notes EXCEPT ![t] =
                RegistrationNotes(d) \o <<AvailabilityNote(d, availability[d], a)>>]
        \/ notes' = [notes EXCEPT ![t] = RegistrationNotes(d) \o <<>>]
    BY <2>1 DEF SetAvailability
  <2>5. QED
    BY <1>1, <2>2, <2>3, <2>4, NamesAnnouncements, NamesMonotone
<1>4. QED
  BY <1>2, <1>3 DEF Calling

LEMMA NamesFinishing ==
    ASSUME TypeOK, NamesRecords, NEW t \in Thread, Finishing(t)
    PROVE  NamesRecords'
<1> DEFINE n == Head(notes[t])
<1>1. ASSUME Announce(t)
      PROVE  /\ notes' \in [Thread -> Seq(NoteAbout(devices))]
             /\ UNCHANGED devices
             /\ n \in NoteAbout(devices)
  <2>1. notes[t] \in Seq(NoteAbout(devices)) /\ notes[t] # <<>>
    BY <1>1 DEF Announce, NamesRecords
  <2>2. Tail(notes[t]) \in Seq(NoteAbout(devices)) /\ n \in NoteAbout(devices)
    BY <2>1
  <2>3. QED
    BY <1>1, <2>2 DEF Announce, NamesRecords
<1>2. CASE OnRemoteStateAccepted(t)
  <2>1. n.kind = "accepted" /\ n.device \in devices /\ n.def \in Definition
    BY <1>1, <1>2, KindsOfNotes DEF OnRemoteStateAccepted, NoteAbout
  <2>2. dirtyStates' \subseteq devices \X Definition
    BY <1>2, <2>1 DEF OnRemoteStateAccepted, MarkStateDirty, NamesRecords
  <2>3. QED
    BY <1>1, <1>2, <2>2 DEF OnRemoteStateAccepted, NamesRecords, workVars
<1>3. CASE OnRemoteStateAvailabilityChanged(t)
  <2>1. /\ n \in Note /\ n.kind = "availability" /\ n.device \in devices
        /\ n.device \in Device /\ n.previous \in Availability /\ n.current \in Availability
    BY <1>1, <1>3, KindsOfNotes DEF OnRemoteStateAvailabilityChanged, NoteAbout
  <2>2. dirtyAvailability' = MarkAvailabilityDirty(n.device, n.previous, n.current)
    BY <1>3 DEF OnRemoteStateAvailabilityChanged
  <2>3. marks' \in [Thread -> SUBSET (devices \X Definition)]
    BY <1>3, <2>1 DEF OnRemoteStateAvailabilityChanged, NamesRecords
  <2>4. \A r \in dirtyAvailability' : r.device \in devices
    BY <2>1, <2>2, MarkedAvailability DEF NamesRecords
  <2>5. \A r, q \in dirtyAvailability' : r.device = q.device => r = q
    <3>1. CASE \E r \in dirtyAvailability : r.device = n.device
      <4>1. PICK o \in dirtyAvailability : o.device = n.device
        BY <3>1
      <4>2. {r \in dirtyAvailability : r.device = n.device} = {o}
        BY <4>1 DEF NamesRecords
      <4>3. dirtyAvailability' =
                (dirtyAvailability \ {o}) \cup {[o EXCEPT !.current = n.current]}
        BY <2>2, <4>2 DEF MarkAvailabilityDirty
      <4>4. o \in DirtyAvailability
        BY <4>1 DEF TypeOK
      <4>5. [o EXCEPT !.current = n.current].device = n.device
        BY <4>1, <4>4 DEF DirtyAvailability
      <4>6. QED
        BY <4>2, <4>3, <4>5 DEF NamesRecords
    <3>2. CASE \A r \in dirtyAvailability : r.device # n.device
      <4>1. {r \in dirtyAvailability : r.device = n.device} = {}
        BY <3>2
      <4>2. dirtyAvailability' \subseteq dirtyAvailability \cup
                {[device |-> n.device, previous |-> n.previous, current |-> n.current]}
        BY <2>2, <4>1 DEF MarkAvailabilityDirty
      <4>3. QED
        BY <3>2, <4>2 DEF NamesRecords
    <3>3. QED
      BY <3>1, <3>2
  <2>6. QED
    BY <1>1, <1>3, <2>3, <2>4, <2>5
       DEF OnRemoteStateAvailabilityChanged, NamesRecords, workVars
<1>4. CASE MarkAllStatesDirty(t)
  <2>1. PICK m \in marks[t] : /\ dirtyStates' = MarkStateDirty(m[1], m[2])
                              /\ marks' = [marks EXCEPT ![t] = @ \ {m}]
    BY <1>4 DEF MarkAllStatesDirty
  <2>2. <<m[1], m[2]>> \in devices \X Definition
    BY DEF NamesRecords
  <2>3. QED
    BY <1>4, <2>1, <2>2
       DEF MarkAllStatesDirty, MarkStateDirty, NamesRecords, managerVars, workVars
<1>5. CASE OtherNotification(t)
  BY <1>1, <1>5 DEF OtherNotification, NamesRecords, markVars, workVars
<1>6. QED
  BY <1>2, <1>3, <1>4, <1>5 DEF Finishing

LEMMA NamesWorker ==
    ASSUME TypeOK, NamesRecords, Worker
    PROVE  NamesRecords'
<1>1. CASE Drain
  BY <1>1 DEF Drain, NamesRecords, managerVars
<1>2. CASE DeliverAvailability
  BY <1>2 DEF DeliverAvailability, NamesRecords, managerVars, markVars
<1>3. CASE ReadState
  <2>1. processingStates' \subseteq processingStates
    BY <1>3 DEF ReadState
  <2>2. QED
    BY <1>3, <2>1 DEF ReadState, NamesRecords, managerVars, markVars
<1>4. CASE NotifyState
  <2>1. PICK x \in reading : /\ deliveredDevices' \subseteq deliveredDevices \cup {x.mark[1]}
                             /\ processingStates' \subseteq processingStates
    BY <1>4 DEF NotifyState
  <2>2. x.mark[1] \in devices
    BY DEF TypeOK, NamesRecords
  <2>3. QED
    BY <1>4, <2>1, <2>2 DEF NotifyState, NamesRecords, managerVars, markVars
<1>5. QED
  BY <1>1, <1>2, <1>3, <1>4 DEF Worker

LEMMA NamesStep == TypeOK /\ NamesRecords /\ [Next]_vars => NamesRecords'
<1>1. NamesRecords /\ UNCHANGED vars => NamesRecords'
  BY DEF vars, NamesRecords
<1>2. QED
  BY <1>1, NamesCalling, NamesFinishing, NamesWorker DEF Next

(***************************************************************************)
(* And so there is room for them.                                          *)
(***************************************************************************)

(* A set of marks that name records misses one of them only if it is       *)
(* smaller than MaximumDirtyStates.                                        *)
LEMMA RoomForStates ==
    ASSUME TypeOK, NEW A \in SUBSET (devices \X Definition),
           NEW m \in devices \X Definition, m \notin A
    PROVE  Cardinality(A) < MaximumDirtyStates
<1> DEFINE P == devices \X Definition
<1>1. /\ IsFiniteSet(devices) /\ IsFiniteSet(Definition) /\ MaximumDevices \in Nat
      /\ Cardinality(devices) <= MaximumDevices
  BY ManagerAssumption DEF TypeOK, ManagerTypeOK
<1>2. Cardinality(devices) \in Nat /\ Cardinality(Definition) \in Nat
  BY <1>1, FS_CardinalityType
<1>3. IsFiniteSet(P) /\ Cardinality(P) = Cardinality(devices) * Cardinality(Definition)
  BY <1>1, FS_Product
<1>4. IsFiniteSet(A) /\ IsFiniteSet(A \cup {m})
  BY <1>3, FS_Subset
<1>5. Cardinality(A \cup {m}) = Cardinality(A) + 1 /\ Cardinality(A) \in Nat
  BY <1>4, FS_AddElement, FS_CardinalityType
<1>6. Cardinality(A \cup {m}) <= Cardinality(P)
  BY <1>3, FS_Subset
<1>7. Cardinality(devices) * Cardinality(Definition)
            <= MaximumDevices * Cardinality(Definition)
  <2>1. \A i, j, k \in Nat : i <= j => i * k <= j * k
    OBVIOUS
  <2>2. QED
    BY <1>1, <1>2, <2>1
<1>8. QED
  BY <1>1, <1>2, <1>3, <1>5, <1>6, <1>7 DEF MaximumDirtyStates

(* The availability records of devices other than d are fewer than the     *)
(* records of the manager when d has one.                                  *)
LEMMA RoomForAvailability ==
    ASSUME TypeOK, NamesRecords, NEW d \in devices,
           \A r \in dirtyAvailability : r.device # d
    PROVE  Cardinality(dirtyAvailability) < MaximumDevices
<1> DEFINE T == devices \ {d}
           f == [r \in dirtyAvailability |-> r.device]
<1>1. IsFiniteSet(devices) /\ Cardinality(devices) <= MaximumDevices
  BY DEF TypeOK, ManagerTypeOK
<1>2. IsFiniteSet(T) /\ Cardinality(T) = Cardinality(devices) - 1
  BY <1>1, FS_RemoveElement
<1>3. f \in Injection(dirtyAvailability, T)
  BY DEF NamesRecords, Injection, IsInjective
<1>4. IsFiniteSet(dirtyAvailability) /\ Cardinality(dirtyAvailability) <= Cardinality(T)
  BY <1>2, <1>3, FS_Injection
<1>5. Cardinality(dirtyAvailability) \in Nat /\ Cardinality(devices) \in Nat
  BY <1>1, <1>4, FS_CardinalityType
<1>6. QED
  BY <1>1, <1>2, <1>4, <1>5, ManagerAssumption

(* Delivered records are fewer than the manager's when one is missing.     *)
LEMMA RoomForDelivered ==
    ASSUME TypeOK, NamesRecords, NEW d \in devices
    PROVE  FindOrCreateDelivered(d)
<1>1. CASE d \in deliveredDevices
  BY <1>1 DEF FindOrCreateDelivered
<1>2. CASE d \notin deliveredDevices
  <2>1. IsFiniteSet(devices) /\ Cardinality(devices) <= MaximumDevices
    BY DEF TypeOK, ManagerTypeOK
  <2>2. deliveredDevices \subseteq devices /\ deliveredDevices # devices
    BY <1>2 DEF NamesRecords
  <2>3. /\ IsFiniteSet(deliveredDevices)
        /\ Cardinality(deliveredDevices) <= Cardinality(devices)
        /\ Cardinality(deliveredDevices) # Cardinality(devices)
    BY <2>1, <2>2, FS_Subset
  <2>4. Cardinality(deliveredDevices) \in Nat /\ Cardinality(devices) \in Nat
    BY <2>1, <2>3, FS_CardinalityType
  <2>5. QED
    BY <2>1, <2>3, <2>4, ManagerAssumption DEF FindOrCreateDelivered
<1>3. QED
  BY <1>1, <1>2

LEMMA NamesGiveRoom == TypeOK /\ NamesRecords => MarksFit
<1> SUFFICES ASSUME TypeOK, NamesRecords PROVE MarksFit
  OBVIOUS
<1>1. ASSUME NEW t \in Thread, NEW i \in DOMAIN notes[t],
             notes[t][i].kind \in {"accepted", "availability"}
      PROVE  notes[t][i].device \in devices
  <2>1. notes[t] \in Seq(NoteAbout(devices))
    BY DEF NamesRecords
  <2>2. notes[t][i] \in NoteAbout(devices)
    BY <2>1
  <2>3. QED
    BY <1>1, <2>2 DEF NoteAbout
<1>2. ASSUME NEW t \in Thread, NEW d \in Device, NEW s \in Definition,
             Announcing(t, d, s), <<d, s>> \notin dirtyStates
      PROVE  Cardinality(dirtyStates) < MaximumDirtyStates
  <2>1. d \in devices
    BY <1>1, <1>2 DEF Announcing, NamesRecords
  <2>2. QED
    BY <1>2, <2>1, RoomForStates DEF NamesRecords
<1>3. ASSUME NEW t \in Thread, NEW i \in DOMAIN notes[t],
             notes[t][i].kind = "availability",
             \A r \in dirtyAvailability : r.device # notes[t][i].device
      PROVE  Cardinality(dirtyAvailability) < MaximumDevices
  BY <1>1, <1>3, RoomForAvailability
<1>4. ASSUME NEW x \in reading PROVE FindOrCreateDelivered(x.mark[1])
  BY RoomForDelivered DEF TypeOK, NamesRecords
<1>5. QED
  BY <1>2, <1>3, <1>4 DEF MarksFit

(* A mark is never dropped for want of room, and a state that was read is  *)
(* always delivered: the silent early returns of MarkStateDirty(),         *)
(* MarkAvailabilityDirty() and NotifyState() are dead code.                *)
THEOREM NoMarkIsDropped == Spec => []MarksFit
<1>1. Spec => []NamesRecords
  BY TypeCorrect, NamesInit, NamesStep, PTL DEF Spec
<1>2. QED
  BY <1>1, TypeCorrect, NamesGiveRoom, PTL


(***************************************************************************)
(* The way of a change of availability: announced by a thread, marked,     *)
(* and processed by the worker.                                            *)
(***************************************************************************)
AvailabilityNews(t, d) == {n \in News(t) : n.kind = "availability" /\ n.device = d}

Dirty(d) == {r \in dirtyAvailability : r.device = d}

Processing(d) == {r \in processingAvailability : r.device = d}

(* What each operation does to the news of availability.                   *)
LEMMA NewsOfApply ==
    ASSUME ManagerTypeOK, NewsIsLast, NEW t \in Thread, NEW d \in Device, NEW s \in Definition,
           NEW e \in Epoch, NEW r \in Revision, NEW v \in Value, Apply(t, d, s, e, r, v)
    PROVE  /\ NewsIsLast'
           /\ \A u \in Thread, x \in Device : AvailabilityNews(u, x)' = AvailabilityNews(u, x)
<1>1. PICK n : AppliesAs(t, d, s, e, r, v, n)
  BY ApplyIsACall
<1>2. CallOf(t, d, n, <<n>>) /\ n.kind # "availability"
  BY <1>1 DEF AppliesAs, AcceptedNote, RejectedNotes
<1>3. /\ NewsIsLast' /\ News(t) = {} /\ News(t)' \subseteq {n}
      /\ \A u \in Thread \ {t} : News(u)' = News(u)
  BY <1>2, NewsOfCall
<1>4. QED
  BY <1>2, <1>3 DEF AvailabilityNews

LEMMA NewsOfSetAvailability ==
    ASSUME ManagerTypeOK, NewsIsLast, NEW t \in Thread, NEW d \in Device, NEW a \in Reported,
           SetAvailability(t, d, a)
    PROVE  /\ NewsIsLast'
           /\ News(t) = {}
           /\ \A u \in Thread, x \in Device : u # t \/ x # d =>
                 AvailabilityNews(u, x)' = AvailabilityNews(u, x)
           /\ availability' = [availability EXCEPT ![d] = a]
           /\ \/ a = availability[d] /\ AvailabilityNews(t, d)' = {}
              \/ \E n \in Note :
                    /\ AvailabilityNews(t, d)' = {n}
                    /\ n.previous = availability[d] /\ n.current = a
<1>1. PICK n, y : SetsAs(t, d, a, n, y)
  BY SetAvailabilityIsACall
<1>2. /\ CallOf(t, d, n, y) /\ availability' = [availability EXCEPT ![d] = a]
      /\ y = <<>> => a = availability[d]
      /\ n.kind = "availability" /\ n.device = d
      /\ n.previous = availability[d] /\ n.current = a
  BY <1>1 DEF SetsAs, AvailabilityNote
<1>3. IsNews(n) /\ n \in Note
  BY <1>2 DEF IsNews, CallOf, Note
<1>4. /\ NewsIsLast' /\ News(t) = {} /\ News(t)' = IF y = <<n>> THEN {n} ELSE {}
      /\ \A u \in Thread \ {t} : News(u)' = News(u)
  BY <1>2, <1>3, NewsOfCall
<1>5. y = <<>> \/ y = <<n>>
  BY <1>2 DEF CallOf, Leaves
<1>6. \A u \in Thread, x \in Device : u # t \/ x # d =>
         AvailabilityNews(u, x)' = AvailabilityNews(u, x)
  BY <1>2, <1>4 DEF AvailabilityNews
<1>7. CASE y = <<n>>
  BY <1>2, <1>3, <1>4, <1>6, <1>7 DEF AvailabilityNews
<1>8. CASE y # <<n>>
  BY <1>2, <1>4, <1>5, <1>6, <1>8 DEF AvailabilityNews
<1>9. QED
  BY <1>7, <1>8

(* Announcing leaves the news of availability as it is, except of the      *)
(* device of an announced transition.                                      *)
LEMMA NewsOfAnnouncement ==
    ASSUME ManagerTypeOK, NewsIsLast, NEW t \in Thread, Announce(t)
    PROVE  /\ NewsIsLast'
           /\ \A u \in Thread, x \in Device :
                 \/ AvailabilityNews(u, x)' = AvailabilityNews(u, x)
                 \/ /\ u = t /\ Head(notes[t]).kind = "availability"
                    /\ Head(notes[t]).device = x
           /\ \A x \in Device :
                 Head(notes[t]).kind = "availability" /\ Head(notes[t]).device = x =>
                    AvailabilityNews(t, x) = {Head(notes[t])} /\ AvailabilityNews(t, x)' = {}
<1> DEFINE n == Head(notes[t])
<1>1. /\ NewsIsLast'
      /\ IsNews(n) => News(t) = {n} /\ News(t)' = {}
      /\ ~IsNews(n) => News(t)' = News(t)
      /\ \A u \in Thread \ {t} : News(u)' = News(u)
  BY NewsOfAnnounce
<1> HIDE DEF n
<1>2. n.kind = "availability" => IsNews(n)
  BY DEF IsNews
<1>3. ASSUME NEW u \in Thread, NEW x \in Device
      PROVE  \/ AvailabilityNews(u, x)' = AvailabilityNews(u, x)
             \/ u = t /\ n.kind = "availability" /\ n.device = x
  BY <1>1 DEF AvailabilityNews
<1>4. \A x \in Device : n.kind = "availability" /\ n.device = x =>
         AvailabilityNews(t, x) = {n} /\ AvailabilityNews(t, x)' = {}
  BY <1>1, <1>2 DEF AvailabilityNews
<1>5. QED
  BY <1>1, <1>3, <1>4 DEF n

(* What the callback about a transition marks.                             *)
LEMMA MarkedTransition ==
    ASSUME TypeOK, NamesRecords, NEW t \in Thread, OnRemoteStateAvailabilityChanged(t)
    PROVE  \E d \in devices, p \in Availability, c \in Availability :
              /\ Head(notes[t]).device = d
              /\ Head(notes[t]).previous = p
              /\ Head(notes[t]).current = c
              /\ dirtyAvailability' = MarkAvailabilityDirty(d, p, c)
              /\ marks' = [marks EXCEPT ![t] = {d} \X Definition]
<1> DEFINE n == Head(notes[t])
<1>1. n \in NoteAbout(devices)
  <2>1. notes[t] \in Seq(NoteAbout(devices)) /\ notes[t] # <<>>
    BY DEF OnRemoteStateAvailabilityChanged, Announce, NamesRecords
  <2>2. QED
    BY <2>1
<1>2. n.kind = "availability"
  BY DEF OnRemoteStateAvailabilityChanged
<1>3. n.device \in devices /\ n.previous \in Availability /\ n.current \in Availability
  BY <1>1, <1>2, KindsOfNotes DEF NoteAbout
<1>4. /\ dirtyAvailability' = MarkAvailabilityDirty(n.device, n.previous, n.current)
      /\ marks' = [marks EXCEPT ![t] = {<<n.device, s>> : s \in Definition}]
  BY DEF OnRemoteStateAvailabilityChanged
<1> HIDE DEF n
<1>5. {<<n.device, s>> : s \in Definition} = {n.device} \X Definition
  OBVIOUS
<1>6. QED
  BY <1>3, <1>4, <1>5 DEF n

(* What a mark does to the records of availability.                        *)
LEMMA MarkedDevice ==
    ASSUME TypeOK, NamesRecords, NEW d \in devices, NEW p \in Availability,
           NEW c \in Availability, dirtyAvailability' = MarkAvailabilityDirty(d, p, c)
    PROVE  /\ \A x \in Device \ {d} : Dirty(x)' = Dirty(x)
           /\ \E r : /\ Dirty(d)' = {r} /\ r.current = c
                     /\ Dirty(d) = {} => r.previous = p
                     /\ \A q \in Dirty(d) : Dirty(d) = {q} /\ r.previous = q.previous
<1> DEFINE new == [device |-> d, previous |-> p, current |-> c]
<1>1. dirtyAvailability' =
         IF Dirty(d) # {}
         THEN (dirtyAvailability \ Dirty(d)) \cup {[r EXCEPT !.current = c] : r \in Dirty(d)}
         ELSE IF Cardinality(dirtyAvailability) < MaximumDevices
              THEN dirtyAvailability \cup {new} ELSE dirtyAvailability
  BY DEF MarkAvailabilityDirty, Dirty
<1>2. new.device = d /\ new.previous = p /\ new.current = c
  OBVIOUS
<1> HIDE DEF new
<1>3. CASE Dirty(d) = {}
  <2>1. Cardinality(dirtyAvailability) < MaximumDevices
    BY <1>3, RoomForAvailability DEF Dirty
  <2>2. dirtyAvailability' = dirtyAvailability \cup {new}
    BY <1>1, <1>3, <2>1
  <2>3. Dirty(d)' = {new} /\ \A x \in Device \ {d} : Dirty(x)' = Dirty(x)
    BY <1>2, <1>3, <2>2 DEF Dirty
  <2>4. QED
    BY <1>2, <1>3, <2>3
<1>4. CASE Dirty(d) # {}
  <2>1. PICK q : q \in Dirty(d)
    BY <1>4
  <2>2. Dirty(d) = {q} /\ q \in DirtyAvailability /\ q.device = d
    BY <2>1 DEF Dirty, NamesRecords, TypeOK
  <2> DEFINE r == [q EXCEPT !.current = c]
  <2>3. r.device = d /\ r.previous = q.previous /\ r.current = c
    BY <2>2 DEF DirtyAvailability
  <2>4. dirtyAvailability' = (dirtyAvailability \ {q}) \cup {r}
    BY <1>1, <1>4, <2>2
  <2> HIDE DEF r
  <2>5. Dirty(d)' = {r} /\ \A x \in Device \ {d} : Dirty(x)' = Dirty(x)
    BY <2>2, <2>3, <2>4 DEF Dirty
  <2>6. QED
    BY <2>2, <2>3, <2>5
<1>5. QED
  BY <1>3, <1>4

(***************************************************************************)
(* The chain of transitions of one reporting thread: from what the         *)
(* observers were told over what the worker processes, what is marked and  *)
(* what is announced to the availability the manager has, each link at     *)
(* most one transition.                                                    *)
(***************************************************************************)
OneThread == \E t : Thread = {t}

Link(S, p, c) ==
    \/ S = {} /\ p = c
    \/ \E r : S = {r} /\ r.previous = p /\ r.current = c

ChainOf(t, d) ==
    \E p, c \in Availability :
        /\ Link(Processing(d), told[d], p)
        /\ Link(Dirty(d), p, c)
        /\ Link(AvailabilityNews(t, d), c, availability[d])

Chains == \A t \in Thread, d \in Device : ChainOf(t, d)

ChainInv == TypeOK /\ NamesRecords /\ NewsIsLast /\ Chains

LEMMA ChainUnchanged ==
    ASSUME Chains, NEW t \in Thread, NEW d \in Device,
           Processing(d)' = Processing(d), told'[d] = told[d], Dirty(d)' = Dirty(d),
           AvailabilityNews(t, d)' = AvailabilityNews(t, d),
           availability'[d] = availability[d]
    PROVE  ChainOf(t, d)'
BY DEF Chains, ChainOf

LEMMA ChainsInit == Init => NewsIsLast /\ Chains
<1> SUFFICES ASSUME Init PROVE NewsIsLast /\ Chains
  OBVIOUS
<1>1. NewsIsLast /\ \A t \in Thread : News(t) = {}
  BY NewsOfInit DEF Init
<1>2. ASSUME NEW t \in Thread, NEW d \in Device PROVE ChainOf(t, d)
  <2>1. AvailabilityNews(t, d) = {} /\ Dirty(d) = {} /\ Processing(d) = {}
    BY <1>1 DEF AvailabilityNews, Dirty, Processing, Init
  <2>2. told[d] = "Unknown" /\ availability[d] = "Unknown" /\ "Unknown" \in Availability
    BY DEF Init, ManagerInit, Availability
  <2>3. QED
    BY <2>1, <2>2 DEF ChainOf, Link
<1>3. QED
  BY <1>1, <1>2 DEF Chains

LEMMA ChainsCalling ==
    ASSUME OneThread, ChainInv, NEW t \in Thread, Calling(t)
    PROVE  NewsIsLast' /\ Chains'
<1>1. UNCHANGED <<dirtyAvailability, processingAvailability, told>> /\ ManagerTypeOK /\ NewsIsLast
  BY DEF Calling, CallApply, CallSetAvailability, markVars, workVars, ChainInv, TypeOK
<1>2. \A d \in Device : Processing(d)' = Processing(d) /\ Dirty(d)' = Dirty(d)
  BY <1>1 DEF Processing, Dirty
<1>3. CASE \E d \in Device, s \in Definition, e \in Epoch, r \in Revision, v \in Value :
               CallApply(t, d, s, e, r, v)
  <2>1. PICK d \in Device, s \in Definition, e \in Epoch, r \in Revision, v \in Value :
            Apply(t, d, s, e, r, v)
    BY <1>3 DEF CallApply
  <2>2. /\ NewsIsLast' /\ availability' = availability
        /\ \A u \in Thread, x \in Device : AvailabilityNews(u, x)' = AvailabilityNews(u, x)
    BY <1>1, <2>1, NewsOfApply DEF Apply
  <2>3. QED
    BY <1>1, <1>2, <2>2, ChainUnchanged DEF ChainInv, Chains
<1>4. CASE \E d \in Device, a \in Reported : CallSetAvailability(t, d, a)
  <2>1. PICK d \in Device, a \in Reported : SetAvailability(t, d, a)
    BY <1>4 DEF CallSetAvailability
  <2>2. /\ NewsIsLast' /\ News(t) = {}
        /\ \A u \in Thread, x \in Device : u # t \/ x # d =>
              AvailabilityNews(u, x)' = AvailabilityNews(u, x)
        /\ availability' = [availability EXCEPT ![d] = a]
        /\ \/ a = availability[d] /\ AvailabilityNews(t, d)' = {}
           \/ \E n \in Note : /\ AvailabilityNews(t, d)' = {n}
                              /\ n.previous = availability[d] /\ n.current = a
    BY <1>1, <2>1, NewsOfSetAvailability
  <2>3. AvailabilityNews(t, d) = {}
    BY <2>2 DEF AvailabilityNews
  <2>4. availability'[d] = a /\ \A x \in Device \ {d} : availability'[x] = availability[x]
    BY <1>1, <2>2 DEF ManagerTypeOK
  <2>5. ChainOf(t, d)'
    <3>1. PICK p, c \in Availability :
              /\ Link(Processing(d), told[d], p)
              /\ Link(Dirty(d), p, c)
              /\ Link({}, c, availability[d])
      BY <2>3 DEF ChainInv, Chains, ChainOf
    <3>2. c = availability[d]
      BY <3>1 DEF Link
    <3>3. Link(AvailabilityNews(t, d)', c, a)
      BY <2>2, <3>2 DEF Link
    <3>4. QED
      BY <1>1, <1>2, <2>4, <3>1, <3>3 DEF ChainOf
  <2>6. \A x \in Device \ {d} : ChainOf(t, x)'
    BY <1>1, <1>2, <2>2, <2>4, ChainUnchanged DEF ChainInv
  <2>7. QED
    BY <2>2, <2>5, <2>6 DEF Chains, OneThread
<1>5. QED
  BY <1>3, <1>4 DEF Calling

LEMMA ChainsFinishing ==
    ASSUME OneThread, ChainInv, NEW t \in Thread, Finishing(t)
    PROVE  NewsIsLast' /\ Chains'
<1> DEFINE n == Head(notes[t])
<1>1. /\ ManagerTypeOK /\ NewsIsLast
      /\ UNCHANGED <<processingAvailability, told, availability>>
  BY DEF Finishing, OnRemoteStateAccepted, OnRemoteStateAvailabilityChanged, Announce,
         MarkAllStatesDirty, OtherNotification, markVars, workVars, ChainInv, TypeOK,
         managerVars
<1>2. \A d \in Device : Processing(d)' = Processing(d)
  BY <1>1 DEF Processing
<1>3. CASE OnRemoteStateAvailabilityChanged(t)
  <2>1. Announce(t) /\ n.kind = "availability"
    BY <1>3 DEF OnRemoteStateAvailabilityChanged
  <2>2. PICK d \in devices, p \in Availability, c \in Availability :
            /\ n.device = d /\ n.previous = p /\ n.current = c
            /\ dirtyAvailability' = MarkAvailabilityDirty(d, p, c)
    BY <1>3, MarkedTransition DEF ChainInv
  <2>3. d \in Device
    BY <1>1 DEF ManagerTypeOK
  <2>4. /\ NewsIsLast'
        /\ \A x \in Device \ {d} : AvailabilityNews(t, x)' = AvailabilityNews(t, x)
        /\ AvailabilityNews(t, d) = {n} /\ AvailabilityNews(t, d)' = {}
    BY <1>1, <2>1, <2>2, <2>3, NewsOfAnnouncement
  <2>5. /\ \A x \in Device \ {d} : Dirty(x)' = Dirty(x)
        /\ \E r : /\ Dirty(d)' = {r} /\ r.current = c
                  /\ Dirty(d) = {} => r.previous = p
                  /\ \A q \in Dirty(d) : Dirty(d) = {q} /\ r.previous = q.previous
    BY <2>2, MarkedDevice DEF ChainInv
  <2>6. ChainOf(t, d)'
    <3>1. PICK a, b \in Availability :
              /\ Link(Processing(d), told[d], a)
              /\ Link(Dirty(d), a, b)
              /\ Link({n}, b, availability[d])
      BY <2>3, <2>4 DEF ChainInv, Chains, ChainOf
    <3>2. p = b /\ c = availability[d]
      BY <2>2, <3>1 DEF Link
    <3>3. Link(Dirty(d)', a, c)
      BY <2>5, <3>1, <3>2 DEF Link
    <3>4. Link({}, c, availability[d])
      BY <3>2 DEF Link
    <3>5. QED
      BY <1>1, <1>2, <2>3, <2>4, <3>1, <3>3, <3>4 DEF ChainOf
  <2>7. \A x \in Device \ {d} : ChainOf(t, x)'
    BY <1>1, <1>2, <2>4, <2>5, ChainUnchanged DEF ChainInv
  <2>8. QED
    BY <2>3, <2>4, <2>6, <2>7 DEF Chains, OneThread
<1>4. CASE OnRemoteStateAccepted(t) \/ OtherNotification(t)
  <2>1. /\ Announce(t) /\ n.kind # "availability"
        /\ UNCHANGED dirtyAvailability
    BY <1>4 DEF OnRemoteStateAccepted, OtherNotification, markVars
  <2>2. /\ NewsIsLast'
        /\ \A u \in Thread, x \in Device : AvailabilityNews(u, x)' = AvailabilityNews(u, x)
    BY <1>1, <2>1, NewsOfAnnouncement
  <2>3. \A x \in Device : Dirty(x)' = Dirty(x)
    BY <2>1 DEF Dirty
  <2>4. QED
    BY <1>1, <1>2, <2>2, <2>3, ChainUnchanged DEF ChainInv, Chains
<1>5. CASE MarkAllStatesDirty(t)
  <2>1. UNCHANGED <<notes, dirtyAvailability>>
    BY <1>5 DEF MarkAllStatesDirty, managerVars
  <2>2. NewsIsLast'
    BY <1>1, <2>1 DEF NewsIsLast
  <2>3. /\ \A u \in Thread, x \in Device : AvailabilityNews(u, x)' = AvailabilityNews(u, x)
        /\ \A x \in Device : Dirty(x)' = Dirty(x)
    BY <2>1 DEF AvailabilityNews, News, Dirty
  <2>4. QED
    BY <1>1, <1>2, <2>2, <2>3, ChainUnchanged DEF ChainInv, Chains
<1>6. QED
  BY <1>3, <1>4, <1>5 DEF Finishing

LEMMA ChainsWorker ==
    ASSUME ChainInv, Worker
    PROVE  NewsIsLast' /\ Chains'
<1>1. UNCHANGED <<notes, availability>>
  BY DEF Worker, Drain, DeliverAvailability, ReadState, NotifyState, managerVars
<1>2. NewsIsLast' /\ \A t \in Thread, d \in Device :
         AvailabilityNews(t, d)' = AvailabilityNews(t, d)
  BY <1>1 DEF NewsIsLast, AvailabilityNews, News, ChainInv
<1>3. CASE Drain
  <2>1. ASSUME NEW d \in Device
        PROVE  Processing(d) = {} /\ Processing(d)' = Dirty(d) /\ Dirty(d)' = {}
    BY <1>3 DEF Drain, Processing, Dirty
  <2>2. told' = told
    BY <1>3 DEF Drain
  <2>3. ASSUME NEW t \in Thread, NEW d \in Device PROVE ChainOf(t, d)'
    <3>1. PICK p, c \in Availability :
              /\ Link({}, told[d], p)
              /\ Link(Dirty(d), p, c)
              /\ Link(AvailabilityNews(t, d), c, availability[d])
      BY <2>1 DEF ChainInv, Chains, ChainOf
    <3>2. told[d] = p /\ Link({}, c, c)
      BY <3>1 DEF Link
    <3>3. QED
      BY <1>1, <1>2, <2>1, <2>2, <3>1, <3>2 DEF ChainOf
  <2>4. QED
    BY <1>2, <2>3 DEF Chains
<1>4. CASE DeliverAvailability
  <2>1. PICK r \in processingAvailability :
            /\ processingAvailability' = processingAvailability \ {r}
            /\ told' = [told EXCEPT ![r.device] = r.current]
    BY <1>4 DEF DeliverAvailability
  <2>2. r.device \in Device /\ told \in [Device -> Availability] /\ r \in Processing(r.device)
    BY DEF ChainInv, TypeOK, DirtyAvailability, Processing
  <2>3. dirtyAvailability' = dirtyAvailability
    BY <1>4 DEF DeliverAvailability, markVars
  <2>4. \A d \in Device : Dirty(d)' = Dirty(d)
    BY <2>3 DEF Dirty
  <2>5. ASSUME NEW t \in Thread PROVE ChainOf(t, r.device)'
    <3>1. PICK p, c \in Availability :
              /\ Link(Processing(r.device), told[r.device], p)
              /\ Link(Dirty(r.device), p, c)
              /\ Link(AvailabilityNews(t, r.device), c, availability[r.device])
      BY <2>2 DEF ChainInv, Chains, ChainOf
    <3>2. Processing(r.device) = {r} /\ r.current = p
      BY <2>2, <3>1 DEF Link
    <3>3. Processing(r.device)' = {} /\ told'[r.device] = p
      BY <2>1, <2>2, <3>2 DEF Processing
    <3>4. Link({}, p, p)
      BY DEF Link
    <3>5. QED
      BY <1>1, <1>2, <2>2, <2>4, <3>1, <3>3, <3>4 DEF ChainOf
  <2>6. \A x \in Device \ {r.device} : Processing(x)' = Processing(x) /\ told'[x] = told[x]
    BY <2>1, <2>2 DEF Processing
  <2>7. \A t \in Thread, x \in Device \ {r.device} : ChainOf(t, x)'
    BY <1>1, <1>2, <2>4, <2>6, ChainUnchanged DEF ChainInv
  <2>8. QED
    BY <1>2, <2>5, <2>7 DEF Chains
<1>5. CASE ReadState \/ NotifyState
  <2>1. UNCHANGED <<processingAvailability, dirtyAvailability, told>>
    BY <1>5 DEF ReadState, NotifyState, markVars
  <2>2. \A d \in Device : Processing(d)' = Processing(d) /\ Dirty(d)' = Dirty(d)
    BY <2>1 DEF Processing, Dirty
  <2>3. QED
    BY <1>1, <1>2, <2>1, <2>2, ChainUnchanged DEF ChainInv, Chains
<1>6. QED
  BY <1>3, <1>4, <1>5 DEF Worker

LEMMA ChainsStep == OneThread /\ ChainInv /\ [Next]_vars => ChainInv'
<1>1. ASSUME OneThread, ChainInv, UNCHANGED vars PROVE NewsIsLast' /\ Chains'
  BY <1>1 DEF vars, ChainInv, NewsIsLast, Chains, ChainOf, Processing, Dirty,
              AvailabilityNews, News
<1>2. QED
  BY <1>1, TypeStep, NamesStep, ChainsCalling, ChainsFinishing, ChainsWorker
     DEF Next, ChainInv

LEMMA ChainsTell == OneThread /\ ChainInv => TransitionsChain /\ AvailabilitySettles
<1> SUFFICES ASSUME ChainInv, NEW t \in Thread PROVE TransitionsChain /\ AvailabilitySettles
  BY DEF OneThread
<1>1. ASSUME NEW r \in processingAvailability PROVE r.previous = told[r.device]
  <2>1. r.device \in Device /\ r \in Processing(r.device)
    BY DEF ChainInv, TypeOK, DirtyAvailability, Processing
  <2>2. QED
    BY <2>1 DEF ChainInv, Chains, ChainOf, Link
<1>2. ASSUME NEW d \in Device, AvailabilityQuiet(d) PROVE told[d] = availability[d]
  <2>1. Processing(d) = {} /\ Dirty(d) = {}
    BY <1>2 DEF AvailabilityQuiet, Processing, Dirty
  <2>2. AvailabilityNews(t, d) = {}
    BY <1>2 DEF AvailabilityQuiet, AvailabilityNews, News, Due
  <2>3. QED
    BY <2>1, <2>2 DEF ChainInv, Chains, ChainOf, Link
<1>3. QED
  BY <1>1, <1>2 DEF TransitionsChain, AvailabilitySettles

LEMMA ChainsHold ==
    ASSUME OneThread
    PROVE  Spec => []ChainInv
<1>1. Init => ChainInv
  BY TypeInit, NamesInit, ChainsInit DEF ChainInv
<1>2. ChainInv /\ [Next]_vars => ChainInv'
  BY ChainsStep
<1>3. QED
  BY <1>1, <1>2, PTL DEF Spec

(* With one thread that calls the manager, the transitions that observers  *)
(* are told form a chain: RemoteStateObserverThread coalesces transitions  *)
(* between two deliveries, and loses none and repeats none of them.        *)
THEOREM TransitionsFormAChain ==
    ASSUME OneThread
    PROVE  Spec => []TransitionsChain
<1>1. ChainInv => TransitionsChain
  BY ChainsTell
<1>2. QED
  BY <1>1, ChainsHold, PTL

(* With one thread that calls the manager, observers know the availability *)
(* that the manager has once nothing about it is announced, marked or      *)
(* processed.                                                              *)
THEOREM AvailabilityArrives ==
    ASSUME OneThread
    PROVE  Spec => []AvailabilitySettles
<1>1. ChainInv => AvailabilitySettles
  BY ChainsTell
<1>2. QED
  BY <1>1, ChainsHold, PTL

(***************************************************************************)
(* An application that prepares, visits and shuts down a                   *)
(* RemoteStateObserverThread misses nothing, for any number of threads,    *)
(* devices and definitions and however often it does so.                   *)
(***************************************************************************)

(***************************************************************************)
(* The types of the lifecycle.  A thread that has entered its callback is  *)
(* about to announce news.                                                 *)
(***************************************************************************)
PhaseOK ==
    /\ writes \in Nat
    /\ phase \in {"open", "visited", "closing", "closed"}
    /\ phase \in {"open", "visited"} <=> Prepared(writes)
    /\ phase = "closing" => writes >= 2

CallbacksOK ==
    /\ seen \in [Thread -> Nat] /\ \A t \in Thread : seen[t] <= writes
    /\ entered \in [Thread -> BOOLEAN]
    /\ \A t \in Thread : entered[t] =>
          /\ Returned(t)
          /\ notes[t] # <<>> /\ IsNews(Head(notes[t]))

ShownOK ==
    /\ visit \subseteq Device \X Definition
    /\ shown \in [Device -> [Definition -> Slot]]
    /\ known \in [Device -> Availability]

WorkerOK ==
    /\ \A x, y \in reading : x = y
    /\ \A r \in processingAvailability : r.device \in devices
    /\ \A r, q \in processingAvailability : r.device = q.device => r = q

Sound == TypeOK /\ NamesRecords /\ NewsIsLast /\ PhaseOK /\ CallbacksOK /\ ShownOK /\ WorkerOK

LEMMA SoundInit == LifecycleInit => Sound
<1> SUFFICES ASSUME LifecycleInit PROVE Sound
  OBVIOUS
<1>1. TypeOK /\ NamesRecords /\ NewsIsLast
  BY TypeInit, NamesInit, NewsOfInit DEF LifecycleInit, Init
<1>2. PhaseOK
  BY DEF LifecycleInit, PhaseOK, Prepared
<1>3. CallbacksOK
  <2>1. \A t \in Thread : ~entered[t]
    BY DEF LifecycleInit
  <2>2. seen \in [Thread -> Nat] /\ \A t \in Thread : seen[t] <= writes
    BY DEF LifecycleInit
  <2>3. entered \in [Thread -> BOOLEAN]
    BY DEF LifecycleInit
  <2>4. QED
    BY <2>1, <2>2, <2>3 DEF CallbacksOK
<1>4. ShownOK
  BY <1>1 DEF LifecycleInit, ShownOK, TypeOK
<1>5. WorkerOK
  BY DEF LifecycleInit, Init, WorkerOK
<1>6. QED
  BY <1>1, <1>2, <1>3, <1>4, <1>5 DEF Sound

(* An announcement that nobody listens to.                                 *)
LEMMA UnheardAnnouncement ==
    ASSUME TypeOK, NamesRecords, NEW t \in Thread, Announce(t), UNCHANGED <<markVars, workVars>>
    PROVE  TypeOK' /\ NamesRecords'
<1>1. TypeOK'
  BY ManagerTypeAnnounce DEF TypeOK, markVars, workVars
<1>2. notes[t] \in Seq(NoteAbout(devices)) /\ notes[t] # <<>>
  BY DEF Announce, NamesRecords
<1>3. Tail(notes[t]) \in Seq(NoteAbout(devices))
  BY <1>2
<1>4. devices' = devices /\ notes' \in [Thread -> Seq(NoteAbout(devices))]
  BY <1>3 DEF Announce, NamesRecords
<1>5. QED
  BY <1>1, <1>4 DEF NamesRecords, markVars, workVars

LEMMA SoundCallManager ==
    ASSUME Sound, NEW t \in Thread, CallManager(t)
    PROVE  Sound'
<1>1. Calling(t) /\ Idle(t) /\ UNCHANGED <<markVars, workVars>>
  <2>1. Calling(t)
    <3>1. PICK d \in Device \ {ZeroDevice} :
             \/ \E s \in Definition, e \in Epoch, r \in Revision, v \in Value :
                   CallApply(t, d, s, e, r, v)
             \/ \E a \in Reported : CallSetAvailability(t, d, a)
      BY DEF CallManager
    <3>2. QED
      BY <3>1 DEF Calling
  <2>2. QED
    BY <2>1 DEF Calling, CallApply, CallSetAvailability, Apply, SetAvailability
<1>2. TypeOK' /\ NamesRecords' /\ ManagerTypeOK
  BY <1>1, TypeCalling, NamesCalling DEF Sound, TypeOK
<1>3. /\ NewsIsLast' /\ devices \subseteq devices'
      /\ \A u \in Thread \ {t} : notes'[u] = notes[u]
  <2>1. ASSUME NEW d \in Device, NEW s \in Definition, NEW e \in Epoch, NEW r \in Revision,
               NEW v \in Value, CallApply(t, d, s, e, r, v)
        PROVE  /\ NewsIsLast' /\ devices \subseteq devices'
               /\ \A u \in Thread \ {t} : notes'[u] = notes[u]
    <3>1. PICK n : AppliesAs(t, d, s, e, r, v, n)
      BY <1>2, <2>1, ApplyIsACall DEF CallApply
    <3>2. CallOf(t, d, n, <<n>>)
      BY <3>1 DEF AppliesAs
    <3>3. NewsIsLast' /\ \A u \in Thread \ {t} : notes'[u] = notes[u]
      BY <1>2, <3>2, NewsOfCall DEF Sound
    <3>4. QED
      BY <3>2, <3>3 DEF CallOf
  <2>2. ASSUME NEW d \in Device, NEW a \in Reported, CallSetAvailability(t, d, a)
        PROVE  /\ NewsIsLast' /\ devices \subseteq devices'
               /\ \A u \in Thread \ {t} : notes'[u] = notes[u]
    <3>1. PICK n, y : SetsAs(t, d, a, n, y)
      BY <1>2, <2>2, SetAvailabilityIsACall DEF CallSetAvailability
    <3>2. CallOf(t, d, n, y)
      BY <3>1 DEF SetsAs
    <3>3. NewsIsLast' /\ \A u \in Thread \ {t} : notes'[u] = notes[u]
      BY <1>2, <3>2, NewsOfCall DEF Sound
    <3>4. QED
      BY <3>2, <3>3 DEF CallOf
  <2>3. QED
    BY <1>1, <2>1, <2>2 DEF Calling
<1>4. PhaseOK' /\ ShownOK'
  BY DEF CallManager, applicationVars, Sound, PhaseOK, ShownOK
<1>5. WorkerOK'
  BY <1>1, <1>3 DEF workVars, Sound, WorkerOK
<1>6. CallbacksOK'
  <2>1. seen' \in [Thread -> Nat] /\ \A u \in Thread : seen'[u] <= writes'
    <3>1. seen' = [seen EXCEPT ![t] = IF phase = "visited" THEN writes ELSE @] /\ writes' = writes
      BY DEF CallManager, applicationVars
    <3>2. QED
      BY <3>1 DEF Sound, CallbacksOK, PhaseOK
  <2>2. entered' = entered /\ marks' = marks
    BY <1>1 DEF CallManager, markVars
  <2>3. ~entered[t]
    BY <1>1 DEF Idle, Sound, CallbacksOK
  <2>4. QED
    BY <1>3, <2>1, <2>2, <2>3 DEF Sound, CallbacksOK, Returned
<1>7. QED
  BY <1>2, <1>3, <1>4, <1>5, <1>6 DEF Sound

LEMMA SoundCheckPrepared ==
    ASSUME Sound, NEW t \in Thread, CheckPrepared(t)
    PROVE  Sound'
<1>1. PICK w \in seen[t] .. writes :
         /\ seen' = [seen EXCEPT ![t] = w]
         /\ \/ Prepared(w) /\ entered' = [entered EXCEPT ![t] = TRUE] /\ UNCHANGED vars
            \/ ~Prepared(w) /\ Announce(t) /\ UNCHANGED <<markVars, workVars, entered>>
  BY DEF CheckPrepared
<1>2. PhaseOK' /\ ShownOK' /\ writes' = writes
  BY DEF CheckPrepared, applicationVars, Sound, PhaseOK, ShownOK
<1>3. seen' \in [Thread -> Nat] /\ \A u \in Thread : seen'[u] <= writes'
  BY <1>1, <1>2 DEF Sound, CallbacksOK, PhaseOK
<1>4. /\ Returned(t) /\ ~entered[t] /\ notes[t] # <<>> /\ IsNews(Head(notes[t]))
  BY DEF CheckPrepared, IsNews
<1>5. CASE Prepared(w) /\ entered' = [entered EXCEPT ![t] = TRUE] /\ UNCHANGED vars
  <2>1. /\ UNCHANGED <<notes, marks, devices, reading, processingAvailability>>
        /\ UNCHANGED vars
    BY <1>5 DEF vars
  <2>2. TypeOK' /\ NamesRecords'
    BY <2>1, TypeStep, NamesStep DEF Sound
  <2>3. NewsIsLast' /\ WorkerOK'
    BY <2>1 DEF Sound, NewsIsLast, WorkerOK
  <2>4. entered' \in [Thread -> BOOLEAN] /\ \A u \in Thread \ {t} : entered'[u] = entered[u]
    BY <1>5 DEF Sound, CallbacksOK
  <2>5. CallbacksOK'
    BY <1>3, <1>4, <2>1, <2>4 DEF Sound, CallbacksOK, Returned
  <2>6. QED
    BY <1>2, <2>2, <2>3, <2>5 DEF Sound
<1>6. CASE ~Prepared(w) /\ Announce(t) /\ UNCHANGED <<markVars, workVars, entered>>
  <2>1. TypeOK' /\ NamesRecords'
    BY <1>6, UnheardAnnouncement DEF Sound
  <2>2. NewsIsLast' /\ \A u \in Thread \ {t} : notes'[u] = notes[u]
    BY <1>6, NewsOfAnnounce DEF Sound, TypeOK
  <2>3. WorkerOK'
    BY <1>6 DEF Announce, workVars, Sound, WorkerOK
  <2>4. CallbacksOK'
    BY <1>3, <1>4, <1>6, <2>2 DEF Sound, CallbacksOK, Returned, markVars
  <2>5. QED
    BY <1>2, <2>1, <2>2, <2>3, <2>4 DEF Sound
<1>7. QED
  BY <1>1, <1>5, <1>6

LEMMA SoundCallback ==
    ASSUME Sound, NEW t \in Thread, Callback(t)
    PROVE  Sound'
<1>1. Finishing(t) /\ Announce(t) /\ UNCHANGED workVars
  BY DEF Callback, Finishing, OnRemoteStateAccepted, OnRemoteStateAvailabilityChanged
<1>2. TypeOK' /\ NamesRecords'
  BY <1>1, TypeFinishing, NamesFinishing DEF Sound
<1>3. NewsIsLast' /\ \A u \in Thread \ {t} : notes'[u] = notes[u]
  BY <1>1, NewsOfAnnounce DEF Sound, TypeOK
<1>4. PhaseOK' /\ ShownOK' /\ UNCHANGED <<seen, writes>>
  BY DEF Callback, applicationVars, Sound, PhaseOK, ShownOK
<1>5. WorkerOK'
  BY <1>1 DEF Announce, workVars, Sound, WorkerOK
<1>6. CallbacksOK'
  <2>1. \A u \in Thread \ {t} : marks'[u] = marks[u]
    BY DEF Callback, OnRemoteStateAccepted, OnRemoteStateAvailabilityChanged, Sound, TypeOK
  <2>2. /\ entered' \in [Thread -> BOOLEAN] /\ ~entered'[t]
        /\ \A u \in Thread \ {t} : entered'[u] = entered[u]
    BY DEF Callback, Sound, CallbacksOK
  <2>3. QED
    BY <1>3, <1>4, <2>1, <2>2 DEF Sound, CallbacksOK, Returned
<1>7. QED
  BY <1>2, <1>3, <1>4, <1>5, <1>6 DEF Sound

LEMMA SoundFinishCall ==
    ASSUME Sound, NEW t \in Thread, FinishCall(t)
    PROVE  Sound' /\ ~entered[t]
<1>1. Finishing(t) /\ UNCHANGED <<workVars, devices>>
  BY DEF FinishCall, Finishing, MarkAllStatesDirty, OtherNotification, managerVars, Announce
<1>2. TypeOK' /\ NamesRecords'
  BY <1>1, TypeFinishing, NamesFinishing DEF Sound
<1>3. PhaseOK' /\ ShownOK' /\ UNCHANGED <<seen, entered, writes>>
  BY DEF FinishCall, callbackVars, applicationVars, Sound, PhaseOK, ShownOK
<1>4. WorkerOK'
  BY <1>1 DEF workVars, Sound, WorkerOK
<1>5. ~entered[t]
  <2>1. CASE MarkAllStatesDirty(t)
    BY <2>1 DEF MarkAllStatesDirty, Sound, CallbacksOK, Returned
  <2>2. CASE OtherNotification(t)
    BY <2>2 DEF OtherNotification, Sound, CallbacksOK, IsNews
  <2>3. QED
    BY <2>1, <2>2 DEF FinishCall
<1>6. NewsIsLast' /\ \A u \in Thread \ {t} : notes'[u] = notes[u] /\ marks'[u] = marks[u]
  <2>1. CASE MarkAllStatesDirty(t)
    BY <2>1 DEF MarkAllStatesDirty, managerVars, NewsIsLast, Sound, TypeOK
  <2>2. CASE OtherNotification(t)
    BY <2>2, NewsOfAnnounce DEF OtherNotification, markVars, Sound, TypeOK
  <2>3. QED
    BY <2>1, <2>2 DEF FinishCall
<1>7. CallbacksOK'
  BY <1>3, <1>5, <1>6 DEF Sound, CallbacksOK, Returned
<1>8. QED
  BY <1>2, <1>3, <1>4, <1>5, <1>6, <1>7 DEF Sound

(* What the application does by itself leaves the manager and the marks    *)
(* alone, except when it clears the bookkeeping.                           *)
LEMMA SoundApplication ==
    ASSUME Sound,
           Prepare \/ ShutdownObserverThread \/ ForEachDevice \/ VisitDeviceStates
    PROVE  Sound' /\ UNCHANGED <<vars, callbackVars>>
<1>1. UNCHANGED vars /\ UNCHANGED callbackVars
  BY DEF Prepare, ShutdownObserverThread, ForEachDevice, VisitDeviceStates
<1>2. TypeOK' /\ NamesRecords'
  BY <1>1, TypeStep, NamesStep DEF Sound
<1>3. NewsIsLast' /\ WorkerOK'
  BY <1>1 DEF vars, Sound, NewsIsLast, WorkerOK
<1>4. PhaseOK' /\ writes <= writes'
  <2>1. CASE Prepare
    BY <2>1 DEF Prepare, Prepared, Sound, PhaseOK
  <2>2. CASE ShutdownObserverThread
    BY <2>2 DEF ShutdownObserverThread, Prepared, Sound, PhaseOK
  <2>3. CASE ForEachDevice
    BY <2>3 DEF ForEachDevice, Prepared, Sound, PhaseOK
  <2>4. CASE VisitDeviceStates
    BY <2>4 DEF VisitDeviceStates, Prepared, Sound, PhaseOK
  <2>5. QED
    BY <2>1, <2>2, <2>3, <2>4
<1>5. CallbacksOK'
  <2>1. UNCHANGED <<seen, entered, notes, marks>>
    BY <1>1 DEF vars, callbackVars
  <2>2. \A t \in Thread : seen[t] <= writes'
    BY <1>4 DEF Sound, CallbacksOK, PhaseOK
  <2>3. QED
    BY <2>1, <2>2 DEF Sound, CallbacksOK, Returned
<1>6. ShownOK'
  <2>1. CASE Prepare \/ ShutdownObserverThread
    BY <2>1 DEF Prepare, ShutdownObserverThread, Sound, ShownOK
  <2>2. CASE ForEachDevice
    BY <2>2 DEF ForEachDevice, RemoteStates, Sound, ShownOK, TypeOK, ManagerTypeOK
  <2>3. CASE VisitDeviceStates
    <3>1. PICK m \in visit :
             /\ visit' = visit \ {m}
             /\ \/ \E x \in Visited(m) : shown' = [shown EXCEPT ![m[1]][m[2]] = Newest(@, x)]
                \/ UNCHANGED shown
      BY <2>3 DEF VisitDeviceStates
    <3>2. m[1] \in Device /\ m[2] \in Definition
      BY DEF Sound, ShownOK
    <3>3. \A x \in Visited(m) : x \in Slot
      BY <3>2 DEF Visited, Read, Sound, TypeOK, ManagerTypeOK
    <3>4. shown \in [Device -> [Definition -> Slot]]
      BY DEF Sound, ShownOK
    <3>5. \A x \in Visited(m) : Newest(shown[m[1]][m[2]], x) \in Slot
      BY <3>2, <3>3, <3>4 DEF Newest
    <3>6. shown' \in [Device -> [Definition -> Slot]]
      <4>1. CASE UNCHANGED shown
        BY <3>4, <4>1
      <4>2. ASSUME NEW x \in Visited(m),
                   shown' = [shown EXCEPT ![m[1]][m[2]] = Newest(@, x)]
            PROVE  shown' \in [Device -> [Definition -> Slot]]
        <5>1. shown' = [shown EXCEPT ![m[1]][m[2]] = Newest(shown[m[1]][m[2]], x)]
          BY <3>2, <3>4, <4>2
        <5>2. QED
          BY <3>2, <3>4, <3>5, <5>1, SlotsAreTyped
      <4>3. QED
        BY <3>1, <4>1, <4>2
    <3>7. QED
      BY <2>3, <3>1, <3>6 DEF VisitDeviceStates, Sound, ShownOK
  <2>4. QED
    BY <2>1, <2>2, <2>3
<1>7. QED
  BY <1>1, <1>2, <1>3, <1>4, <1>5, <1>6 DEF Sound

LEMMA SoundClear ==
    ASSUME Sound, ClearBookkeeping
    PROVE  Sound'
<1>1. /\ UNCHANGED <<devices, availability, slot, notes, marks, reading, told, seen, entered,
                     writes, visit, shown, known>>
      /\ dirtyStates' = {} /\ dirtyAvailability' = {} /\ deliveredDevices' = {}
      /\ delivered' = [d \in Device |-> [s \in Definition |-> EmptySlot]]
      /\ phase = "closing" /\ phase' = "closed"
  BY DEF ClearBookkeeping, managerVars, callbackVars
<1>2. /\ processingStates' \subseteq processingStates
      /\ \A x \in reading : x.mark \in processingStates'
      /\ processingAvailability' \subseteq processingAvailability
  BY DEF ClearBookkeeping, Sound, TypeOK
<1>3. TypeOK'
  <2>1. ManagerTypeOK'
    BY <1>1 DEF Sound, TypeOK, ManagerTypeOK
  <2>2. reading' \subseteq [mark : processingStates', state : Slot]
    BY <1>1, <1>2 DEF Sound, TypeOK
  <2>3. delivered' \in [Device -> [Definition -> Slot]]
    BY <1>1, EmptySlotIsTyped
  <2>4. QED
    BY <1>1, <1>2, <2>1, <2>2, <2>3 DEF Sound, TypeOK
<1>4. NamesRecords' /\ NewsIsLast' /\ WorkerOK'
  BY <1>1, <1>2 DEF Sound, NamesRecords, NewsIsLast, WorkerOK
<1>5. PhaseOK' /\ CallbacksOK' /\ ShownOK'
  BY <1>1 DEF Sound, PhaseOK, CallbacksOK, ShownOK, Returned
<1>6. QED
  BY <1>3, <1>4, <1>5 DEF Sound

LEMMA SoundWork ==
    ASSUME Sound, Work
    PROVE  Sound'
<1>1. Worker /\ UNCHANGED <<callbackVars, writes, phase, visit>>
  BY DEF Work
<1>2. TypeOK' /\ NamesRecords'
  BY <1>1, TypeWorker, NamesWorker DEF Sound
<1>3. UNCHANGED <<notes, marks, devices>>
  BY <1>1 DEF Worker, Drain, DeliverAvailability, ReadState, NotifyState, managerVars, markVars
<1>4. NewsIsLast' /\ PhaseOK' /\ CallbacksOK'
  BY <1>1, <1>3 DEF Sound, NewsIsLast, PhaseOK, CallbacksOK, Returned, callbackVars
<1>5. ShownOK'
  <2>1. \A x, y \in Slot : Newest(x, y) \in Slot
    BY DEF Newest
  <2>2. shown' \in [Device -> [Definition -> Slot]]
    BY <1>2, <2>1 DEF Work, Tells, Sound, ShownOK, TypeOK
  <2>3. known' \in [Device -> Availability]
    BY <1>2 DEF Work, Tells, Sound, ShownOK, TypeOK
  <2>4. QED
    BY <1>1, <2>2, <2>3 DEF Sound, ShownOK
<1>6. WorkerOK'
  <2>1. CASE Drain
    BY <1>3, <2>1 DEF Drain, Sound, WorkerOK, NamesRecords
  <2>2. CASE DeliverAvailability
    BY <1>3, <2>2 DEF DeliverAvailability, Sound, WorkerOK
  <2>3. CASE ReadState
    <3>1. PICK m \in processingStates :
             reading' = {[mark |-> m, state |-> x.state] :
                           x \in {y \in Read(m[1], m[2]) : y.state.hasValue}}
      BY <2>3 DEF ReadState
    <3>2. \A x, y \in Read(m[1], m[2]) : x = y
      BY DEF Read
    <3>3. \A x, y \in reading' : x = y
      BY <3>1, <3>2
    <3>4. QED
      BY <1>3, <2>3, <3>3 DEF ReadState, Sound, WorkerOK
  <2>4. CASE NotifyState
    BY <1>3, <2>4 DEF NotifyState, Sound, WorkerOK
  <2>5. QED
    BY <1>1, <2>1, <2>2, <2>3, <2>4 DEF Worker
<1>7. QED
  BY <1>2, <1>4, <1>5, <1>6 DEF Sound

LEMMA SoundUnchanged == Sound /\ UNCHANGED lifecycleVars => Sound'
<1> SUFFICES ASSUME Sound, UNCHANGED lifecycleVars PROVE Sound'
  OBVIOUS
<1>1. UNCHANGED vars /\ UNCHANGED <<callbackVars, applicationVars>>
  BY DEF lifecycleVars
<1>2. TypeOK' /\ NamesRecords'
  BY <1>1, TypeStep, NamesStep DEF Sound
<1>3. QED
  BY <1>1, <1>2 DEF vars, callbackVars, applicationVars, Sound, NewsIsLast, PhaseOK,
     CallbacksOK, ShownOK, WorkerOK, Returned

LEMMA SoundStep == Sound /\ [LifecycleNext]_lifecycleVars => Sound'
BY SoundCallManager, SoundCheckPrepared, SoundCallback, SoundFinishCall, SoundApplication,
   SoundClear, SoundWork, SoundUnchanged DEF LifecycleNext

LEMMA SoundAlways == LifecycleSpec => []Sound
BY SoundInit, SoundStep, PTL DEF LifecycleSpec

(* The marks keep fitting through any number of shutdowns: what            *)
(* ShutdownObserverThread() leaves and what late callbacks add never fill  *)
(* the bounded vectors of RemoteStateObserverThread.                       *)
THEOREM NoMarkIsDroppedEver == LifecycleSpec => []MarksFit
BY SoundAlways, NamesGiveRoom, PTL DEF Sound

(***************************************************************************)
(* Versions.  All that the worker and the application hold of a state is   *)
(* as old as what the manager has: an older version of it or the same.     *)
(***************************************************************************)
AsOld(x, y) == x.hasValue => y.hasValue /\ (Precedes(x, y) \/ x = y)

StateOK(d, s) ==
    /\ slot[d][s].hasValue => d \in devices
    /\ AsOld(shown[d][s], slot[d][s])
    /\ AsOld(delivered[d][s], slot[d][s])
    /\ delivered[d][s].hasValue =>
          shown[d][s].hasValue /\ ~Precedes(shown[d][s], delivered[d][s])

CopyOK(x, d, s) ==
    /\ x.hasValue
    /\ AsOld(x, slot[d][s])
    /\ AsOld(delivered[d][s], x)

VersionsOK ==
    /\ \A d \in Device, s \in Definition : StateOK(d, s)
    /\ \A x \in reading : CopyOK(x.state, x.mark[1], x.mark[2])

LEMMA AgesOfVersions ==
    ASSUME NEW x \in Slot, NEW y \in Slot
    PROVE  /\ AsOld(x, x)
           /\ \A z \in Slot : AsOld(x, y) /\ AsOld(y, z) => AsOld(x, z)
           /\ AsOld(x, y) /\ x.hasValue => ~Precedes(y, x)
           /\ AsOld(x, y) /\ y.hasValue => Newest(x, y) = y
           /\ AsOld(x, y) /\ x.hasValue => Newest(y, x) = y
           /\ y.hasValue => Newest(x, y).hasValue /\ ~Precedes(Newest(x, y), y)
           /\ \A z \in Slot : AsOld(x, z) /\ AsOld(y, z) => AsOld(Newest(x, y), z)
           /\ Newest(x, y) = x \/ Newest(x, y) = y
<1>1. /\ x.epoch \in Nat /\ x.revision \in Nat /\ y.epoch \in Nat /\ y.revision \in Nat
      /\ \A z \in Slot : z.epoch \in Nat /\ z.revision \in Nat
  BY DEF Slot
<1>2. \A z \in Slot : Precedes(x, y) /\ Precedes(y, z) => Precedes(x, z)
  BY <1>1 DEF Precedes
<1>3. ~Precedes(y, y) /\ (Precedes(x, y) => ~Precedes(y, x))
  BY <1>1 DEF Precedes
<1>4. Newest(x, y) = x \/ Newest(x, y) = y
  BY DEF Newest
<1>5. AsOld(x, y) /\ y.hasValue => Newest(x, y) = y
  BY <1>3 DEF AsOld, Newest
<1>6. y.hasValue => Newest(x, y).hasValue /\ ~Precedes(Newest(x, y), y)
  BY <1>3 DEF Newest
<1>7. AsOld(x, y) /\ x.hasValue => Newest(y, x) = y
  BY <1>3 DEF AsOld, Newest
<1>8. QED
  BY <1>2, <1>3, <1>4, <1>5, <1>6, <1>7, Zenon DEF AsOld

LEMMA CopiesAreTyped ==
    ASSUME TypeOK, NEW x \in reading
    PROVE  /\ x.state \in Slot /\ x.mark \in processingStates
           /\ x.mark[1] \in Device /\ x.mark[2] \in Definition
           /\ x.mark = <<x.mark[1], x.mark[2]>>
BY DEF TypeOK

(* The states that a notification makes its callback mark.                 *)
About(n, d, s) ==
    \/ n.kind = "accepted" /\ n.device = d /\ n.def = s /\ n.changed
    \/ n.kind = "availability" /\ n.device = d

(* What a call of the manager does: every slot keeps its version or gets a *)
(* newer one, and a new value is news.                                     *)
Stores(t, d, s) ==
    /\ slot'[d][s].hasValue => d \in devices' \/ slot[d][s].hasValue
    /\ AsOld(slot[d][s], slot'[d][s])
    /\ \/ slot'[d][s] = slot[d][s]
       \/ slot[d][s].hasValue /\ slot'[d][s].value = slot[d][s].value
       \/ \E n \in News(t)' : About(n, d, s)

LEMMA CallStores ==
    ASSUME Sound, NEW t \in Thread, CallManager(t)
    PROVE  /\ News(t) = {} /\ marks[t] = {} /\ devices \subseteq devices'
           /\ UNCHANGED <<markVars, workVars, entered, applicationVars>>
           /\ \A u \in Thread \ {t} : News(u)' = News(u) /\ seen'[u] = seen[u]
           /\ seen'[t] = IF phase = "visited" THEN writes ELSE seen[t]
           /\ \A d \in Device, s \in Definition : Stores(t, d, s)
<1>1. /\ UNCHANGED <<markVars, workVars, entered, applicationVars>> /\ marks[t] = {}
      /\ \A u \in Thread \ {t} : seen'[u] = seen[u]
      /\ seen'[t] = IF phase = "visited" THEN writes ELSE seen[t]
  BY DEF CallManager, CallApply, CallSetAvailability, Returned, Sound, CallbacksOK
<1>2. ManagerTypeOK /\ NewsIsLast
  BY DEF Sound, TypeOK
<1>3. ASSUME NEW d \in Device, NEW s \in Definition, NEW e \in Epoch, NEW r \in Revision,
             NEW v \in Value, CallApply(t, d, s, e, r, v)
      PROVE  /\ News(t) = {} /\ devices \subseteq devices'
             /\ \A u \in Thread \ {t} : News(u)' = News(u)
             /\ \A d2 \in Device, s2 \in Definition : Stores(t, d2, s2)
  <2> DEFINE new == [hasValue |-> TRUE, epoch |-> e, revision |-> r, value |-> v]
             old == slot[d][s]
  <2>1. PICK n : AppliesAs(t, d, s, e, r, v, n)
    BY <1>2, <1>3, ApplyIsACall DEF CallApply
  <2>2. CallOf(t, d, n, <<n>>)
    BY <2>1 DEF AppliesAs
  <2>3. /\ News(t) = {} /\ News(t)' = IF IsNews(n) THEN {n} ELSE {}
        /\ \A u \in Thread \ {t} : News(u)' = News(u)
    BY <1>2, <2>2, NewsOfCall
  <2>4. devices \subseteq devices'
    BY <2>2 DEF CallOf
  <2>5. slot \in [Device -> [Definition -> Slot]] /\ old \in Slot
    BY <1>2 DEF ManagerTypeOK
  <2>6. CASE slot' = slot
    <3>1. \A d2 \in Device, s2 \in Definition : Stores(t, d2, s2)
      BY <2>5, <2>6, AgesOfVersions DEF Stores
    <3>2. QED
      BY <2>3, <2>4, <3>1
  <2>7. CASE /\ Accepts(d, s, e, r)
             /\ slot' = [slot EXCEPT ![d][s] = new]
             /\ n = AcceptedNote(d, s, e, r, ValueChanges(d, s, v))
    <3>1. slot'[d][s] = new /\ new.hasValue /\ new.epoch = e /\ new.revision = r /\ new.value = v
      BY <2>5, <2>7
    <3>2. \A d2 \in Device, s2 \in Definition :
             d2 # d \/ s2 # s => slot'[d2][s2] = slot[d2][s2]
      BY <2>5, <2>7
    <3> HIDE DEF new, old
    <3>3. AsOld(old, new)
      <4>1. /\ old.epoch \in Nat /\ old.revision \in Nat /\ e \in Nat /\ r \in Nat
        BY <2>5, ManagerAssumption DEF Slot
      <4>2. ~(old.hasValue /\ NotNewer(e, r, old))
        BY <2>7 DEF Accepts, old
      <4>3. old.hasValue => Precedes(old, new)
        BY <3>1, <4>1, <4>2 DEF NotNewer, Precedes
      <4>4. QED
        BY <3>1, <4>3 DEF AsOld
    <3>4. \/ old.hasValue /\ new.value = old.value
          \/ \E m \in News(t)' : About(m, d, s)
      <4>1. CASE ValueChanges(d, s, v)
        <5>1. n = AcceptedNote(d, s, e, r, TRUE)
          BY <2>7, <4>1
        <5>2. n.kind = "accepted" /\ n.device = d /\ n.def = s /\ n.changed
          BY <5>1 DEF AcceptedNote
        <5>3. IsNews(n)
          BY <5>2 DEF IsNews
        <5>4. n \in News(t)'
          BY <2>3, <5>3
        <5>5. QED
          BY <5>2, <5>4 DEF About
      <4>2. CASE ~ValueChanges(d, s, v)
        BY <3>1, <4>2 DEF ValueChanges, old
      <4>3. QED
        BY <4>1, <4>2
    <3>5. d \in devices'
      BY <2>2, <2>7 DEF CallOf, Accepts, Creates
    <3>6. Stores(t, d, s)
      BY <3>1, <3>3, <3>4, <3>5 DEF Stores, old
    <3>7. ASSUME NEW d2 \in Device, NEW s2 \in Definition, d2 # d \/ s2 # s
          PROVE  Stores(t, d2, s2)
      <4>1. slot'[d2][s2] = slot[d2][s2] /\ slot[d2][s2] \in Slot
        BY <2>5, <3>2, <3>7
      <4>2. QED
        BY <4>1, AgesOfVersions DEF Stores
    <3>8. QED
      BY <2>3, <2>4, <3>6, <3>7
  <2>8. QED
    BY <2>1, <2>6, <2>7 DEF AppliesAs
<1>4. ASSUME NEW d \in Device, NEW a \in Reported, CallSetAvailability(t, d, a)
      PROVE  /\ News(t) = {} /\ devices \subseteq devices'
             /\ \A u \in Thread \ {t} : News(u)' = News(u)
             /\ \A d2 \in Device, s2 \in Definition : Stores(t, d2, s2)
  <2>1. PICK n, y : SetsAs(t, d, a, n, y)
    BY <1>2, <1>4, SetAvailabilityIsACall DEF CallSetAvailability
  <2>2. CallOf(t, d, n, y) /\ slot' = slot
    BY <2>1 DEF SetsAs
  <2>3. News(t) = {} /\ \A u \in Thread \ {t} : News(u)' = News(u)
    BY <1>2, <2>2, NewsOfCall
  <2>4. \A d2 \in Device, s2 \in Definition : Stores(t, d2, s2)
    BY <1>2, <2>2, AgesOfVersions DEF Stores, ManagerTypeOK
  <2>5. QED
    BY <2>2, <2>3, <2>4 DEF CallOf
<1>5. PICK d \in Device :
         \/ \E s \in Definition, e \in Epoch, r \in Revision, v \in Value :
               CallApply(t, d, s, e, r, v)
         \/ \E a \in Reported : CallSetAvailability(t, d, a)
  BY DEF CallManager
<1>6. QED
  BY <1>1, <1>3, <1>4, <1>5

(* What the worker does to copies and to what was shown: it reads one      *)
(* state that the manager has, it shows the copy it has, or neither.       *)
ReadsCopy ==
    /\ reading = {} /\ shown' = shown /\ delivered' = delivered
    /\ dirtyStates' = dirtyStates
    /\ \E m \in processingStates :
          \/ /\ slot[m[1]][m[2]].hasValue
             /\ reading' = {[mark |-> m, state |-> slot[m[1]][m[2]]]}
             /\ processingStates' = processingStates
          \/ /\ m[1] \notin devices \/ ~slot[m[1]][m[2]].hasValue
             /\ reading' = {} /\ processingStates' = processingStates \ {m}

ShowsCopy ==
    /\ dirtyStates' = dirtyStates /\ reading' = {}
    /\ \E x \in reading :
          /\ reading = {x}
          /\ processingStates' = processingStates \ {x.mark}
          /\ delivered' = [delivered EXCEPT ![x.mark[1]][x.mark[2]] = x.state]
          /\ shown' = [shown EXCEPT ![x.mark[1]][x.mark[2]] = Newest(@, x.state)]

MovesMarks ==
    /\ reading' = reading /\ shown' = shown /\ delivered' = delivered
    /\ \/ UNCHANGED <<dirtyStates, processingStates>>
       \/ /\ reading = {} /\ processingStates = {}
          /\ processingStates' = dirtyStates /\ dirtyStates' = {}

LEMMA WorkShows ==
    ASSUME Sound, VersionsOK, Work
    PROVE  /\ UNCHANGED <<managerVars, marks, seen, entered, writes, phase, visit>>
           /\ ReadsCopy \/ ShowsCopy \/ MovesMarks
<1>1. UNCHANGED <<managerVars, marks, seen, entered, writes, phase, visit>>
  BY DEF Work, callbackVars, Worker, Drain, DeliverAvailability, ReadState, NotifyState,
         markVars
<1>2. /\ shown \in [Device -> [Definition -> Slot]]
      /\ delivered \in [Device -> [Definition -> Slot]]
  BY DEF Sound, ShownOK, TypeOK
<1>3. delivered' = delivered => shown' = shown
  BY <1>2 DEF Work, Tells
<1>4. CASE Drain
  <2>1. reading = {}
    BY <1>4 DEF Drain, Sound, TypeOK
  <2>2. QED
    BY <1>1, <1>3, <1>4, <2>1 DEF Drain, MovesMarks
<1>5. CASE DeliverAvailability
  BY <1>1, <1>3, <1>5 DEF DeliverAvailability, MovesMarks, markVars
<1>6. CASE ReadState
  <2>1. PICK m \in processingStates :
           LET found == {x \in Read(m[1], m[2]) : x.state.hasValue}
           IN /\ reading' = {[mark |-> m, state |-> x.state] : x \in found}
              /\ processingStates' =
                    IF found = {} THEN processingStates \ {m} ELSE processingStates
    BY <1>6 DEF ReadState
  <2>2. m[1] \in Device /\ m[2] \in Definition
    BY DEF Sound, TypeOK
  <2> DEFINE y == slot[m[1]][m[2]]
             found == {x \in Read(m[1], m[2]) : x.state.hasValue}
  <2>3. y.hasValue => m[1] \in devices
    BY <2>2 DEF VersionsOK, StateOK
  <2>4. \A x \in Read(m[1], m[2]) : x.state = y /\ m[1] \in devices
    BY DEF Read
  <2>5. m[1] \in devices => \E x \in Read(m[1], m[2]) : x.state = y
    <3> DEFINE c == [state |-> y, availability |-> availability[m[1]]]
    <3>1. m[1] \in devices => c \in Read(m[1], m[2])
      BY DEF Read
    <3>2. c.state = y
      OBVIOUS
    <3>3. QED
      BY <3>1, <3>2
  <2>6. CASE y.hasValue
    <3>1. found # {} /\ \A x \in found : x.state = y
      BY <2>3, <2>4, <2>5, <2>6
    <3>2. reading' = {[mark |-> m, state |-> y]} /\ processingStates' = processingStates
      BY <2>1, <3>1
    <3>3. QED
      BY <1>1, <1>3, <1>6, <2>6, <3>2 DEF ReadsCopy, ReadState, markVars
  <2>7. CASE ~y.hasValue
    <3>1. found = {}
      BY <2>4, <2>7
    <3>2. reading' = {} /\ processingStates' = processingStates \ {m}
      BY <2>1, <3>1
    <3>3. QED
      BY <1>1, <1>3, <1>6, <2>7, <3>2 DEF ReadsCopy, ReadState, markVars
  <2>8. QED
    BY <2>6, <2>7
<1>7. CASE NotifyState
  <2>1. PICK x \in reading :
           /\ \/ delivered' = [delivered EXCEPT ![x.mark[1]][x.mark[2]] = x.state]
              \/ ~FindOrCreateDelivered(x.mark[1])
           /\ processingStates' = processingStates \ {x.mark}
    BY <1>7 DEF NotifyState
  <2> DEFINE d == x.mark[1]
             s == x.mark[2]
  <2>2. /\ x.state \in Slot /\ x.mark \in processingStates
        /\ d \in Device /\ s \in Definition
    BY CopiesAreTyped DEF Sound
  <2>3. MarksFit
    BY NamesGiveRoom DEF Sound
  <2>4. delivered' = [delivered EXCEPT ![d][s] = x.state]
    BY <2>1, <2>3 DEF MarksFit
  <2>5. reading = {x}
    BY DEF Sound, WorkerOK
  <2>6. CopyOK(x.state, d, s) /\ StateOK(d, s)
    BY <2>2 DEF VersionsOK
  <2>7. shown[d][s] \in Slot /\ delivered[d][s] \in Slot
    BY <1>2, <2>2
  <2> HIDE DEF d, s
  <2>8. delivered'[d][s] = x.state
    BY <1>2, <2>2, <2>4
  <2>9. shown'[d][s] = Newest(shown[d][s], x.state)
    <3>1. CASE x.state = delivered[d][s]
      <4>1. shown[d][s].hasValue /\ ~Precedes(shown[d][s], x.state)
        BY <2>6, <3>1 DEF CopyOK, StateOK
      <4>2. Newest(shown[d][s], x.state) = shown[d][s]
        BY <4>1 DEF Newest
      <4>3. QED
        BY <2>2, <2>8, <3>1, <4>2 DEF Work, Tells
    <3>2. CASE x.state # delivered[d][s]
      BY <2>2, <2>8, <3>2 DEF Work, Tells
    <3>3. QED
      BY <3>1, <3>2
  <2>10. \A d2 \in Device, s2 \in Definition : d2 # d \/ s2 # s =>
            delivered'[d2][s2] = delivered[d2][s2] /\ shown'[d2][s2] = shown[d2][s2]
    BY <1>2, <2>2, <2>4 DEF Work, Tells
  <2>11. shown' = [shown EXCEPT ![d][s] = Newest(@, x.state)]
    <3>1. shown' \in [Device -> [Definition -> Slot]]
      BY SoundWork DEF Sound, ShownOK
    <3>2. QED
      BY <1>2, <2>2, <2>9, <2>10, <3>1
  <2>12. QED
    BY <1>1, <1>7, <2>1, <2>4, <2>5, <2>11 DEF ShowsCopy, NotifyState, markVars, d, s
<1>8. QED
  BY <1>1, <1>4, <1>5, <1>6, <1>7 DEF Work, Worker

LEMMA VersionsInit == LifecycleInit => VersionsOK
BY DEF LifecycleInit, Init, ManagerInit, EmptySlot, VersionsOK, StateOK, AsOld

LEMMA VersionsUnchanged ==
    ASSUME VersionsOK, UNCHANGED <<devices, slot, delivered, reading, shown>>
    PROVE  VersionsOK'
BY DEF VersionsOK, StateOK, CopyOK

LEMMA VersionsCallManager ==
    ASSUME Sound, VersionsOK, NEW t \in Thread, CallManager(t)
    PROVE  VersionsOK'
<1>1. /\ devices \subseteq devices' /\ UNCHANGED <<delivered, reading, shown>>
      /\ \A d \in Device, s \in Definition : Stores(t, d, s)
  BY CallStores DEF workVars, applicationVars
<1>2. Sound'
  BY SoundCallManager
<1>3. ASSUME NEW d \in Device, NEW s \in Definition, NEW x \in Slot, AsOld(x, slot[d][s])
      PROVE  AsOld(x, slot'[d][s])
  <2>1. slot[d][s] \in Slot /\ slot'[d][s] \in Slot
    BY <1>2 DEF Sound, TypeOK, ManagerTypeOK
  <2>2. AsOld(slot[d][s], slot'[d][s])
    BY <1>1 DEF Stores
  <2>3. QED
    BY <1>3, <2>1, <2>2, AgesOfVersions
<1>4. ASSUME NEW d \in Device, NEW s \in Definition PROVE StateOK(d, s)'
  <2>1. shown[d][s] \in Slot /\ delivered[d][s] \in Slot
    BY DEF Sound, ShownOK, TypeOK
  <2>2. AsOld(shown[d][s], slot'[d][s]) /\ AsOld(delivered[d][s], slot'[d][s])
    BY <1>3, <2>1 DEF VersionsOK, StateOK
  <2>3. QED
    BY <1>1, <2>2 DEF VersionsOK, StateOK, Stores
<1>5. ASSUME NEW x \in reading PROVE CopyOK(x.state, x.mark[1], x.mark[2])'
  <2>1. x.state \in Slot /\ x.mark[1] \in Device /\ x.mark[2] \in Definition
    BY CopiesAreTyped DEF Sound
  <2>2. AsOld(x.state, slot'[x.mark[1]][x.mark[2]])
    BY <1>3, <2>1 DEF VersionsOK, CopyOK
  <2>3. QED
    BY <1>1, <2>2 DEF VersionsOK, CopyOK
<1>6. QED
  BY <1>1, <1>4, <1>5 DEF VersionsOK

LEMMA VersionsClear ==
    ASSUME Sound, VersionsOK, ClearBookkeeping
    PROVE  VersionsOK'
<1>1. UNCHANGED <<devices, slot, reading, shown>>
  BY DEF ClearBookkeeping, managerVars
<1>2. \A d \in Device, s \in Definition : ~delivered'[d][s].hasValue
  BY DEF ClearBookkeeping, EmptySlot
<1>3. \A x \in reading : x.mark[1] \in Device /\ x.mark[2] \in Definition
  BY CopiesAreTyped DEF Sound
<1>4. QED
  BY <1>1, <1>2, <1>3 DEF VersionsOK, StateOK, CopyOK, AsOld

(* Showing a version that the manager has, or had, of a state.             *)
LEMMA VersionsShow ==
    ASSUME Sound, VersionsOK, NEW d \in Device, NEW s \in Definition, NEW y \in Slot,
           y.hasValue, AsOld(y, slot[d][s]), UNCHANGED <<devices, slot>>,
           shown' = [shown EXCEPT ![d][s] = Newest(@, y)],
           \/ delivered' = delivered /\ reading' = reading
           \/ /\ delivered' = [delivered EXCEPT ![d][s] = y] /\ reading' = {}
    PROVE  VersionsOK'
<1>1. /\ shown \in [Device -> [Definition -> Slot]]
      /\ delivered \in [Device -> [Definition -> Slot]]
      /\ slot \in [Device -> [Definition -> Slot]]
  BY DEF Sound, ShownOK, TypeOK, ManagerTypeOK
<1>2. \A d2 \in Device, s2 \in Definition : d2 # d \/ s2 # s =>
         shown'[d2][s2] = shown[d2][s2] /\ delivered'[d2][s2] = delivered[d2][s2]
  BY <1>1
<1> DEFINE x == shown[d][s]
           z == slot[d][s]
           o == delivered[d][s]
<1>3. shown'[d][s] = Newest(x, y) /\ (delivered'[d][s] = o \/ delivered'[d][s] = y)
  BY <1>1
<1>4. x \in Slot /\ z \in Slot /\ o \in Slot /\ AsOld(x, z) /\ StateOK(d, s)
  BY <1>1 DEF VersionsOK, StateOK
<1> HIDE DEF x, z, o
<1>5. /\ AsOld(Newest(x, y), z) /\ Newest(x, y).hasValue /\ ~Precedes(Newest(x, y), y)
      /\ Newest(x, y) = x \/ Newest(x, y) = y
  BY <1>4, AgesOfVersions DEF z
<1>6. o.hasValue => ~Precedes(Newest(x, y), o)
  <2>1. ASSUME o.hasValue, Newest(x, y) = y, Newest(x, y) # x PROVE ~Precedes(y, o)
    <3>1. Precedes(x, y) /\ ~Precedes(x, o)
      BY <1>4, <2>1 DEF Newest, StateOK, x, o
    <3>2. QED
      BY <1>4, <3>1 DEF Precedes, Slot
  <2>2. QED
    BY <1>4, <1>5, <2>1 DEF StateOK, x, o
<1>7. StateOK(d, s)'
  <2>1. AsOld(delivered'[d][s], z)
    BY <1>3, <1>4 DEF StateOK, o, z
  <2>2. delivered'[d][s].hasValue =>
           shown'[d][s].hasValue /\ ~Precedes(shown'[d][s], delivered'[d][s])
    BY <1>3, <1>5, <1>6
  <2>3. QED
    BY <1>3, <1>4, <1>5, <2>1, <2>2 DEF StateOK, z
<1>8. \A d2 \in Device, s2 \in Definition : StateOK(d2, s2)'
  BY <1>2, <1>7 DEF VersionsOK, StateOK
<1>9. \A c \in reading' : CopyOK(c.state, c.mark[1], c.mark[2])'
  BY DEF VersionsOK, CopyOK
<1>10. QED
  BY <1>8, <1>9 DEF VersionsOK

LEMMA VersionsVisit ==
    ASSUME Sound, VersionsOK, VisitDeviceStates
    PROVE  VersionsOK'
<1>1. PICK m \in visit :
         \/ \E x \in Visited(m) : shown' = [shown EXCEPT ![m[1]][m[2]] = Newest(@, x)]
         \/ UNCHANGED shown
  BY DEF VisitDeviceStates
<1>2. UNCHANGED <<devices, slot, delivered, reading>>
  BY DEF VisitDeviceStates, vars
<1>3. m[1] \in Device /\ m[2] \in Definition
  BY DEF Sound, ShownOK
<1>4. slot[m[1]][m[2]] \in Slot
  BY <1>3 DEF Sound, TypeOK, ManagerTypeOK
<1>5. CASE UNCHANGED shown
  BY <1>2, <1>5, VersionsUnchanged
<1>6. ASSUME NEW x \in Visited(m), shown' = [shown EXCEPT ![m[1]][m[2]] = Newest(@, x)]
      PROVE  VersionsOK'
  <2>1. x = slot[m[1]][m[2]] /\ x.hasValue
    BY <1>6 DEF Visited, Read
  <2>2. AsOld(x, slot[m[1]][m[2]])
    BY <1>4, <2>1, AgesOfVersions
  <2>3. QED
    BY <1>2, <1>3, <1>4, <1>6, <2>1, <2>2, VersionsShow
<1>7. QED
  BY <1>1, <1>5, <1>6

LEMMA VersionsWork ==
    ASSUME Sound, VersionsOK, Work
    PROVE  VersionsOK'
<1>1. UNCHANGED <<devices, slot>> /\ (ReadsCopy \/ ShowsCopy \/ MovesMarks)
  BY WorkShows DEF managerVars
<1>2. CASE MovesMarks
  BY <1>1, <1>2, VersionsUnchanged DEF MovesMarks
<1>3. CASE ReadsCopy
  <2>1. \A d \in Device, s \in Definition : StateOK(d, s)'
    BY <1>1, <1>3 DEF ReadsCopy, VersionsOK, StateOK
  <2>2. ASSUME NEW x \in reading' PROVE CopyOK(x.state, x.mark[1], x.mark[2])'
    <3>1. PICK m \in processingStates :
             /\ slot[m[1]][m[2]].hasValue
             /\ reading' = {[mark |-> m, state |-> slot[m[1]][m[2]]]}
      BY <1>3 DEF ReadsCopy
    <3>2. x.mark = m /\ x.state = slot[m[1]][m[2]]
      BY <3>1
    <3>3. m[1] \in Device /\ m[2] \in Definition
      BY DEF Sound, TypeOK
    <3>4. slot[m[1]][m[2]] \in Slot
      BY <3>3 DEF Sound, TypeOK, ManagerTypeOK
    <3>5. AsOld(x.state, slot[m[1]][m[2]])
      BY <3>2, <3>4, AgesOfVersions
    <3>6. AsOld(delivered[m[1]][m[2]], x.state)
      BY <3>2, <3>3 DEF VersionsOK, StateOK
    <3>7. QED
      BY <1>1, <1>3, <3>1, <3>2, <3>5, <3>6 DEF CopyOK, ReadsCopy
  <2>3. QED
    BY <2>1, <2>2 DEF VersionsOK
<1>4. CASE ShowsCopy
  <2>1. PICK x \in reading :
           /\ delivered' = [delivered EXCEPT ![x.mark[1]][x.mark[2]] = x.state]
           /\ shown' = [shown EXCEPT ![x.mark[1]][x.mark[2]] = Newest(@, x.state)]
    BY <1>4 DEF ShowsCopy
  <2>2. x.state \in Slot /\ x.mark[1] \in Device /\ x.mark[2] \in Definition
    BY CopiesAreTyped DEF Sound
  <2>3. x.state.hasValue /\ AsOld(x.state, slot[x.mark[1]][x.mark[2]])
    BY DEF VersionsOK, CopyOK
  <2>4. QED
    BY <1>1, <1>4, <2>1, <2>2, <2>3, VersionsShow DEF ShowsCopy
<1>5. QED
  BY <1>1, <1>2, <1>3, <1>4

LEMMA VersionsStep == Sound /\ VersionsOK /\ [LifecycleNext]_lifecycleVars => VersionsOK'
<1> SUFFICES ASSUME Sound, VersionsOK, [LifecycleNext]_lifecycleVars PROVE VersionsOK'
  OBVIOUS
<1>1. ASSUME NEW t \in Thread, CheckPrepared(t) \/ Callback(t) \/ FinishCall(t)
      PROVE  VersionsOK'
  <2>1. UNCHANGED <<devices, slot, delivered, reading, shown>>
    BY <1>1 DEF CheckPrepared, Callback, FinishCall, OnRemoteStateAccepted, vars,
       OnRemoteStateAvailabilityChanged, MarkAllStatesDirty, OtherNotification, Announce,
       managerVars, workVars, applicationVars
  <2>2. QED
    BY <2>1, VersionsUnchanged
<1>2. CASE Prepare \/ ShutdownObserverThread \/ ForEachDevice \/ UNCHANGED lifecycleVars
  <2>1. UNCHANGED <<devices, slot, delivered, reading, shown>>
    BY <1>2 DEF Prepare, ShutdownObserverThread, ForEachDevice, lifecycleVars, vars,
       applicationVars
  <2>2. QED
    BY <2>1, VersionsUnchanged
<1>3. QED
  BY <1>1, <1>2, VersionsCallManager, VersionsClear, VersionsVisit, VersionsWork
     DEF LifecycleNext

LEMMA VersionsAlways == LifecycleSpec => [](Sound /\ VersionsOK)
BY SoundInit, SoundStep, VersionsInit, VersionsStep, PTL DEF LifecycleSpec

(* While the worker lives it never tells an observer an older version of a *)
(* state than before: NotifyState() delivers the snapshot it read after    *)
(* the last one was delivered.                                             *)
THEOREM DeliveredNeverGoesBack == LifecycleSpec => DeliveredAdvances
<1> DEFINE Goes(d, s) ==
             delivered[d][s].hasValue /\ delivered'[d][s].hasValue =>
                ~Precedes(delivered'[d][s], delivered[d][s])
           Advances == \A d \in Device, s \in Definition : Goes(d, s)
<1>1. Sound /\ VersionsOK /\ [LifecycleNext]_lifecycleVars => [Advances]_lifecycleVars
  <2> SUFFICES ASSUME Sound, VersionsOK, LifecycleNext,
                      NEW d \in Device, NEW s \in Definition
               PROVE  Goes(d, s)
    OBVIOUS
  <2>1. delivered[d][s] \in Slot /\ ~Precedes(delivered[d][s], delivered[d][s])
    BY DEF Sound, TypeOK, Precedes, Slot
  <2>2. ASSUME UNCHANGED delivered PROVE Goes(d, s)
    BY <2>1, <2>2
  <2>3. CASE Work
    <3>1. CASE ReadsCopy \/ MovesMarks
      BY <2>2, <3>1 DEF ReadsCopy, MovesMarks
    <3>2. CASE ShowsCopy
      <4>1. PICK x \in reading :
               delivered' = [delivered EXCEPT ![x.mark[1]][x.mark[2]] = x.state]
        BY <3>2 DEF ShowsCopy
      <4>2. CopyOK(x.state, x.mark[1], x.mark[2]) /\ x.state \in Slot
        BY CopiesAreTyped DEF VersionsOK, Sound
      <4>3. CASE x.mark[1] = d /\ x.mark[2] = s
        <5>1. delivered'[d][s] = x.state /\ AsOld(delivered[d][s], x.state)
          BY <4>1, <4>2, <4>3 DEF CopyOK, Sound, TypeOK
        <5>2. QED
          BY <2>1, <4>2, <5>1, AgesOfVersions
      <4>4. CASE ~(x.mark[1] = d /\ x.mark[2] = s)
        <5>1. delivered'[d][s] = delivered[d][s]
          BY <4>1, <4>4 DEF Sound, TypeOK
        <5>2. QED
          BY <2>1, <5>1
      <4>5. QED
        BY <4>3, <4>4
    <3>3. QED
      BY <2>3, <3>1, <3>2, WorkShows
  <2>4. CASE ClearBookkeeping
    BY <2>4 DEF ClearBookkeeping, EmptySlot
  <2>5. CASE \E t \in Thread :
                CallManager(t) \/ CheckPrepared(t) \/ Callback(t) \/ FinishCall(t)
    <3>1. UNCHANGED delivered
      BY <2>5, CallStores
         DEF CheckPrepared, Callback, FinishCall, OnRemoteStateAccepted, vars, workVars,
             OnRemoteStateAvailabilityChanged, MarkAllStatesDirty, OtherNotification
    <3>2. QED
      BY <2>2, <3>1
  <2>6. CASE Prepare \/ ShutdownObserverThread \/ ForEachDevice \/ VisitDeviceStates
    BY <2>2, <2>6 DEF Prepare, ShutdownObserverThread, ForEachDevice, VisitDeviceStates, vars
  <2>7. QED
    BY <2>3, <2>4, <2>5, <2>6 DEF LifecycleNext
<1>2. QED
  BY <1>1, VersionsAlways, PTL DEF LifecycleSpec, DeliveredAdvances

(***************************************************************************)
(* Nothing is missed.  Once the application has begun its visit, a value   *)
(* that the manager has was shown, is still to be visited, or is on its    *)
(* way: a thread whose callback will not be turned away announces or marks *)
(* it, it is marked, or the worker deals with it.  A thread is turned away *)
(* at most when it last looked at _prepared before Prepare() set it.       *)
(***************************************************************************)
Welcome(t) == entered[t] \/ seen[t] = writes

Coming(t, d, s) ==
    \/ <<d, s>> \in marks[t]
    \/ Welcome(t) /\ \E n \in News(t) : About(n, d, s)

ShowsValue(x, y) == x.hasValue /\ x.value = y.value

Accounted(d, s) ==
    \/ ~slot[d][s].hasValue
    \/ ShowsValue(shown[d][s], slot[d][s]) /\ \A x \in reading : x.mark # <<d, s>>
    \/ <<d, s>> \in visit
    \/ \E t \in Thread : Coming(t, d, s)
    \/ <<d, s>> \in dirtyStates
    \/ <<d, s>> \in processingStates /\ \A x \in reading : x.mark # <<d, s>>
    \/ \E x \in reading :
          x.mark = <<d, s>> /\ ShowsValue(Newest(shown[d][s], x.state), slot[d][s])

NothingMissed ==
    phase = "visited" => \A d \in Device, s \in Definition : Accounted(d, s)

LEMMA AccountedKept ==
    ASSUME NEW d \in Device, NEW s \in Definition, Accounted(d, s),
           slot'[d][s].hasValue =>
              slot[d][s].hasValue /\ slot'[d][s].value = slot[d][s].value,
           UNCHANGED <<visit, processingStates, reading>>, shown'[d][s] = shown[d][s],
           dirtyStates \subseteq dirtyStates',
           \A t \in Thread : Coming(t, d, s) =>
              Coming(t, d, s)' \/ <<d, s>> \in dirtyStates'
    PROVE  Accounted(d, s)'
<1>1. CASE ~slot'[d][s].hasValue
  BY <1>1 DEF Accounted
<1>2. CASE slot'[d][s].hasValue
  <2>1. slot[d][s].hasValue /\ slot'[d][s].value = slot[d][s].value
    BY <1>2
  <2>2. \A x : ShowsValue(x, slot[d][s]) => ShowsValue(x, slot'[d][s])
    BY <2>1 DEF ShowsValue
  <2>3. CASE \E t \in Thread : Coming(t, d, s)
    BY <2>3 DEF Accounted
  <2>4. CASE ~\E t \in Thread : Coming(t, d, s)
    BY <2>1, <2>2, <2>4 DEF Accounted, ShowsValue
  <2>5. QED
    BY <2>3, <2>4
<1>3. QED
  BY <1>1, <1>2

LEMMA MissedCallManager ==
    ASSUME Sound, NothingMissed, NEW t \in Thread, CallManager(t)
    PROVE  NothingMissed'
<1>1. /\ News(t) = {} /\ marks[t] = {}
      /\ UNCHANGED <<markVars, workVars, entered, applicationVars>>
      /\ \A u \in Thread \ {t} : News(u)' = News(u) /\ seen'[u] = seen[u]
      /\ seen'[t] = IF phase = "visited" THEN writes ELSE seen[t]
      /\ \A d \in Device, s \in Definition : Stores(t, d, s)
  BY CallStores
<1>2. /\ UNCHANGED <<marks, dirtyStates, processingStates, reading, visit, shown, phase, writes>>
  BY <1>1 DEF markVars, workVars, applicationVars
<1>3. SUFFICES ASSUME phase = "visited", NEW d \in Device, NEW s \in Definition
               PROVE  Accounted(d, s)'
  BY <1>2 DEF NothingMissed
<1>4. Accounted(d, s) /\ Stores(t, d, s)
  BY <1>1, <1>3 DEF NothingMissed
<1>5. CASE \E n \in News(t)' : About(n, d, s)
  <2>1. seen'[t] = writes'
    BY <1>1, <1>2, <1>3
  <2>2. Coming(t, d, s)'
    BY <1>5, <2>1 DEF Coming, Welcome
  <2>3. QED
    BY <2>2 DEF Accounted
<1>6. CASE \A n \in News(t)' : ~About(n, d, s)
  <2>1. slot'[d][s].hasValue =>
           slot[d][s].hasValue /\ slot'[d][s].value = slot[d][s].value
    BY <1>4, <1>6 DEF Stores
  <2>2. ~Coming(t, d, s)
    BY <1>1 DEF Coming
  <2>3. ASSUME NEW u \in Thread, Coming(u, d, s) PROVE Coming(u, d, s)'
    BY <1>1, <1>2, <2>2, <2>3 DEF Coming, Welcome
  <2>4. QED
    BY <1>2, <1>4, <2>1, <2>3, AccountedKept
<1>7. QED
  BY <1>5, <1>6

LEMMA MissedCheckPrepared ==
    ASSUME Sound, NothingMissed, NEW t \in Thread, CheckPrepared(t)
    PROVE  NothingMissed'
<1>1. PICK w \in seen[t] .. writes :
         /\ seen' = [seen EXCEPT ![t] = w]
         /\ \/ Prepared(w) /\ entered' = [entered EXCEPT ![t] = TRUE] /\ UNCHANGED vars
            \/ ~Prepared(w) /\ Announce(t) /\ UNCHANGED <<markVars, workVars, entered>>
  BY DEF CheckPrepared
<1>2. /\ UNCHANGED <<visit, shown, phase, writes>> /\ Returned(t) /\ ~entered[t]
      /\ UNCHANGED <<slot, marks, dirtyStates, processingStates, reading>>
  BY <1>1 DEF CheckPrepared, applicationVars, vars, markVars, workVars, Announce
<1>3. \A u \in Thread \ {t} : seen'[u] = seen[u]
  BY <1>1 DEF Sound, CallbacksOK
<1>4. SUFFICES ASSUME phase = "visited", NEW d \in Device, NEW s \in Definition
               PROVE  Accounted(d, s)'
  BY <1>2 DEF NothingMissed
<1>5. Accounted(d, s) /\ Prepared(writes)
  BY <1>4 DEF NothingMissed, Sound, PhaseOK
<1>6. \A u \in Thread : Coming(u, d, s) => Coming(u, d, s)'
  <2>1. CASE Prepared(w) /\ entered' = [entered EXCEPT ![t] = TRUE] /\ UNCHANGED vars
    <3>1. UNCHANGED notes
      BY <2>1 DEF vars
    <3>2. entered'[t] /\ \A u \in Thread \ {t} : entered'[u] = entered[u]
      BY <2>1 DEF Sound, CallbacksOK
    <3>3. \A u \in Thread : News(u)' = News(u)
      BY <3>1 DEF News
    <3>4. QED
      BY <1>2, <1>3, <3>2, <3>3 DEF Coming, Welcome
  <2>2. CASE ~Prepared(w) /\ Announce(t) /\ UNCHANGED <<markVars, workVars, entered>>
    <3>1. seen[t] # writes
      BY <1>5, <2>2 DEF Sound, CallbacksOK, PhaseOK
    <3>2. ~Coming(t, d, s)
      BY <1>2, <3>1 DEF Coming, Welcome, Returned
    <3>3. \A u \in Thread \ {t} : News(u)' = News(u)
      BY <2>2, NewsOfAnnounce DEF Sound, TypeOK
    <3>4. QED
      BY <1>2, <1>3, <2>2, <3>2, <3>3 DEF Coming, Welcome
  <2>3. QED
    BY <1>1, <2>1, <2>2
<1>7. QED
  BY <1>2, <1>5, <1>6, AccountedKept

(* A state that a thread is about to mark is marked when it is.            *)
LEMMA MarkingMarks ==
    ASSUME Sound, NEW t \in Thread, NEW d \in Device, NEW s \in Definition,
           <<d, s>> \in marks[t] \/ \E n \in News(t) : About(n, d, s)
    PROVE  <<d, s>> \in MarkStateDirty(d, s)
<1>1. Announcing(t, d, s)
  BY DEF News, Due, About, Announcing
<1>2. MarksFit
  BY NamesGiveRoom DEF Sound
<1>3. QED
  BY <1>1, <1>2 DEF MarksFit, MarkStateDirty

LEMMA MissedCallback ==
    ASSUME Sound, NothingMissed, NEW t \in Thread, Callback(t)
    PROVE  NothingMissed'
<1> DEFINE n == Head(notes[t])
<1>1. /\ UNCHANGED <<seen, visit, shown, phase, writes>> /\ entered[t]
      /\ UNCHANGED <<slot, processingStates, reading>> /\ Announce(t)
      /\ dirtyStates \subseteq dirtyStates'
      /\ Returned(t) /\ IsNews(n)
  BY DEF Callback, applicationVars, workVars, OnRemoteStateAccepted, MarkStateDirty,
         OnRemoteStateAvailabilityChanged, Announce, Sound, CallbacksOK
<1>2. \A u \in Thread \ {t} : /\ entered'[u] = entered[u] /\ marks'[u] = marks[u]
                              /\ News(u)' = News(u)
  <2>1. \A u \in Thread \ {t} : News(u)' = News(u)
    BY <1>1, NewsOfAnnounce DEF Sound, TypeOK
  <2>2. \A u \in Thread \ {t} : entered'[u] = entered[u] /\ marks'[u] = marks[u]
    BY DEF Callback, OnRemoteStateAccepted, OnRemoteStateAvailabilityChanged, Sound,
       CallbacksOK, TypeOK
  <2>3. QED
    BY <2>1, <2>2
<1>3. SUFFICES ASSUME phase = "visited", NEW d \in Device, NEW s \in Definition
               PROVE  Accounted(d, s)'
  BY <1>1 DEF NothingMissed
<1>4. Accounted(d, s)
  BY <1>3 DEF NothingMissed
<1>5. News(t) = {n}
  BY <1>1, NewsOfAnnounce DEF Sound, TypeOK
<1>6. ASSUME Coming(t, d, s) PROVE Coming(t, d, s)' \/ <<d, s>> \in dirtyStates'
  <2>1. About(n, d, s) /\ n \in News(t)
    BY <1>1, <1>5, <1>6 DEF Coming, Returned
  <2>2. CASE OnRemoteStateAccepted(t)
    <3>1. /\ n.kind = "accepted"
          /\ dirtyStates' = IF n.changed THEN MarkStateDirty(n.device, n.def) ELSE dirtyStates
      BY <2>2 DEF OnRemoteStateAccepted
    <3>2. n.changed /\ n.device = d /\ n.def = s
      BY <2>1, <3>1 DEF About
    <3>3. QED
      BY <2>1, <3>1, <3>2, MarkingMarks
  <2>3. CASE OnRemoteStateAvailabilityChanged(t)
    <3>1. /\ n.kind = "availability"
          /\ marks' = [marks EXCEPT ![t] = {<<n.device, x>> : x \in Definition}]
      BY <2>3 DEF OnRemoteStateAvailabilityChanged
    <3>2. n.device = d
      BY <2>1, <3>1 DEF About
    <3>3. <<d, s>> \in marks'[t]
      BY <3>1, <3>2 DEF Sound, TypeOK
    <3>4. QED
      BY <3>3 DEF Coming
  <2>4. QED
    BY <2>2, <2>3 DEF Callback
<1>7. ASSUME NEW u \in Thread, u # t, Coming(u, d, s) PROVE Coming(u, d, s)'
  BY <1>1, <1>2, <1>7 DEF Coming, Welcome
<1>8. QED
  BY <1>1, <1>4, <1>6, <1>7, AccountedKept

LEMMA MissedFinishCall ==
    ASSUME Sound, NothingMissed, NEW t \in Thread, FinishCall(t)
    PROVE  NothingMissed'
<1>1. /\ UNCHANGED <<seen, entered, visit, shown, phase, writes>>
      /\ UNCHANGED <<slot, processingStates, reading>>
      /\ dirtyStates \subseteq dirtyStates'
  BY DEF FinishCall, callbackVars, applicationVars, workVars, markVars, managerVars,
         MarkAllStatesDirty, OtherNotification, Announce, MarkStateDirty
<1>2. SUFFICES ASSUME phase = "visited", NEW d \in Device, NEW s \in Definition
               PROVE  Accounted(d, s)'
  BY <1>1 DEF NothingMissed
<1>3. Accounted(d, s)
  BY <1>2 DEF NothingMissed
<1>4. \A u \in Thread : Coming(u, d, s) => Coming(u, d, s)' \/ <<d, s>> \in dirtyStates'
  <2>1. CASE MarkAllStatesDirty(t)
    <3>1. PICK m \in marks[t] : /\ dirtyStates' = MarkStateDirty(m[1], m[2])
                                /\ marks' = [marks EXCEPT ![t] = @ \ {m}]
      BY <2>1 DEF MarkAllStatesDirty
    <3>2. UNCHANGED notes
      BY <2>1 DEF MarkAllStatesDirty, managerVars
    <3>3. \A u \in Thread : News(u)' = News(u)
      BY <3>2 DEF News
    <3>4. \A u \in Thread : <<d, s>> \in marks[u] => <<d, s>> \in marks'[u] \/ m = <<d, s>>
      BY <3>1 DEF Sound, TypeOK
    <3>5. m = <<d, s>> => <<d, s>> \in dirtyStates'
      BY <3>1, MarkingMarks
    <3>6. QED
      BY <1>1, <3>3, <3>4, <3>5 DEF Coming, Welcome
  <2>2. CASE OtherNotification(t)
    <3>1. Announce(t) /\ UNCHANGED marks /\ ~IsNews(Head(notes[t]))
      BY <2>2 DEF OtherNotification, markVars, IsNews
    <3>2. \A u \in Thread : News(u)' = News(u)
      BY <3>1, NewsOfAnnounce DEF Sound, TypeOK
    <3>3. QED
      BY <1>1, <3>1, <3>2 DEF Coming, Welcome
  <2>3. QED
    BY <2>1, <2>2 DEF FinishCall
<1>5. QED
  BY <1>1, <1>3, <1>4, AccountedKept

LEMMA MissedVisit ==
    ASSUME Sound, VersionsOK, NothingMissed, ForEachDevice \/ VisitDeviceStates
    PROVE  NothingMissed'
<1>1. UNCHANGED vars /\ UNCHANGED <<seen, entered, writes>>
  BY DEF ForEachDevice, VisitDeviceStates, callbackVars
<1>2. UNCHANGED <<slot, notes, marks, dirtyStates, processingStates, reading>>
  BY <1>1 DEF vars
<1>3. \A t \in Thread, d \in Device, s \in Definition : Coming(t, d, s) => Coming(t, d, s)'
  BY <1>1, <1>2 DEF Coming, Welcome, News
<1>4. CASE ForEachDevice
  <2>1. \A d \in Device, s \in Definition : slot[d][s].hasValue => <<d, s>> \in visit'
    BY <1>4 DEF ForEachDevice, RemoteStates, VersionsOK, StateOK
  <2>2. QED
    BY <1>2, <2>1 DEF NothingMissed, Accounted
<1>5. CASE VisitDeviceStates
  <2>1. PICK m \in visit :
           /\ visit' = visit \ {m}
           /\ \/ \E x \in Visited(m) : shown' = [shown EXCEPT ![m[1]][m[2]] = Newest(@, x)]
              \/ Visited(m) = {} /\ UNCHANGED shown
    BY <1>5 DEF VisitDeviceStates
  <2>2. SUFFICES ASSUME phase = "visited", NEW d \in Device, NEW s \in Definition
                 PROVE  Accounted(d, s)'
    BY <1>5 DEF NothingMissed, VisitDeviceStates
  <2>3. Accounted(d, s) /\ m \in Device \X Definition
    BY <2>2 DEF NothingMissed, Sound, ShownOK
  <2>4. /\ slot[d][s] \in Slot /\ shown[d][s] \in Slot /\ StateOK(d, s)
        /\ shown \in [Device -> [Definition -> Slot]]
    BY DEF Sound, TypeOK, ManagerTypeOK, ShownOK, VersionsOK
  <2>5. CASE m = <<d, s>>
    <3>1. CASE ~slot[d][s].hasValue
      BY <1>2, <3>1 DEF Accounted
    <3>2. CASE slot[d][s].hasValue
      <4>1. d \in devices
        BY <2>4, <3>2 DEF StateOK
      <4>2. [state |-> slot[d][s], availability |-> availability[d]] \in Read(d, s)
        BY <4>1 DEF Read
      <4>3. [state |-> slot[d][s], availability |-> availability[d]].state = slot[d][s]
        OBVIOUS
      <4>4. slot[d][s] \in Visited(m)
        BY <2>5, <3>2, <4>2, <4>3 DEF Visited
      <4>5. \A x \in Visited(m) : x = slot[d][s]
        BY <2>5 DEF Visited, Read
      <4>6. shown'[d][s] = Newest(shown[d][s], slot[d][s])
        BY <2>1, <2>4, <2>5, <4>4, <4>5
      <4>7. Newest(shown[d][s], slot[d][s]) = slot[d][s]
        BY <2>4, <3>2, AgesOfVersions DEF StateOK
      <4>8. ShowsValue(slot[d][s], slot[d][s])
        BY <3>2 DEF ShowsValue
      <4>9. ASSUME NEW x \in reading, x.mark = <<d, s>>
            PROVE  Newest(slot[d][s], x.state) = slot[d][s]
        <5>1. x.state \in Slot /\ CopyOK(x.state, d, s)
          BY <4>9, CopiesAreTyped DEF Sound, VersionsOK
        <5>2. QED
          BY <2>4, <5>1, AgesOfVersions DEF CopyOK
      <4>10. QED
        BY <1>2, <4>6, <4>7, <4>8, <4>9 DEF Accounted
    <3>3. QED
      BY <3>1, <3>2
  <2>6. CASE m # <<d, s>>
    <3>1. shown'[d][s] = shown[d][s]
      BY <2>1, <2>3, <2>4, <2>6
    <3>2. <<d, s>> \in visit => <<d, s>> \in visit'
      BY <2>1, <2>6
    <3>3. QED
      BY <1>2, <1>3, <2>3, <3>1, <3>2 DEF Accounted
  <2>7. QED
    BY <2>5, <2>6
<1>6. QED
  BY <1>4, <1>5

LEMMA MissedWork ==
    ASSUME Sound, VersionsOK, NothingMissed, Work
    PROVE  NothingMissed'
<1>1. /\ UNCHANGED <<slot, devices, notes, marks, seen, entered, writes, phase, visit>>
      /\ ReadsCopy \/ ShowsCopy \/ MovesMarks
  BY WorkShows DEF managerVars
<1>2. \A t \in Thread, d \in Device, s \in Definition : Coming(t, d, s) => Coming(t, d, s)'
  BY <1>1 DEF Coming, Welcome, News
<1>3. SUFFICES ASSUME phase = "visited", NEW d \in Device, NEW s \in Definition
               PROVE  Accounted(d, s)'
  BY <1>1 DEF NothingMissed
<1>4. Accounted(d, s)
  BY <1>3 DEF NothingMissed
<1>5. /\ slot[d][s] \in Slot /\ shown[d][s] \in Slot /\ StateOK(d, s)
      /\ shown \in [Device -> [Definition -> Slot]]
  BY DEF Sound, TypeOK, ManagerTypeOK, ShownOK, VersionsOK
<1>6. \A x \in reading : x.mark \in processingStates
  BY CopiesAreTyped DEF Sound
<1>7. CASE MovesMarks
  <2>1. /\ reading' = reading /\ shown' = shown
        /\ \/ UNCHANGED <<dirtyStates, processingStates>>
           \/ reading = {} /\ processingStates = {} /\ processingStates' = dirtyStates
    BY <1>7 DEF MovesMarks
  <2>2. QED
    BY <1>1, <1>2, <1>4, <2>1 DEF Accounted
<1>8. CASE ReadsCopy
  <2>1. /\ reading = {} /\ UNCHANGED <<shown, dirtyStates>>
    BY <1>8 DEF ReadsCopy
  <2>2. PICK m \in processingStates :
          \/ /\ slot[m[1]][m[2]].hasValue
             /\ reading' = {[mark |-> m, state |-> slot[m[1]][m[2]]]}
             /\ processingStates' = processingStates
          \/ /\ m[1] \notin devices \/ ~slot[m[1]][m[2]].hasValue
             /\ reading' = {} /\ processingStates' = processingStates \ {m}
    BY <1>8 DEF ReadsCopy
  <2>3. m \in Device \X Definition
    BY DEF Sound, TypeOK
  <2>4. CASE m # <<d, s>> \/ ~slot[d][s].hasValue
    <3>1. \A x \in reading' : x.mark = m
      BY <2>2
    <3>2. CASE ~slot[d][s].hasValue
      BY <1>1, <3>2 DEF Accounted
    <3>3. CASE m # <<d, s>>
      <4>1. <<d, s>> \in processingStates => <<d, s>> \in processingStates'
        BY <2>2, <3>3
      <4>2. QED
        BY <1>1, <1>2, <1>4, <2>1, <3>1, <3>3, <4>1 DEF Accounted
    <3>4. QED
      BY <2>4, <3>2, <3>3
  <2>5. CASE m = <<d, s>> /\ slot[d][s].hasValue
    <3>1. d \in devices
      BY <1>5, <2>5 DEF StateOK
    <3>2. reading' = {[mark |-> m, state |-> slot[d][s]]}
      BY <2>2, <2>5, <3>1
    <3>3. Newest(shown[d][s], slot[d][s]) = slot[d][s]
      BY <1>5, <2>5, AgesOfVersions DEF StateOK
    <3>4. \E x \in reading' : x.mark = <<d, s>> /\ x.state = slot[d][s]
      BY <2>5, <3>2
    <3>5. ShowsValue(slot[d][s], slot[d][s])
      BY <2>5 DEF ShowsValue
    <3>6. QED
      BY <1>1, <2>1, <3>3, <3>4, <3>5 DEF Accounted
  <2>6. QED
    BY <2>4, <2>5
<1>9. CASE ShowsCopy
  <2>1. PICK x \in reading :
          /\ reading = {x} /\ reading' = {} /\ dirtyStates' = dirtyStates
          /\ processingStates' = processingStates \ {x.mark}
          /\ shown' = [shown EXCEPT ![x.mark[1]][x.mark[2]] = Newest(@, x.state)]
    BY <1>9 DEF ShowsCopy
  <2>2. /\ x.mark[1] \in Device /\ x.mark[2] \in Definition
        /\ x.mark = <<x.mark[1], x.mark[2]>>
    BY CopiesAreTyped DEF Sound
  <2>3. CASE x.mark = <<d, s>>
    <3>1. x.mark[1] = d /\ x.mark[2] = s
      BY <2>3
    <3>2. x.state \in Slot /\ CopyOK(x.state, d, s)
      BY <3>1, CopiesAreTyped DEF Sound, VersionsOK
    <3>3. shown'[d][s] = Newest(shown[d][s], x.state)
      BY <1>5, <2>1, <3>1
    <3>4. QED
      BY <1>1, <1>2, <1>4, <2>1, <2>3, <3>3 DEF Accounted
  <2>4. CASE x.mark # <<d, s>>
    <3>1. shown'[d][s] = shown[d][s]
      BY <1>5, <2>1, <2>2, <2>4
    <3>2. QED
      BY <1>1, <1>2, <1>4, <2>1, <2>4, <3>1 DEF Accounted
  <2>5. QED
    BY <2>3, <2>4
<1>10. QED
  BY <1>1, <1>7, <1>8, <1>9

LEMMA MissedStep ==
    Sound /\ VersionsOK /\ NothingMissed /\ [LifecycleNext]_lifecycleVars => NothingMissed'
<1>1. Prepare \/ ShutdownObserverThread \/ ClearBookkeeping => NothingMissed'
  BY DEF Prepare, ShutdownObserverThread, ClearBookkeeping, NothingMissed
<1>2. NothingMissed /\ UNCHANGED lifecycleVars => NothingMissed'
  BY DEF lifecycleVars, vars, callbackVars, applicationVars, NothingMissed, Accounted,
         Coming, Welcome, News
<1>3. QED
  BY <1>1, <1>2, MissedCallManager, MissedCheckPrepared, MissedCallback, MissedFinishCall,
     MissedVisit, MissedWork DEF LifecycleNext

LEMMA MissedTells == Sound /\ NothingMissed => ShownOrOnItsWay
<1> SUFFICES ASSUME Sound, NothingMissed, NEW d \in Device, NEW s \in Definition,
                    CaughtUp, slot[d][s].hasValue
             PROVE  LET mine == slot[d][s]
                        copies == {x \in reading : x.mark = <<d, s>>}
                    IN \/ shown[d][s].hasValue /\ shown[d][s].value = mine.value
                       \/ \E t \in Thread : Announcing(t, d, s)
                       \/ <<d, s>> \in dirtyStates
                       \/ <<d, s>> \in processingStates /\ copies = {}
                       \/ \E x \in copies : x.state.value = mine.value
  BY DEF ShownOrOnItsWay
<1>1. Accounted(d, s) /\ visit = {}
  BY DEF NothingMissed, CaughtUp
<1>2. \A t \in Thread : Coming(t, d, s) => Announcing(t, d, s)
  BY DEF Coming, News, Due, About, Announcing
<1>3. ASSUME NEW x \in reading, ShowsValue(Newest(shown[d][s], x.state), slot[d][s])
      PROVE  \/ shown[d][s].hasValue /\ shown[d][s].value = slot[d][s].value
             \/ x.state.value = slot[d][s].value
  BY <1>3 DEF ShowsValue, Newest
<1>4. QED
  BY <1>1, <1>2, <1>3 DEF Accounted, ShowsValue

(* An application that visits what is there after Prepare() misses no      *)
(* value: whatever callers apply, prepare, shut down and visit in which    *)
(* order, each value the manager has was shown or is on its way.           *)
THEOREM NothingIsMissed == LifecycleSpec => []ShownOrOnItsWay
<1>1. LifecycleInit => NothingMissed
  BY DEF LifecycleInit, NothingMissed
<1>2. LifecycleSpec => [](Sound /\ NothingMissed)
  BY <1>1, VersionsAlways, MissedStep, PTL DEF LifecycleSpec
<1>3. QED
  BY <1>2, MissedTells, PTL

(***************************************************************************)
(* Availability, while the application has not shut down and one thread    *)
(* reports.  The last transition on the way to the observers is to the     *)
(* availability that the manager has; a thread is turned away only before  *)
(* it has ever been welcome, and what it then has to say the visit shows.  *)
(***************************************************************************)
OneReporter == \E t \in Thread : Reporter = {t}

LeadTo(S, a) == \A r \in S : r.current = a

Follows(t, d) ==
    LET a == availability[d]
        news == AvailabilityNews(t, d)
        records == Dirty(d) \cup Processing(d)
    IN /\ LeadTo(news, a)
       /\ news = {} => LeadTo(Dirty(d), a)
       /\ news = {} /\ Dirty(d) = {} => LeadTo(Processing(d), a)
       /\ records # {} => seen[t] = 1
       /\ (phase = "visited" /\ records = {} /\ (news = {} \/ seen[t] = 0)) => known[d] = a
       /\ d \notin devices => known[d] = a

OnlyReportersReport ==
    \A t \in Thread \ Reporter, d \in Device : AvailabilityNews(t, d) = {}

AllFollow ==
    /\ \A t \in Thread : entered[t] => seen[t] = 1
    /\ \A t \in Reporter, d \in Device : Follows(t, d)

AvailabilityFollowed == OnlyReportersReport /\ (writes <= 1 => AllFollow)

LEMMA FollowsStill ==
    ASSUME NEW t \in Thread, NEW d \in Device, Follows(t, d),
           AvailabilityNews(t, d)' = AvailabilityNews(t, d), Dirty(d)' = Dirty(d),
           Processing(d)' = Processing(d), availability'[d] = availability[d],
           known'[d] = known[d], devices \subseteq devices',
           phase' \in {phase, "open"}, seen'[t] = 1 \/ seen'[t] = seen[t]
    PROVE  Follows(t, d)'
BY DEF Follows

LEMMA FollowedInit ==
    ASSUME OneReporter, LifecycleInit
    PROVE  AvailabilityFollowed
<1>1. \A t \in Thread, d \in Device : AvailabilityNews(t, d) = {}
  BY NewsOfInit DEF LifecycleInit, Init, AvailabilityNews
<1>2. \A d \in Device : Dirty(d) = {} /\ Processing(d) = {} /\ known[d] = availability[d]
  BY DEF LifecycleInit, Init, ManagerInit, Dirty, Processing
<1>3. \A t \in Thread : ~entered[t]
  BY DEF LifecycleInit
<1>4. \A t \in Reporter, d \in Device : Follows(t, d)
  BY <1>1, <1>2 DEF Follows, LeadTo, OneReporter
<1>5. QED
  BY <1>1, <1>3, <1>4 DEF AvailabilityFollowed, OnlyReportersReport, AllFollow

LEMMA FollowedCallManager ==
    ASSUME OneReporter, Sound, AvailabilityFollowed, NEW t \in Thread, CallManager(t)
    PROVE  AvailabilityFollowed'
<1>1. /\ News(t) = {} /\ devices \subseteq devices'
      /\ UNCHANGED <<markVars, workVars, entered, applicationVars>>
      /\ \A u \in Thread \ {t} : seen'[u] = seen[u]
      /\ seen'[t] = IF phase = "visited" THEN writes ELSE seen[t]
  BY CallStores
<1>2. /\ UNCHANGED <<dirtyAvailability, processingAvailability, known, phase, writes>>
      /\ \A d \in Device : Dirty(d)' = Dirty(d) /\ Processing(d)' = Processing(d)
  BY <1>1 DEF markVars, workVars, applicationVars, Dirty, Processing
<1>3. ManagerTypeOK /\ NewsIsLast
  BY DEF Sound, TypeOK
<1>4. writes <= 1 => /\ phase = "visited" => seen'[t] = 1
                     /\ seen'[t] = 1 \/ (phase # "visited" /\ seen'[t] = seen[t])
  BY <1>1 DEF Sound, PhaseOK, Prepared
<1>5. writes' <= 1 => \A u \in Thread : entered'[u] => seen'[u] = 1
  BY <1>1, <1>2, <1>4 DEF AvailabilityFollowed, AllFollow
<1>6. ASSUME writes <= 1, NEW u \in Reporter, NEW x \in Device,
             AvailabilityNews(u, x)' = AvailabilityNews(u, x),
             availability'[x] = availability[x]
      PROVE  Follows(u, x)'
  <2>1. u \in Thread /\ Follows(u, x)
    BY <1>6 DEF OneReporter, AvailabilityFollowed, AllFollow
  <2>2. seen'[u] = 1 \/ seen'[u] = seen[u]
    BY <1>1, <1>4, <1>6, <2>1
  <2>3. QED
    BY <1>1, <1>2, <1>6, <2>1, <2>2, FollowsStill
<1>7. ASSUME NEW d \in Device, NEW s \in Definition, NEW e \in Epoch, NEW r \in Revision,
             NEW v \in Value, CallApply(t, d, s, e, r, v)
      PROVE  AvailabilityFollowed'
  <2>1. /\ \A u \in Thread, x \in Device : AvailabilityNews(u, x)' = AvailabilityNews(u, x)
        /\ availability' = availability
    BY <1>3, <1>7, NewsOfApply DEF CallApply, Apply
  <2>2. OnlyReportersReport'
    BY <2>1 DEF AvailabilityFollowed, OnlyReportersReport
  <2>3. QED
    BY <1>2, <1>5, <1>6, <2>1, <2>2 DEF AvailabilityFollowed, AllFollow, OneReporter
<1>8. ASSUME NEW d \in Device, NEW a \in Reported, CallSetAvailability(t, d, a), t \in Reporter
      PROVE  AvailabilityFollowed'
  <2>1. /\ \A u \in Thread, x \in Device : u # t \/ x # d =>
              AvailabilityNews(u, x)' = AvailabilityNews(u, x)
        /\ availability' = [availability EXCEPT ![d] = a]
        /\ \/ a = availability[d] /\ AvailabilityNews(t, d)' = {}
           \/ \E n \in Note :
                 /\ AvailabilityNews(t, d)' = {n}
                 /\ n.previous = availability[d] /\ n.current = a
    BY <1>3, <1>8, NewsOfSetAvailability DEF CallSetAvailability
  <2>2. availability'[d] = a /\ \A x \in Device \ {d} : availability'[x] = availability[x]
    BY <1>3, <2>1 DEF ManagerTypeOK
  <2>3. OnlyReportersReport'
    BY <1>8, <2>1 DEF AvailabilityFollowed, OnlyReportersReport
  <2>4. d \in devices' /\ AvailabilityNews(t, d) = {}
    BY <1>1, <1>8 DEF CallSetAvailability, SetAvailability, AvailabilityNews
  <2>5. ASSUME writes <= 1 PROVE Follows(t, d)'
    <3>1. CASE a = availability[d] /\ AvailabilityNews(t, d)' = {}
      BY <1>6, <1>8, <2>2, <2>4, <2>5, <3>1
    <3>2. CASE AvailabilityNews(t, d)' # {}
      <4>1. LeadTo(AvailabilityNews(t, d)', a)
        BY <2>1, <3>2 DEF LeadTo
      <4>2. Follows(t, d)
        BY <1>8, <2>5 DEF AvailabilityFollowed, AllFollow
      <4>3. Dirty(d)' \cup Processing(d)' # {} => seen'[t] = 1
        BY <1>2, <1>4, <2>5, <4>2 DEF Follows
      <4>4. phase' = "visited" => seen'[t] # 0
        BY <1>2, <1>4, <2>5
      <4>5. QED
        BY <2>2, <2>4, <3>2, <4>1, <4>3, <4>4 DEF Follows
    <3>3. QED
      BY <2>1, <3>1, <3>2
  <2>6. ASSUME writes <= 1, NEW u \in Reporter, NEW x \in Device PROVE Follows(u, x)'
    <3>1. u = t
      BY <1>8, <2>6 DEF OneReporter
    <3>2. CASE x = d
      BY <2>5, <2>6, <3>1, <3>2
    <3>3. CASE x # d
      BY <1>6, <2>1, <2>2, <2>6, <3>1, <3>3
    <3>4. QED
      BY <3>2, <3>3
  <2>7. QED
    BY <1>2, <1>5, <2>3, <2>6 DEF AvailabilityFollowed, AllFollow
<1>9. PICK d \in Device :
         \/ \E s \in Definition, e \in Epoch, r \in Revision, v \in Value :
               CallApply(t, d, s, e, r, v)
         \/ t \in Reporter /\ \E a \in Reported : CallSetAvailability(t, d, a)
  BY DEF CallManager
<1>10. QED
  BY <1>7, <1>8, <1>9

LEMMA FollowedCheckPrepared ==
    ASSUME OneReporter, Sound, AvailabilityFollowed, NEW t \in Thread, CheckPrepared(t)
    PROVE  AvailabilityFollowed'
<1>1. PICK w \in seen[t] .. writes :
         /\ seen' = [seen EXCEPT ![t] = w]
         /\ \/ Prepared(w) /\ entered' = [entered EXCEPT ![t] = TRUE] /\ UNCHANGED vars
            \/ ~Prepared(w) /\ Announce(t) /\ UNCHANGED <<markVars, workVars, entered>>
  BY DEF CheckPrepared
<1>2. /\ UNCHANGED <<known, phase, writes>>
      /\ UNCHANGED <<devices, availability, dirtyAvailability, processingAvailability>>
  BY <1>1 DEF CheckPrepared, applicationVars, vars, markVars, workVars, Announce
<1>3. \A d \in Device : Dirty(d)' = Dirty(d) /\ Processing(d)' = Processing(d)
  BY <1>2 DEF Dirty, Processing
<1>4. seen'[t] = w /\ \A u \in Thread \ {t} : seen'[u] = seen[u]
  BY <1>1 DEF Sound, CallbacksOK
<1>5. ASSUME writes <= 1
      PROVE  /\ Prepared(w) => w = 1
             /\ ~Prepared(w) => w = 0 /\ seen[t] = 0
  BY <1>5 DEF Sound, CallbacksOK, PhaseOK, Prepared
<1>6. ASSUME writes <= 1, NEW u \in Reporter, NEW x \in Device,
             AvailabilityNews(u, x)' = AvailabilityNews(u, x)
      PROVE  Follows(u, x)'
  <2>1. u \in Thread /\ Follows(u, x)
    BY <1>6 DEF OneReporter, AvailabilityFollowed, AllFollow
  <2>2. seen'[u] = 1 \/ seen'[u] = seen[u]
    BY <1>4, <1>5, <1>6, <2>1
  <2>3. QED
    BY <1>2, <1>3, <1>6, <2>1, <2>2, FollowsStill
<1>7. CASE Prepared(w) /\ entered' = [entered EXCEPT ![t] = TRUE] /\ UNCHANGED vars
  <2>1. UNCHANGED notes
    BY <1>7 DEF vars
  <2>2. \A u \in Thread, x \in Device : AvailabilityNews(u, x)' = AvailabilityNews(u, x)
    BY <2>1 DEF AvailabilityNews, News
  <2>3. OnlyReportersReport'
    BY <2>2 DEF AvailabilityFollowed, OnlyReportersReport
  <2>4. \A u \in Thread \ {t} : entered'[u] = entered[u]
    BY <1>7 DEF Sound, CallbacksOK
  <2>5. writes <= 1 => \A u \in Thread : entered'[u] => seen'[u] = 1
    BY <1>4, <1>5, <1>7, <2>4 DEF AvailabilityFollowed, AllFollow
  <2>6. writes <= 1 => \A u \in Reporter, x \in Device : Follows(u, x)'
    BY <1>6, <2>2 DEF OneReporter
  <2>7. QED
    BY <1>2, <2>3, <2>5, <2>6 DEF AvailabilityFollowed, AllFollow
<1>8. CASE ~Prepared(w) /\ Announce(t) /\ UNCHANGED <<markVars, workVars, entered>>
  <2> DEFINE n == Head(notes[t])
  <2>1. /\ \A u \in Thread, x \in Device :
              \/ AvailabilityNews(u, x)' = AvailabilityNews(u, x)
              \/ u = t /\ n.kind = "availability" /\ n.device = x
        /\ \A x \in Device : n.kind = "availability" /\ n.device = x =>
              AvailabilityNews(t, x) = {n} /\ AvailabilityNews(t, x)' = {}
    BY <1>8, NewsOfAnnouncement DEF Sound, TypeOK
  <2> HIDE DEF n
  <2>2. OnlyReportersReport'
    BY <2>1 DEF AvailabilityFollowed, OnlyReportersReport
  <2>3. writes <= 1 => \A u \in Thread : entered'[u] => seen'[u] = 1
    BY <1>4, <1>5, <1>8 DEF AvailabilityFollowed, AllFollow
  <2>4. ASSUME writes <= 1, NEW u \in Reporter, NEW x \in Device PROVE Follows(u, x)'
    <3>1. u \in Thread /\ Follows(u, x)
      BY <2>4 DEF OneReporter, AvailabilityFollowed, AllFollow
    <3>2. CASE u = t /\ n.kind = "availability" /\ n.device = x
      <4>1. /\ AvailabilityNews(u, x) = {n} /\ AvailabilityNews(u, x)' = {}
            /\ seen[u] = 0 /\ seen'[u] = 0
        BY <1>4, <1>5, <1>8, <2>1, <2>4, <3>2
      <4>2. Dirty(x) = {} /\ Processing(x) = {}
        BY <3>1, <4>1 DEF Follows
      <4>3. QED
        BY <1>2, <1>3, <3>1, <4>1, <4>2 DEF Follows, LeadTo
    <3>3. QED
      BY <1>6, <2>1, <2>4, <3>1, <3>2
  <2>5. QED
    BY <1>2, <2>2, <2>3, <2>4 DEF AvailabilityFollowed, AllFollow
<1>9. QED
  BY <1>1, <1>7, <1>8

LEMMA FollowedCallback ==
    ASSUME OneReporter, Sound, AvailabilityFollowed, NEW t \in Thread, Callback(t)
    PROVE  AvailabilityFollowed'
<1> DEFINE n == Head(notes[t])
<1>1. /\ UNCHANGED <<known, phase, writes, seen>> /\ entered[t]
      /\ UNCHANGED <<devices, availability, processingAvailability>> /\ Announce(t)
  BY DEF Callback, applicationVars, workVars, OnRemoteStateAccepted,
         OnRemoteStateAvailabilityChanged, Announce
<1>2. \A x \in Device : Processing(x)' = Processing(x)
  BY <1>1 DEF Processing
<1>3. /\ \A u \in Thread, x \in Device :
            \/ AvailabilityNews(u, x)' = AvailabilityNews(u, x)
            \/ u = t /\ n.kind = "availability" /\ n.device = x
      /\ \A x \in Device : n.kind = "availability" /\ n.device = x =>
            AvailabilityNews(t, x) = {n} /\ AvailabilityNews(t, x)' = {}
  BY <1>1, NewsOfAnnouncement DEF Sound, TypeOK
<1> HIDE DEF n
<1>4. OnlyReportersReport'
  BY <1>3 DEF AvailabilityFollowed, OnlyReportersReport
<1>5. writes <= 1 => \A u \in Thread : entered'[u] => seen'[u] = 1
  <2>1. \A u \in Thread : entered'[u] => entered[u]
    BY DEF Callback, Sound, CallbacksOK
  <2>2. QED
    BY <1>1, <2>1 DEF AvailabilityFollowed, AllFollow
<1>6. ASSUME writes <= 1, NEW u \in Reporter, NEW x \in Device,
             AvailabilityNews(u, x)' = AvailabilityNews(u, x), Dirty(x)' = Dirty(x)
      PROVE  Follows(u, x)'
  <2>1. u \in Thread /\ Follows(u, x)
    BY <1>6 DEF OneReporter, AvailabilityFollowed, AllFollow
  <2>2. QED
    BY <1>1, <1>2, <1>6, <2>1, FollowsStill
<1>7. CASE OnRemoteStateAccepted(t)
  <2>1. n.kind = "accepted" /\ UNCHANGED dirtyAvailability
    BY <1>7 DEF OnRemoteStateAccepted, n
  <2>2. \A x \in Device : Dirty(x)' = Dirty(x)
    BY <2>1 DEF Dirty
  <2>3. writes <= 1 => \A u \in Reporter, x \in Device : Follows(u, x)'
    BY <1>3, <1>6, <2>1, <2>2 DEF OneReporter
  <2>4. QED
    BY <1>1, <1>4, <1>5, <2>3 DEF AvailabilityFollowed, AllFollow
<1>8. CASE OnRemoteStateAvailabilityChanged(t)
  <2>1. PICK d \in devices, p \in Availability, c \in Availability :
            /\ n.device = d /\ n.previous = p /\ n.current = c
            /\ dirtyAvailability' = MarkAvailabilityDirty(d, p, c)
    BY <1>8, MarkedTransition DEF Sound, n
  <2>2. d \in Device /\ n.kind = "availability"
    BY <1>8 DEF OnRemoteStateAvailabilityChanged, Sound, TypeOK, ManagerTypeOK, n
  <2>3. /\ \A x \in Device \ {d} : Dirty(x)' = Dirty(x)
        /\ \E r : Dirty(d)' = {r} /\ r.current = c
    BY <2>1, MarkedDevice DEF Sound
  <2>4. AvailabilityNews(t, d) = {n} /\ AvailabilityNews(t, d)' = {}
    BY <1>3, <2>1, <2>2
  <2>5. t \in Reporter
    BY <2>2, <2>4 DEF AvailabilityFollowed, OnlyReportersReport
  <2>6. ASSUME writes <= 1 PROVE Follows(t, d)'
    <3>1. Follows(t, d) /\ seen[t] = 1
      BY <1>1, <2>2, <2>5, <2>6 DEF AvailabilityFollowed, AllFollow
    <3>2. c = availability[d]
      BY <2>1, <2>4, <3>1 DEF Follows, LeadTo
    <3>3. LeadTo(Dirty(d)', c) /\ Dirty(d)' # {}
      BY <2>3 DEF LeadTo
    <3>4. QED
      BY <1>1, <2>1, <2>4, <3>1, <3>2, <3>3 DEF Follows, LeadTo
  <2>7. ASSUME writes <= 1, NEW u \in Reporter, NEW x \in Device PROVE Follows(u, x)'
    <3>1. u = t
      BY <2>5, <2>7 DEF OneReporter
    <3>2. CASE x = d
      BY <2>6, <2>7, <3>1, <3>2
    <3>3. CASE x # d
      BY <1>3, <1>6, <2>1, <2>3, <2>7, <3>1, <3>3
    <3>4. QED
      BY <3>2, <3>3
  <2>8. QED
    BY <1>1, <1>4, <1>5, <2>7 DEF AvailabilityFollowed, AllFollow
<1>9. QED
  BY <1>7, <1>8 DEF Callback

LEMMA FollowedFinishCall ==
    ASSUME OneReporter, Sound, AvailabilityFollowed, NEW t \in Thread, FinishCall(t)
    PROVE  AvailabilityFollowed'
<1>1. /\ UNCHANGED <<known, phase, writes, seen, entered, dirtyAvailability>>
      /\ UNCHANGED <<devices, availability, processingAvailability>>
  BY DEF FinishCall, callbackVars, applicationVars, workVars, MarkAllStatesDirty,
         OtherNotification, Announce, managerVars, markVars
<1>2. \A x \in Device : Processing(x)' = Processing(x) /\ Dirty(x)' = Dirty(x)
  BY <1>1 DEF Processing, Dirty
<1>3. \A u \in Thread, x \in Device : AvailabilityNews(u, x)' = AvailabilityNews(u, x)
  <2>1. CASE MarkAllStatesDirty(t)
    BY <2>1 DEF MarkAllStatesDirty, managerVars, AvailabilityNews, News
  <2>2. CASE OtherNotification(t)
    BY <2>2, NewsOfAnnouncement DEF OtherNotification, Sound, TypeOK
  <2>3. QED
    BY <2>1, <2>2 DEF FinishCall
<1>4. writes <= 1 => \A u \in Reporter, x \in Device : Follows(u, x)'
  BY <1>1, <1>2, <1>3, FollowsStill DEF OneReporter, AvailabilityFollowed, AllFollow
<1>5. QED
  BY <1>1, <1>3, <1>4 DEF AvailabilityFollowed, OnlyReportersReport, AllFollow

LEMMA FollowedApplication ==
    ASSUME OneReporter, Sound, AvailabilityFollowed,
           \/ Prepare \/ ShutdownObserverThread \/ ClearBookkeeping
           \/ ForEachDevice \/ VisitDeviceStates \/ UNCHANGED lifecycleVars
    PROVE  AvailabilityFollowed'
<1>1. UNCHANGED <<devices, availability, notes, seen, entered>>
  BY DEF Prepare, ShutdownObserverThread, ClearBookkeeping, ForEachDevice,
         VisitDeviceStates, lifecycleVars, vars, callbackVars, managerVars
<1>2. \A u \in Thread, x \in Device : AvailabilityNews(u, x)' = AvailabilityNews(u, x)
  BY <1>1 DEF AvailabilityNews, News
<1>3. OnlyReportersReport'
  BY <1>2 DEF AvailabilityFollowed, OnlyReportersReport
<1>4. CASE ShutdownObserverThread \/ ClearBookkeeping
  <2>1. writes' > 1
    BY <1>4 DEF ShutdownObserverThread, ClearBookkeeping, Sound, PhaseOK, Prepared
  <2>2. QED
    BY <1>3, <2>1, SoundClear, SoundApplication, <1>4
       DEF AvailabilityFollowed, Sound, PhaseOK
<1>5. CASE Prepare \/ ForEachDevice \/ VisitDeviceStates \/ UNCHANGED lifecycleVars
  <2>1. UNCHANGED <<dirtyAvailability, processingAvailability>>
    BY <1>5 DEF Prepare, ForEachDevice, VisitDeviceStates, lifecycleVars, vars
  <2>2. \A x \in Device : Processing(x)' = Processing(x) /\ Dirty(x)' = Dirty(x)
    BY <2>1 DEF Processing, Dirty
  <2>3. writes' <= 1 => writes <= 1
    BY <1>5 DEF Prepare, ForEachDevice, VisitDeviceStates, lifecycleVars, applicationVars,
       Sound, PhaseOK
  <2>4. ASSUME writes' <= 1, NEW u \in Reporter, NEW x \in Device PROVE Follows(u, x)'
    <3>1. u \in Thread /\ Follows(u, x)
      BY <2>3, <2>4 DEF OneReporter, AvailabilityFollowed, AllFollow
    <3>2. CASE ForEachDevice
      <4>1. known'[x] = IF x \in devices THEN availability[x] ELSE known[x]
        BY <3>2 DEF ForEachDevice
      <4>2. known'[x] = availability[x]
        BY <3>1, <4>1 DEF Follows
      <4>3. QED
        BY <1>1, <1>2, <2>2, <3>1, <4>2 DEF Follows
    <3>3. CASE Prepare \/ VisitDeviceStates \/ UNCHANGED lifecycleVars
      <4>1. known' = known /\ phase' \in {phase, "open"}
        BY <3>3 DEF Prepare, VisitDeviceStates, lifecycleVars, applicationVars
      <4>2. QED
        BY <1>1, <1>2, <2>2, <3>1, <4>1, FollowsStill
    <3>4. QED
      BY <1>5, <3>2, <3>3
  <2>5. writes' <= 1 => \A u \in Thread : entered'[u] => seen'[u] = 1
    BY <1>1, <2>3 DEF AvailabilityFollowed, AllFollow
  <2>6. QED
    BY <1>3, <2>4, <2>5 DEF AvailabilityFollowed, AllFollow
<1>6. QED
  BY <1>4, <1>5

LEMMA FollowedWork ==
    ASSUME OneReporter, Sound, AvailabilityFollowed, Work
    PROVE  AvailabilityFollowed'
<1>1. /\ UNCHANGED <<devices, availability, notes, seen, entered, phase, writes>>
      /\ Worker /\ Tells
  BY DEF Work, callbackVars, Worker, Drain, DeliverAvailability, ReadState, NotifyState,
         managerVars
<1>2. \A u \in Thread, x \in Device : AvailabilityNews(u, x)' = AvailabilityNews(u, x)
  BY <1>1 DEF AvailabilityNews, News
<1>3. \A x \in Device :
         known'[x] = IF \E r \in processingAvailability \ processingAvailability' : r.device = x
                     THEN told'[x] ELSE known[x]
  BY <1>1 DEF Tells
<1>4. SUFFICES ASSUME writes <= 1, NEW u \in Reporter, NEW x \in Device
               PROVE  Follows(u, x)'
  BY <1>1, <1>2 DEF AvailabilityFollowed, OnlyReportersReport, AllFollow
<1>5. u \in Thread /\ Follows(u, x)
  BY <1>4 DEF OneReporter, AvailabilityFollowed, AllFollow
<1>6. CASE Drain
  <2>1. Processing(x) = {} /\ Processing(x)' = Dirty(x) /\ Dirty(x)' = {}
    BY <1>6 DEF Drain, Processing, Dirty
  <2>2. known'[x] = known[x]
    BY <1>3, <1>6 DEF Drain
  <2>3. QED
    BY <1>1, <1>2, <1>5, <2>1, <2>2 DEF Follows, LeadTo
<1>7. CASE DeliverAvailability
  <2>1. PICK r \in processingAvailability :
            /\ processingAvailability' = processingAvailability \ {r}
            /\ told' = [told EXCEPT ![r.device] = r.current]
    BY <1>7 DEF DeliverAvailability
  <2>2. dirtyAvailability' = dirtyAvailability
    BY <1>7 DEF DeliverAvailability, markVars
  <2>3. Dirty(x)' = Dirty(x) /\ processingAvailability \ processingAvailability' = {r}
    BY <2>1, <2>2 DEF Dirty
  <2>4. CASE r.device = x
    <3>1. Processing(x) = {r} /\ Processing(x)' = {} /\ x \in devices
      BY <2>1, <2>4 DEF Processing, Sound, WorkerOK
    <3>2. known'[x] = r.current
      BY <1>3, <2>1, <2>3, <2>4 DEF Sound, TypeOK
    <3>3. QED
      BY <1>1, <1>2, <1>5, <2>3, <3>1, <3>2 DEF Follows, LeadTo
  <2>5. CASE r.device # x
    <3>1. Processing(x)' = Processing(x) /\ known'[x] = known[x]
      BY <1>3, <2>1, <2>3, <2>5 DEF Processing
    <3>2. QED
      BY <1>1, <1>2, <1>5, <2>3, <3>1, FollowsStill
  <2>6. QED
    BY <2>4, <2>5
<1>8. CASE ReadState \/ NotifyState
  <2>1. UNCHANGED <<processingAvailability, dirtyAvailability>>
    BY <1>8 DEF ReadState, NotifyState, markVars
  <2>2. Processing(x)' = Processing(x) /\ Dirty(x)' = Dirty(x) /\ known'[x] = known[x]
    BY <1>3, <2>1 DEF Processing, Dirty
  <2>3. QED
    BY <1>1, <1>2, <1>5, <2>2, FollowsStill
<1>9. QED
  BY <1>1, <1>6, <1>7, <1>8 DEF Worker

LEMMA FollowedStep ==
    ASSUME OneReporter, Sound, AvailabilityFollowed, [LifecycleNext]_lifecycleVars
    PROVE  AvailabilityFollowed'
BY FollowedCallManager, FollowedCheckPrepared, FollowedCallback, FollowedFinishCall,
   FollowedApplication, FollowedWork DEF LifecycleNext

LEMMA FollowedTells == OneReporter /\ Sound /\ AvailabilityFollowed => AvailabilityKnown
<1> SUFFICES ASSUME OneReporter, Sound, AvailabilityFollowed, NEW d \in devices,
                    CaughtUp, writes = 1, AvailabilityQuiet(d)
             PROVE  known[d] = availability[d]
  BY DEF AvailabilityKnown
<1>1. PICK t \in Reporter : t \in Thread
  BY DEF OneReporter
<1>2. d \in Device
  BY DEF Sound, TypeOK, ManagerTypeOK
<1>3. Follows(t, d)
  BY <1>2 DEF AvailabilityFollowed, AllFollow
<1>4. AvailabilityNews(t, d) = {} /\ Dirty(d) = {} /\ Processing(d) = {}
  BY <1>1 DEF AvailabilityQuiet, AvailabilityNews, News, Due, Dirty, Processing
<1>5. QED
  BY <1>3, <1>4 DEF Follows, CaughtUp

(* With one thread that reports availability, an application that prepared *)
(* and visited and has not shut down knows the availability of every       *)
(* device once nothing about it is under way, although the callbacks drop  *)
(* the transitions that they get before they see _prepared set.            *)
THEOREM AvailabilityIsKnown ==
    ASSUME OneReporter
    PROVE  LifecycleSpec => []AvailabilityKnown
<1>1. LifecycleInit => AvailabilityFollowed
  BY FollowedInit
<1>2. Sound /\ AvailabilityFollowed /\ [LifecycleNext]_lifecycleVars => AvailabilityFollowed'
  BY FollowedStep
<1>3. Sound /\ AvailabilityFollowed => AvailabilityKnown
  BY FollowedTells
<1>4. QED
  BY <1>1, <1>2, <1>3, SoundAlways, PTL DEF LifecycleSpec
====================================================================================
