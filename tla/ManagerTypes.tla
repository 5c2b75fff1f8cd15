------------------------------ MODULE ManagerTypes ------------------------------
(***************************************************************************)
(* The operations of the RemoteStateManager keep its types, for any number *)
(* of devices, definitions, values and threads and for every capacity.     *)
(* Every proof about a module that uses the manager rests on these lemmas. *)
(***************************************************************************)
EXTENDS RemoteStateManager, FiniteSetTheorems, TLAPS

(* FindOrCreateLocked() keeps the records finite, within the capacity and  *)
(* apart from the all-zero identifier.                                     *)
LEMMA RecordsStayBounded ==
    ASSUME ManagerTypeOK, NEW d \in Device, HasRecord(d)
    PROVE  /\ devices \cup {d} \subseteq Device \ {ZeroDevice}
           /\ IsFiniteSet(devices \cup {d})
           /\ Cardinality(devices \cup {d}) <= MaximumDevices
<1>1. CASE d \in devices
  <2>1. devices \cup {d} = devices
    BY <1>1
  <2>2. QED
    BY <2>1 DEF ManagerTypeOK
<1>2. CASE d \notin devices
  <2>1. Cardinality(devices) < MaximumDevices /\ d # ZeroDevice
    BY <1>2 DEF HasRecord
  <2>2. /\ IsFiniteSet(devices \cup {d})
        /\ Cardinality(devices \cup {d}) = Cardinality(devices) + 1
    BY <1>2, FS_AddElement DEF ManagerTypeOK
  <2>3. Cardinality(devices) \in Nat
    BY FS_CardinalityType DEF ManagerTypeOK
  <2>4. Cardinality(devices) + 1 <= MaximumDevices
    BY <2>1, <2>3, ManagerAssumption
  <2>5. QED
    BY <2>1, <2>2, <2>4 DEF ManagerTypeOK
<1>3. QED
  BY <1>1, <1>2

(* The notifications of the calls are notifications.                       *)
LEMMA NotesAreTyped ==
    ASSUME NEW d \in Device
    PROVE  /\ RegistrationNotes(d) \in Seq(Note)
           /\ \A s \in Definition, e \in Epoch, r \in Revision, v \in Value :
                 /\ AcceptanceNotes(d, s, e, r, v) \in Seq(Note)
                 /\ <<RejectedNote(d, s, e, r)>> \in Seq(Note)
           /\ \A p, c \in Availability : <<AvailabilityNote(d, p, c)>> \in Seq(Note)
<1>1. RegisteredNote(d) \in Note
  BY DEF Note, RegisteredNotes
<1>2. ASSUME NEW s \in Definition, NEW e \in Epoch, NEW r \in Revision, NEW v \in Value
      PROVE  /\ AcceptedNote(d, s, e, r, ValueChanges(d, s, v)) \in Note
             /\ RejectedNote(d, s, e, r) \in Note
  BY ManagerAssumption
     DEF AcceptedNote, RejectedNote, Note, AcceptedNotes, RejectedNotes, ValueChanges
<1>3. ASSUME NEW p \in Availability, NEW c \in Availability
      PROVE  AvailabilityNote(d, p, c) \in Note
  BY DEF AvailabilityNote, Note, AvailabilityNotes
<1>4. QED
  BY <1>1, <1>2, <1>3 DEF RegistrationNotes, AcceptanceNotes

(* A call's announcements, put together from two sequences, are typed.     *)
LEMMA AnnouncementsAreTyped ==
    ASSUME ManagerTypeOK, NEW t \in Thread, NEW x \in Seq(Note), NEW y \in Seq(Note),
           notes' = [notes EXCEPT ![t] = x \o y]
    PROVE  notes' \in [Thread -> Seq(Note)]
<1>1. x \o y \in Seq(Note)
  OBVIOUS
<1>2. QED
  BY <1>1 DEF ManagerTypeOK

(* Storing a slot in a table of slots keeps the table typed.               *)
LEMMA SlotsAreTyped ==
    ASSUME NEW f \in [Device -> [Definition -> Slot]],
           NEW d \in Device, NEW s \in Definition, NEW x \in Slot
    PROVE  [f EXCEPT ![d][s] = x] \in [Device -> [Definition -> Slot]]
OBVIOUS

LEMMA EmptySlotIsTyped == EmptySlot \in Slot
BY ManagerAssumption DEF EmptySlot, Slot

LEMMA ManagerTypeInit == ManagerInit => ManagerTypeOK
<1> SUFFICES ASSUME ManagerInit PROVE ManagerTypeOK
  OBVIOUS
<1>1. IsFiniteSet(devices) /\ Cardinality(devices) = 0
  BY FS_EmptySet DEF ManagerInit
<1>2. QED
  BY <1>1, EmptySlotIsTyped, ManagerAssumption
     DEF ManagerInit, ManagerTypeOK, Availability

LEMMA ManagerTypeApply ==
    ASSUME ManagerTypeOK, NEW t \in Thread, NEW d \in Device, NEW s \in Definition,
           NEW e \in Epoch, NEW r \in Revision, NEW v \in Value,
           Apply(t, d, s, e, r, v)
    PROVE  ManagerTypeOK'
<1>1. /\ devices' \subseteq Device \ {ZeroDevice}
      /\ IsFiniteSet(devices')
      /\ Cardinality(devices') <= MaximumDevices
  <2>1. CASE Creates(d)
    <3>1. HasRecord(d) /\ devices' = devices \cup {d}
      BY <2>1 DEF Apply, Creates
    <3>2. QED
      BY <3>1, RecordsStayBounded
  <2>2. CASE ~Creates(d)
    BY <2>2 DEF Apply, ManagerTypeOK
  <2>3. QED
    BY <2>1, <2>2
<1>2. availability' \in [Device -> Availability]
  BY DEF Apply, ManagerTypeOK
<1>3. slot' \in [Device -> [Definition -> Slot]]
  <2>1. [hasValue |-> TRUE, epoch |-> e, revision |-> r, value |-> v] \in Slot
    BY ManagerAssumption DEF Slot
  <2>2. \/ UNCHANGED slot
        \/ slot' = [slot EXCEPT ![d][s] =
                [hasValue |-> TRUE, epoch |-> e, revision |-> r, value |-> v]]
    BY DEF Apply
  <2>3. CASE UNCHANGED slot
    BY <2>3 DEF ManagerTypeOK
  <2>4. CASE slot' = [slot EXCEPT ![d][s] =
                [hasValue |-> TRUE, epoch |-> e, revision |-> r, value |-> v]]
    <3>1. slot \in [Device -> [Definition -> Slot]]
      BY DEF ManagerTypeOK
    <3>2. QED
      BY <2>1, <2>4, <3>1, SlotsAreTyped
  <2>5. QED
    BY <2>2, <2>3, <2>4
<1>4. notes' \in [Thread -> Seq(Note)]
  <2>1. /\ RegistrationNotes(d) \in Seq(Note)
        /\ AcceptanceNotes(d, s, e, r, v) \in Seq(Note)
        /\ <<RejectedNote(d, s, e, r)>> \in Seq(Note)
    BY NotesAreTyped
  <2>2. \/ notes' = [notes EXCEPT ![t] =
                        RegistrationNotes(d) \o AcceptanceNotes(d, s, e, r, v)]
        \/ notes' = [notes EXCEPT ![t] =
                        RegistrationNotes(d) \o <<RejectedNote(d, s, e, r)>>]
    BY DEF Apply
  <2>3. QED
    BY <2>1, <2>2, AnnouncementsAreTyped
<1>5. QED
  BY <1>1, <1>2, <1>3, <1>4 DEF ManagerTypeOK

LEMMA ManagerTypeSetAvailability ==
    ASSUME ManagerTypeOK, NEW t \in Thread, NEW d \in Device, NEW a \in Reported,
           SetAvailability(t, d, a)
    PROVE  ManagerTypeOK'
<1>1. a \in Availability /\ availability[d] \in Availability
  BY ManagerAssumption DEF ManagerTypeOK
<1>2. /\ devices' \subseteq Device \ {ZeroDevice}
      /\ IsFiniteSet(devices')
      /\ Cardinality(devices') <= MaximumDevices
  BY RecordsStayBounded DEF SetAvailability
<1>3. availability' \in [Device -> Availability]
  BY <1>1 DEF SetAvailability, ManagerTypeOK
<1>4. notes' \in [Thread -> Seq(Note)]
  <2>1. /\ RegistrationNotes(d) \in Seq(Note)
        /\ <<AvailabilityNote(d, availability[d], a)>> \in Seq(Note)
        /\ <<>> \in Seq(Note)
    BY <1>1, NotesAreTyped
  <2>2. \/ notes' = [notes EXCEPT ![t] =
                RegistrationNotes(d) \o <<AvailabilityNote(d, availability[d], a)>>]
        \/ notes' = [notes EXCEPT ![t] = RegistrationNotes(d) \o <<>>]
    BY DEF SetAvailability
  <2>3. QED
    BY <2>1, <2>2, AnnouncementsAreTyped
<1>5. QED
  BY <1>2, <1>3, <1>4 DEF SetAvailability, ManagerTypeOK

LEMMA ManagerTypeAnnounce ==
    ASSUME ManagerTypeOK, NEW t \in Thread, Announce(t)
    PROVE  ManagerTypeOK' /\ Head(notes[t]) \in Note
<1>1. notes[t] \in Seq(Note) /\ notes[t] # <<>>
  BY DEF Announce, ManagerTypeOK
<1>2. Head(notes[t]) \in Note /\ Tail(notes[t]) \in Seq(Note)
  BY <1>1
<1>3. QED
  BY <1>2 DEF Announce, ManagerTypeOK

(***************************************************************************)
(* What threads have still to announce, without its order.                 *)
(***************************************************************************)
Due(q) == {q[i] : i \in DOMAIN q}

LEMMA DueOfParts ==
    ASSUME NEW S, NEW q \in Seq(S)
    PROVE  /\ Due(q) \subseteq S
           /\ (q = <<>>) <=> (Due(q) = {})
           /\ q # <<>> => Head(q) = q[1] /\ 1 \in DOMAIN q
           /\ q # <<>> => Due(q) = {Head(q)} \cup Due(Tail(q))
           /\ \A i \in DOMAIN q : i \in Nat
           /\ q # <<>> => \A i \in DOMAIN Tail(q) :
                             i + 1 \in DOMAIN q /\ Tail(q)[i] = q[i + 1] /\ i # 0
<1>1. DOMAIN q = 1 .. Len(q) /\ Len(q) \in Nat /\ \A i \in DOMAIN q : q[i] \in S
  OBVIOUS
<1>2. ASSUME q # <<>>
      PROVE  /\ Head(q) = q[1] /\ 1 \in DOMAIN q
             /\ DOMAIN Tail(q) = 1 .. Len(q) - 1
             /\ \A i \in DOMAIN Tail(q) : Tail(q)[i] = q[i + 1]
  BY <1>2
<1>3. ASSUME q # <<>>
      PROVE  /\ \A i \in DOMAIN Tail(q) : i + 1 \in DOMAIN q /\ i # 0
             /\ \A i \in DOMAIN q :
                  i = 1 \/ (i - 1 \in DOMAIN Tail(q) /\ q[i] = Tail(q)[i - 1])
  <2>1. \A i \in DOMAIN Tail(q) : i + 1 \in DOMAIN q /\ i # 0
    BY <1>1, <1>2, <1>3
  <2>2. ASSUME NEW i \in DOMAIN q, i # 1
        PROVE  i - 1 \in DOMAIN Tail(q) /\ q[i] = Tail(q)[i - 1]
    <3>1. i \in 1 .. Len(q) /\ i - 1 \in 1 .. Len(q) - 1 /\ (i - 1) + 1 = i
      BY <1>1, <2>2
    <3>2. i - 1 \in DOMAIN Tail(q)
      BY <3>1, <1>2, <1>3
    <3>3. Tail(q)[i - 1] = q[(i - 1) + 1]
      BY <3>2, <1>2, <1>3
    <3>4. QED
      BY <3>1, <3>2, <3>3
  <2>3. QED
    BY <2>1, <2>2
<1>4. ASSUME q # <<>> PROVE Due(q) = {Head(q)} \cup Due(Tail(q))
  <2>1. Due(q) \subseteq {Head(q)} \cup Due(Tail(q))
    BY <1>2, <1>3, <1>4 DEF Due
  <2>2. Due(Tail(q)) \subseteq Due(q)
    BY <1>2, <1>3, <1>4 DEF Due
  <2>3. Head(q) \in Due(q)
    BY <1>2, <1>4 DEF Due
  <2>4. QED
    BY <2>1, <2>2, <2>3
<1>5. Due(q) \subseteq S /\ \A i \in DOMAIN q : i \in Nat
  BY <1>1 DEF Due
<1>6. CASE q = <<>>
  <2>1. Due(q) = {}
    BY <1>6 DEF Due
  <2>2. QED
    BY <1>5, <1>6, <2>1
<1>7. CASE q # <<>>
  <2>1. Due(q) # {}
    BY <1>4, <1>7
  <2>2. QED
    BY <1>2, <1>3, <1>4, <1>5, <1>7, <2>1
<1>8. QED
  BY <1>6, <1>7

(* What a call leaves its thread to announce: the registration that it     *)
(* made, if it made one, and what y says, which is n or nothing.  Nothing  *)
(* changes for the others.                                                 *)
Leaves(t, d, n, y) ==
    /\ y \in {<<>>, <<n>>}
    /\ notes' = [notes EXCEPT ![t] = RegistrationNotes(d) \o y]

LEMMA DueOfCall ==
    ASSUME ManagerTypeOK, NEW t \in Thread, NEW d \in Device, NEW n, NEW y,
           Leaves(t, d, n, y)
    PROVE  /\ Due(notes'[t]) = Due(y) \cup (IF Creates(d) THEN {RegisteredNote(d)} ELSE {})
           /\ Due(<<n>>) = {n} /\ Due(<<>>) = {}
           /\ \A i \in DOMAIN notes'[t] :
                 \/ Creates(d) /\ i = 1 /\ notes'[t][i] = RegisteredNote(d)
                 \/ notes'[t][i] \in Due(y) /\ i = Len(notes'[t])
           /\ \A u \in Thread \ {t} : notes'[u] = notes[u]
<1> DEFINE m == RegisteredNote(d)
<1>1. notes'[t] = RegistrationNotes(d) \o y /\ \A u \in Thread \ {t} : notes'[u] = notes[u]
  BY DEF ManagerTypeOK, Leaves
<1>2. (Creates(d) => RegistrationNotes(d) = <<m>>) /\ (~Creates(d) => RegistrationNotes(d) = <<>>)
  BY DEF RegistrationNotes
<1> HIDE DEF m
<1>3. Due(<<n>>) = {n} /\ Due(<<>>) = {} /\ Due(<<m>>) = {m}
  BY DEF Due
<1>4. CASE Creates(d)
  <2>1. CASE y = <<>>
    <3>1. notes'[t] = <<m>>
      BY <1>1, <1>2, <1>4, <2>1
    <3>2. \A i \in DOMAIN notes'[t] : i = 1 /\ notes'[t][i] = m
      BY <3>1
    <3>3. QED
      BY <1>1, <1>3, <1>4, <2>1, <3>1, <3>2 DEF m
  <2>2. CASE y = <<n>>
    <3> DEFINE q == <<m>> \o <<n>>
    <3>1. DOMAIN q = {1, 2} /\ q[1] = m /\ q[2] = n /\ Len(q) = 2
      <4>1. <<m>> \in Seq({m, n}) /\ <<n>> \in Seq({m, n})
        OBVIOUS
      <4>2. QED
        BY <4>1
    <3> HIDE DEF q
    <3>2. /\ Due(q) = {m, n}
          /\ \A i \in DOMAIN q : (i = 1 /\ q[i] = m) \/ (q[i] = n /\ i = Len(q))
      BY <3>1 DEF Due
    <3>3. notes'[t] = q
      BY <1>1, <1>2, <1>4, <2>2, Zenon DEF q
    <3>4. QED
      BY <1>1, <1>3, <1>4, <2>2, <3>2, <3>3 DEF m
  <2>3. QED
    BY <2>1, <2>2 DEF Leaves
<1>5. CASE ~Creates(d)
  <2>1. notes'[t] = y
    BY <1>1, <1>2, <1>5 DEF Leaves
  <2>2. \A i \in DOMAIN y : y[i] \in Due(y) /\ i = Len(y)
    <3>1. CASE y = <<>>
      BY <3>1
    <3>2. CASE y = <<n>>
      <4>1. \A i \in DOMAIN y : i = Len(y)
        BY <3>2
      <4>2. QED
        BY <4>1 DEF Due
    <3>3. QED
      BY <3>1, <3>2 DEF Leaves
  <2>3. QED
    BY <1>1, <1>3, <1>5, <2>1, <2>2 DEF m
<1>6. QED
  BY <1>4, <1>5

(* An announcement takes the first note off what the thread has to make.   *)
LEMMA DueOfAnnounce ==
    ASSUME ManagerTypeOK, NEW t \in Thread, Announce(t)
    PROVE  /\ notes[t] \in Seq(Note) /\ notes[t] # <<>> /\ notes'[t] = Tail(notes[t])
           /\ Due(notes[t]) = {Head(notes[t])} \cup Due(notes'[t])
           /\ Due(notes[t]) \subseteq Note
           /\ \A u \in Thread \ {t} : notes'[u] = notes[u]
<1>1. /\ notes[t] \in Seq(Note) /\ notes[t] # <<>> /\ notes'[t] = Tail(notes[t])
      /\ \A u \in Thread \ {t} : notes'[u] = notes[u]
  BY DEF Announce, ManagerTypeOK
<1>2. QED
  BY <1>1, DueOfParts

(* A thread that is idle has nothing to announce.                          *)
LEMMA DueOfIdle ==
    ASSUME NEW t \in Thread, Idle(t)
    PROVE  Due(notes[t]) = {} /\ DOMAIN notes[t] = {}
BY DEF Idle, Due

(***************************************************************************)
(* The calls of the manager, by what they leave to announce: n stands for  *)
(* what the call announces besides a registration, if y says that it       *)
(* announces something.                                                    *)
(***************************************************************************)
CallOf(t, d, n, y) ==
    /\ Idle(t)
    /\ Leaves(t, d, n, y)
    /\ devices' = IF Creates(d) THEN devices \cup {d} ELSE devices
    /\ n \in AcceptedNotes \cup RejectedNotes \cup AvailabilityNotes

AppliesAs(t, d, s, e, r, v, n) ==
    /\ CallOf(t, d, n, <<n>>)
    /\ availability' = availability
    /\ \/ slot' = slot /\ n \in RejectedNotes
       \/ /\ Accepts(d, s, e, r)
          /\ slot' = [slot EXCEPT ![d][s] =
                 [hasValue |-> TRUE, epoch |-> e, revision |-> r, value |-> v]]
          /\ n = AcceptedNote(d, s, e, r, ValueChanges(d, s, v))

SetsAs(t, d, a, n, y) ==
    /\ CallOf(t, d, n, y)
    /\ n = AvailabilityNote(d, availability[d], a)
    /\ y = <<>> => a = availability[d]
    /\ availability' = [availability EXCEPT ![d] = a]
    /\ slot' = slot
    /\ d \in devices'

LEMMA ApplyIsACall ==
    ASSUME ManagerTypeOK, NEW t \in Thread, NEW d \in Device, NEW s \in Definition,
           NEW e \in Epoch, NEW r \in Revision, NEW v \in Value,
           Apply(t, d, s, e, r, v)
    PROVE  \E n : AppliesAs(t, d, s, e, r, v, n)
<1>1. /\ Idle(t) /\ availability' = availability
      /\ devices' = IF Creates(d) THEN devices \cup {d} ELSE devices
  BY DEF Apply
<1>2. e \in Nat /\ r \in Nat /\ ValueChanges(d, s, v) \in BOOLEAN
  BY ManagerAssumption DEF ValueChanges
<1>3. CASE Accepts(d, s, e, r)
  <2> DEFINE c == ValueChanges(d, s, v)
             n == AcceptedNote(d, s, e, r, c)
  <2> HIDE DEF c
  <2>1. n \in AcceptedNotes
    BY <1>2 DEF AcceptedNote, AcceptedNotes, c
  <2>2. notes' = [notes EXCEPT ![t] = RegistrationNotes(d) \o <<n>>]
    BY <1>3 DEF Apply, AcceptanceNotes, c
  <2>3. slot' = [slot EXCEPT ![d][s] = [hasValue |-> TRUE,
                     epoch |-> e, revision |-> r, value |-> v]]
    BY <1>3 DEF Apply
  <2> HIDE DEF n
  <2>4. CallOf(t, d, n, <<n>>)
    BY <1>1, <2>1, <2>2 DEF CallOf, Leaves
  <2>5. QED
    BY <1>1, <1>3, <2>3, <2>4 DEF n, c, AppliesAs
<1>4. CASE ~Accepts(d, s, e, r)
  <2> DEFINE n == RejectedNote(d, s, e, r)
  <2>1. n \in RejectedNotes
    BY <1>2 DEF RejectedNote, RejectedNotes
  <2>2. notes' = [notes EXCEPT ![t] = RegistrationNotes(d) \o <<n>>] /\ slot' = slot
    BY <1>4 DEF Apply
  <2> HIDE DEF n
  <2>3. CallOf(t, d, n, <<n>>)
    BY <1>1, <2>1, <2>2 DEF CallOf, Leaves
  <2>4. QED
    BY <1>1, <2>1, <2>2, <2>3 DEF AppliesAs
<1>5. QED
  BY <1>3, <1>4

LEMMA SetAvailabilityIsACall ==
    ASSUME ManagerTypeOK, NEW t \in Thread, NEW d \in Device, NEW a \in Reported,
           SetAvailability(t, d, a)
    PROVE  \E n, y : SetsAs(t, d, a, n, y)
<1> DEFINE n == AvailabilityNote(d, availability[d], a)
           y == IF a # availability[d] THEN <<n>> ELSE <<>>
<1>1. n \in AvailabilityNotes
  BY ManagerAssumption DEF AvailabilityNote, AvailabilityNotes, ManagerTypeOK
<1>2. /\ Idle(t) /\ slot' = slot /\ availability' = [availability EXCEPT ![d] = a]
      /\ notes' = [notes EXCEPT ![t] = RegistrationNotes(d) \o y]
  BY DEF SetAvailability
<1>3. devices' = IF Creates(d) THEN devices \cup {d} ELSE devices
  BY DEF SetAvailability, Creates, HasRecord
<1> HIDE DEF n
<1>4. y \in {<<>>, <<n>>} /\ (y = <<>> => a = availability[d])
  OBVIOUS
<1> HIDE DEF y
<1>5. CallOf(t, d, n, y)
  BY <1>1, <1>2, <1>3, <1>4 DEF CallOf, Leaves
<1>6. d \in devices'
  BY DEF SetAvailability
<1>7. QED
  BY <1>2, <1>4, <1>5, <1>6 DEF SetsAs, n

LEMMA KindsDiffer ==
    /\ \A n \in Note : n.kind = "accepted" => n \in AcceptedNotes
    /\ \A n \in AcceptedNotes \cup RejectedNotes \cup AvailabilityNotes :
          n \in Note \ RegisteredNotes
    /\ \A d, d2 \in Device :
          /\ RegisteredNote(d) \in RegisteredNotes
          /\ RegisteredNote(d) = RegisteredNote(d2) => d = d2
<1>1. \A n \in RegisteredNotes : n.kind = "registered"
  BY DEF RegisteredNotes, RegisteredNote
<1>2. \A n \in AcceptedNotes : n.kind = "accepted"
  BY DEF AcceptedNotes
<1>3. \A n \in RejectedNotes : n.kind = "rejected"
  BY DEF RejectedNotes
<1>4. \A n \in AvailabilityNotes : n.kind = "availability"
  BY DEF AvailabilityNotes
<1>5. \A d, d2 \in Device :
          /\ RegisteredNote(d) \in RegisteredNotes
          /\ RegisteredNote(d) = RegisteredNote(d2) => d = d2
  BY DEF RegisteredNotes, RegisteredNote
<1>6. QED
  BY <1>1, <1>2, <1>3, <1>4, <1>5 DEF Note

(* What a call leaves to announce.                                         *)
LEMMA CallTells ==
    ASSUME ManagerTypeOK, NEW t \in Thread, NEW d \in Device, NEW n, NEW y, CallOf(t, d, n, y)
    PROVE  /\ Due(notes[t]) = {}
           /\ Due(notes'[t]) \subseteq {n, RegisteredNote(d)}
           /\ y = <<n>> => n \in Due(notes'[t])
           /\ RegisteredNote(d) \in Due(notes'[t]) <=> Creates(d)
           /\ \A i \in DOMAIN notes'[t] : i = 1 \/ notes'[t][i] \notin RegisteredNotes
           /\ \A u \in Thread \ {t} : notes'[u] = notes[u]
<1>1. n \notin RegisteredNotes /\ RegisteredNote(d) \in RegisteredNotes
  BY KindsDiffer DEF CallOf
<1>2. Due(<<n>>) = {n} /\ Due(<<>>) = {}
  BY DEF Due
<1>3. Due(y) \subseteq {n} /\ (y = <<n>> => n \in Due(y))
  BY <1>2 DEF CallOf, Leaves
<1>4. /\ Due(notes'[t]) = Due(y) \cup (IF Creates(d) THEN {RegisteredNote(d)} ELSE {})
      /\ \A i \in DOMAIN notes'[t] : (Creates(d) /\ i = 1) \/ notes'[t][i] \in Due(y)
      /\ \A u \in Thread \ {t} : notes'[u] = notes[u]
  BY DueOfCall DEF CallOf
<1>5. Due(notes[t]) = {}
  BY DueOfIdle DEF CallOf
<1>6. QED
  BY <1>1, <1>3, <1>4, <1>5

(***************************************************************************)
(* News: the notifications that an observer does something about.  A call  *)
(* has one at most, and makes it last.                                     *)
(***************************************************************************)
IsNews(n) == n.kind \in {"accepted", "availability"}

News(t) == {n \in Due(notes[t]) : IsNews(n)}

NewsIsLast ==
    \A t \in Thread : \A i \in DOMAIN notes[t] : IsNews(notes[t][i]) => i = Len(notes[t])

LEMMA NewsOfInit == ManagerInit => NewsIsLast /\ \A t \in Thread : News(t) = {}
BY DEF ManagerInit, NewsIsLast, News, Due

LEMMA NewsOfCall ==
    ASSUME ManagerTypeOK, NewsIsLast, NEW t \in Thread, NEW d \in Device, NEW n, NEW y,
           CallOf(t, d, n, y)
    PROVE  /\ NewsIsLast'
           /\ News(t) = {}
           /\ News(t)' = IF IsNews(n) /\ y = <<n>> THEN {n} ELSE {}
           /\ \A u \in Thread \ {t} : notes'[u] = notes[u] /\ News(u)' = News(u)
<1>1. /\ Due(notes[t]) = {}
      /\ Due(notes'[t]) = Due(y) \cup (IF Creates(d) THEN {RegisteredNote(d)} ELSE {})
      /\ \A i \in DOMAIN notes'[t] :
            \/ notes'[t][i] = RegisteredNote(d)
            \/ notes'[t][i] \in Due(y) /\ i = Len(notes'[t])
      /\ \A u \in Thread \ {t} : notes'[u] = notes[u]
  <2>1. Leaves(t, d, n, y)
    BY DEF CallOf
  <2>2. Due(notes[t]) = {}
    BY CallTells
  <2>3. /\ Due(notes'[t]) = Due(y) \cup (IF Creates(d) THEN {RegisteredNote(d)} ELSE {})
        /\ \A i \in DOMAIN notes'[t] :
              \/ Creates(d) /\ i = 1 /\ notes'[t][i] = RegisteredNote(d)
              \/ notes'[t][i] \in Due(y) /\ i = Len(notes'[t])
        /\ \A u \in Thread \ {t} : notes'[u] = notes[u]
    BY <2>1, DueOfCall, Zenon
  <2>4. QED
    BY <2>2, <2>3, Zenon
<1>2. ~IsNews(RegisteredNote(d))
  BY DEF IsNews, RegisteredNote
<1>3. \A u \in Thread \ {t} : News(u)' = News(u)
  BY <1>1 DEF News
<1>4. NewsIsLast'
  BY <1>1, <1>2 DEF NewsIsLast
<1>5. Due(y) = IF y = <<n>> THEN {n} ELSE {}
  <2>1. Due(<<n>>) = {n} /\ Due(<<>>) = {} /\ <<n>> # <<>>
    BY DEF Due
  <2>2. QED
    BY <2>1 DEF CallOf, Leaves
<1>6. News(t)' = IF IsNews(n) /\ y = <<n>> THEN {n} ELSE {}
  BY <1>1, <1>2, <1>5 DEF News
<1>7. QED
  BY <1>1, <1>3, <1>4, <1>6 DEF News

LEMMA NewsOfAnnounce ==
    ASSUME ManagerTypeOK, NewsIsLast, NEW t \in Thread, Announce(t)
    PROVE  /\ NewsIsLast'
           /\ Head(notes[t]) \in Note
           /\ IsNews(Head(notes[t])) => News(t) = {Head(notes[t])} /\ News(t)' = {}
           /\ ~IsNews(Head(notes[t])) => News(t)' = News(t)
           /\ \A u \in Thread \ {t} : notes'[u] = notes[u] /\ News(u)' = News(u)
<1> DEFINE q == notes[t]
           n == Head(q)
<1>1. /\ q \in Seq(Note) /\ q # <<>> /\ notes'[t] = Tail(q)
      /\ Due(q) = {n} \cup Due(notes'[t])
      /\ Due(q) \subseteq Note
      /\ \A u \in Thread \ {t} : notes'[u] = notes[u]
  BY DueOfAnnounce
<1>2. /\ \A i \in DOMAIN Tail(q) :
            i \in Nat /\ i + 1 \in DOMAIN q /\ Tail(q)[i] = q[i + 1] /\ i # 0
      /\ Head(q) = q[1] /\ 1 \in DOMAIN q
      /\ Tail(q) \in Seq(Note) /\ Len(Tail(q)) = Len(q) - 1 /\ Len(q) \in Nat
  <2>1. /\ q \in Seq(Note) /\ q # <<>>
        /\ Tail(q) \in Seq(Note) /\ Len(Tail(q)) = Len(q) - 1 /\ Len(q) \in Nat
    BY <1>1
  <2>2. QED
    BY <2>1, DueOfParts
<1>3. NewsIsLast'
  <2>1. ASSUME NEW i \in DOMAIN notes'[t], IsNews(notes'[t][i]) PROVE i = Len(notes'[t])
    <3>1. i + 1 = Len(q)
      BY <1>1, <1>2, <2>1 DEF NewsIsLast
    <3>2. QED
      BY <1>1, <1>2, <3>1
  <2>2. QED
    BY <1>1, <2>1 DEF NewsIsLast
<1>4. ASSUME IsNews(n) PROVE Due(notes'[t]) = {}
  <2>1. Len(q) = 1
    BY <1>2, <1>4 DEF NewsIsLast
  <2>2. DOMAIN Tail(q) = {}
    BY <1>2, <2>1
  <2>3. QED
    BY <1>1, <2>2 DEF Due
<1>5. \A u \in Thread \ {t} : News(u)' = News(u)
  BY <1>1 DEF News
<1> HIDE DEF q, n
<1>6. IsNews(n) => News(t) = {n} /\ News(t)' = {}
  BY <1>1, <1>4 DEF News, q
<1>7. ~IsNews(n) => News(t)' = News(t)
  BY <1>1 DEF News, q
<1>8. QED
  BY <1>1, <1>3, <1>5, <1>6, <1>7 DEF q, n

=================================================================================
