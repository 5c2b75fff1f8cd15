--------------------------- MODULE SubscriptionProofs ---------------------------
(***************************************************************************)
(* Proofs about the StateSubscriptionRegistry, for every capacity and any  *)
(* sets of threads, devices and definitions.                               *)
(***************************************************************************)
EXTENDS SubscriptionRegistry, FiniteSetTheorems, TLAPS

(***************************************************************************)
(* What the two assignments to a record do to the records in use and to    *)
(* the members.  Distinct is the inductive invariant.                      *)
(***************************************************************************)

(* No two records in use hold the same subscription.                       *)
Distinct ==
    \A i, j \in Used : records[i].subscription = records[j].subscription => i = j

LEMMA Taking ==
    ASSUME TypeOK, NEW u \in Descriptor, NEW i \in Slots \ Used,
           records' = [records EXCEPT ![i] = [used |-> TRUE, subscription |-> u]]
    PROVE  /\ Used' = Used \cup {i}
           /\ records'[i].subscription = u
           /\ \A j \in Used : records'[j] = records[j]
           /\ Members' = Members \cup {u}
<1>1. /\ records'[i] = [used |-> TRUE, subscription |-> u]
      /\ \A j \in Slots \ {i} : records'[j] = records[j]
  BY DEF TypeOK
<1>2. Used' = Used \cup {i}
  BY <1>1 DEF Used
<1>3. \A j \in Used : records'[j] = records[j]
  BY <1>1 DEF Used
<1>4. Members' = Members \cup {u}
  BY <1>1, <1>2, <1>3 DEF Members
<1>5. QED
  BY <1>1, <1>2, <1>3, <1>4

LEMMA Releasing ==
    ASSUME TypeOK, NEW i \in Used,
           records' = [records EXCEPT ![i] = Released(@)]
    PROVE  /\ Used' = Used \ {i}
           /\ records'[i] = FreeRecord
           /\ \A j \in Slots \ {i} : records'[j] = records[j]
           /\ Members' \subseteq Members
           /\ Distinct => Members' = Members \ {records[i].subscription}
<1>1. /\ records'[i] = FreeRecord
      /\ \A j \in Slots \ {i} : records'[j] = records[j]
      /\ ~records'[i].used
  BY DEF TypeOK, Released, FreeRecord, Used
<1>2. Used' = Used \ {i}
  BY <1>1 DEF Used
<1>3. Distinct => Members' = Members \ {records[i].subscription}
  BY <1>1, <1>2 DEF Members, Distinct, Used
<1>4. Members' \subseteq Members
  BY <1>1, <1>2 DEF Members, Used
<1>5. QED
  BY <1>1, <1>2, <1>3, <1>4

(***************************************************************************)
(* Types.                                                                  *)
(***************************************************************************)
LEMMA RecordsAreTyped ==
    /\ FreeRecord \in Record
    /\ \A u \in Descriptor : [used |-> TRUE, subscription |-> u] \in Record
BY DEF FreeRecord, Record

LEMMA TypeInit == Init => TypeOK
<1> SUFFICES ASSUME Init PROVE TypeOK
  OBVIOUS
<1>1. records \in [Slots -> Record] /\ \A i \in Slots : records[i] = FreeRecord
  BY RecordsAreTyped DEF Init
<1>2. Used = {} /\ Members = {}
  BY <1>1 DEF Used, Members, FreeRecord
<1>3. QED
  BY <1>1, <1>2 DEF Init, TypeOK

(* Of a call's notification.                                               *)
NotesTyped == notes \in [Thread -> {{}} \cup {{n} : n \in Notification}]

LEMMA TypeOfNotes ==
    ASSUME NotesTyped, NEW t \in Thread, NEW u \in Descriptor,
           NEW k \in {"Subscribed", "Unsubscribed", "CapacityExhausted"},
           Tell(t, k, u)
    PROVE  NotesTyped'
<1>1. Note(k, u) \in Notification
  BY DEF Note, Notification
<1>2. {Note(k, u)} \in {{}} \cup {{n} : n \in Notification}
  BY <1>1
<1>3. QED
  BY <1>2 DEF NotesTyped, Tell

(* A call that does not touch the records.                                 *)
LEMMA TypeOfTheRest ==
    ASSUME TypeOK, UNCHANGED records, DOMAIN returned' = Thread, NotesTyped'
    PROVE  TypeOK'
<1>1. Used' = Used /\ Members' = Members
  BY DEF Used, Members
<1>2. QED
  BY <1>1 DEF TypeOK, NotesTyped

LEMMA TypeStep == TypeOK /\ [Next]_vars => TypeOK'
<1> SUFFICES ASSUME TypeOK, [Next]_vars PROVE TypeOK'
  OBVIOUS
<1>0. NotesTyped /\ DOMAIN returned = Thread
  BY DEF TypeOK, NotesTyped
<1>1. ASSUME NEW t \in Thread, NEW u \in Descriptor,
             Present(t, u) \/ Absent(t, u)
      PROVE  TypeOK'
  <2>1. UNCHANGED <<records, notes>> /\ DOMAIN returned' = Thread
    BY <1>0, <1>1 DEF Present, Absent, Return
  <2>2. QED
    BY <1>0, <2>1, TypeOfTheRest DEF NotesTyped
<1>2. ASSUME NEW t \in Thread, NEW u \in Descriptor, Subscribed(t, u) PROVE TypeOK'
  <2>1. PICK i \in First(Slots \ Used) :
            records' = [records EXCEPT ![i] = [used |-> TRUE, subscription |-> u]]
    BY <1>2 DEF Subscribed
  <2>2. i \in Slots \ Used
    BY <2>1 DEF First
  <2>3. records' \in [Slots -> Record]
    BY <2>1, <2>2, RecordsAreTyped DEF TypeOK
  <2>4. Used' = Used \cup {i} /\ Members' = Members \cup {u}
    BY <2>1, <2>2, Taking
  <2>5. \A j \in Slots \ Used' : records'[j] = FreeRecord
    BY <2>1, <2>2, <2>4 DEF TypeOK
  <2>6. DOMAIN returned' = Thread
    BY <1>0, <1>2 DEF Subscribed, Return
  <2>7. NotesTyped'
    BY <1>0, <1>2, TypeOfNotes DEF Subscribed
  <2>8. Members' \subseteq Descriptor
    BY <2>4 DEF TypeOK
  <2>9. QED
    BY <2>3, <2>5, <2>6, <2>7, <2>8 DEF TypeOK, NotesTyped
<1>3. ASSUME NEW t \in Thread, NEW u \in Descriptor, CapacityExhausted(t, u)
      PROVE  TypeOK'
  <2>1. DOMAIN returned' = Thread /\ UNCHANGED records
    BY <1>0, <1>3 DEF CapacityExhausted, Return
  <2>2. NotesTyped'
    BY <1>0, <1>3, TypeOfNotes DEF CapacityExhausted
  <2>3. QED
    BY <2>1, <2>2, TypeOfTheRest
<1>4. ASSUME NEW t \in Thread, NEW u \in Descriptor, Unsubscribed(t, u)
      PROVE  TypeOK'
  <2>1. PICK i \in First(Find(u)) : records' = [records EXCEPT ![i] = Released(@)]
    BY <1>4 DEF Unsubscribed
  <2>2. i \in Used /\ i \in Slots
    BY <2>1 DEF First, Find, Used
  <2>3. records' \in [Slots -> Record]
    BY <2>1, <2>2, RecordsAreTyped DEF TypeOK, Released
  <2>4. /\ Used' = Used \ {i}
        /\ records'[i] = FreeRecord
        /\ \A j \in Slots \ {i} : records'[j] = records[j]
        /\ Members' \subseteq Members
    BY <2>1, <2>2, Releasing
  <2>5. \A j \in Slots \ Used' : records'[j] = FreeRecord
    BY <2>4 DEF TypeOK
  <2>6. DOMAIN returned' = Thread
    BY <1>0, <1>4 DEF Unsubscribed, Return
  <2>7. NotesTyped'
    BY <1>0, <1>4, TypeOfNotes DEF Unsubscribed
  <2>8. Members' \subseteq Descriptor
    BY <2>4 DEF TypeOK
  <2>9. QED
    BY <2>3, <2>5, <2>6, <2>7, <2>8 DEF TypeOK, NotesTyped
<1>5. ASSUME NEW t \in Thread, NEW d \in Device, NEW x \in Definition,
             IsSubscribed(t, d, x)
      PROVE  TypeOK'
  <2>1. UNCHANGED <<records, notes>> /\ DOMAIN returned' = Thread
    BY <1>0, <1>5 DEF IsSubscribed, Return
  <2>2. QED
    BY <1>0, <2>1, TypeOfTheRest DEF NotesTyped
<1>6. ASSUME NEW t \in Thread, Notify(t) PROVE TypeOK'
  <2>1. NotesTyped'
    BY <1>0, <1>6 DEF Notify, NotesTyped
  <2>2. QED
    BY <1>0, <1>6, <2>1, TypeOfTheRest DEF Notify
<1>7. CASE UNCHANGED vars
  BY <1>0, <1>7, TypeOfTheRest DEF vars, NotesTyped
<1>8. QED
  BY <1>1, <1>2, <1>3, <1>4, <1>5, <1>6, <1>7 DEF Next, Subscribe, Unsubscribe

(* Types, and free records that are fresh ones, for every capacity.        *)
THEOREM TypeCorrect == Spec => []TypeOK
BY TypeInit, TypeStep, PTL DEF Spec

(***************************************************************************)
(* No subscription holds two records.                                      *)
(***************************************************************************)
LEMMA DistinctInit == Init => Distinct
BY DEF Init, Distinct, Used, FreeRecord

LEMMA DistinctStep == TypeOK /\ Distinct /\ [Next]_vars => Distinct'
<1> SUFFICES ASSUME TypeOK, Distinct, [Next]_vars PROVE Distinct'
  OBVIOUS
<1>1. ASSUME NEW t \in Thread, NEW u \in Descriptor, Subscribed(t, u)
      PROVE  Distinct'
  <2>1. PICK i \in First(Slots \ Used) :
            records' = [records EXCEPT ![i] = [used |-> TRUE, subscription |-> u]]
    BY <1>1 DEF Subscribed
  <2>2. i \in Slots \ Used
    BY <2>1 DEF First
  <2>3. /\ Used' = Used \cup {i}
        /\ records'[i].subscription = u
        /\ \A j \in Used : records'[j] = records[j]
    BY <2>1, <2>2, Taking
  <2>4. \A j \in Used : records[j].subscription # u
    BY <1>1 DEF Subscribed, Find
  <2>5. QED
    BY <2>3, <2>4 DEF Distinct
<1>2. ASSUME NEW t \in Thread, NEW u \in Descriptor, Unsubscribed(t, u)
      PROVE  Distinct'
  <2>1. PICK i \in First(Find(u)) : records' = [records EXCEPT ![i] = Released(@)]
    BY <1>2 DEF Unsubscribed
  <2>2. i \in Used
    BY <2>1 DEF First, Find
  <2>3. QED
    BY <2>1, <2>2, Releasing DEF Distinct, Used
<1>3. CASE UNCHANGED records
  BY <1>3 DEF Distinct, Used
<1>4. QED
  BY <1>1, <1>2, <1>3
     DEF Next, Subscribe, Unsubscribe, Present, CapacityExhausted, Absent,
         IsSubscribed, Notify, vars

LEMMA AlwaysDistinct == Spec => [](TypeOK /\ Distinct)
<1>1. Init => Distinct
  BY DistinctInit
<1>2. TypeOK /\ Distinct /\ [Next]_vars => Distinct'
  BY DistinctStep
<1>3. QED
  BY <1>1, <1>2, TypeCorrect, PTL DEF Spec

(* So the records in use and the members are equally many.                 *)
LEMMA SizeOfMembers ==
    ASSUME TypeOK, Distinct
    PROVE  /\ IsFiniteSet(Used) /\ IsFiniteSet(Members)
           /\ Cardinality(Members) = Cardinality(Used)
           /\ Cardinality(Used) \in Nat
           /\ Cardinality(Used) <= Capacity
           /\ Cardinality(Used) = Capacity <=> Used = Slots
<1> DEFINE f == [i \in Used |-> records[i].subscription]
<1>1. IsFiniteSet(Slots) /\ Cardinality(Slots) = Capacity
  BY FS_Interval, SubscriptionAssumption DEF Slots
<1>2. Used \in SUBSET Slots
  BY DEF Used
<1>3. /\ IsFiniteSet(Used)
      /\ Cardinality(Used) <= Capacity
      /\ Cardinality(Used) = Capacity <=> Used = Slots
  BY <1>1, <1>2, FS_Subset
<1>4. f \in Surjection(Used, Members)
  BY DEF Surjection, Members
<1>5. f \in Injection(Used, Members)
  BY DEF Injection, IsInjective, Members, Distinct
<1>6. IsFiniteSet(Members) /\ Cardinality(Members) = Cardinality(Used)
  BY <1>3, <1>4, <1>5, FS_Surjection
<1>7. QED
  BY <1>3, <1>6, FS_CardinalityType

(* Count() is the number of subscriptions.                                 *)
THEOREM CountsMembers == Spec => []CountIsExact
<1>1. TypeOK /\ Distinct => CountIsExact
  BY SizeOfMembers DEF CountIsExact, Count
<1>2. QED
  BY <1>1, AlwaysDistinct, PTL

(***************************************************************************)
(* The array of records implements the bounded set.                        *)
(***************************************************************************)
LEMMA SetInit == Init => Set!Init
BY DEF Init, Set!Init, Set!NoAnswer, Members, Used, FreeRecord

LEMMA MembersAreFound ==
    ASSUME NEW u
    PROVE  Find(u) = {} <=> u \notin Members
BY DEF Find, Members

LEMMA SameSize == \A S : Set!Cardinality(S) = Cardinality(S)
BY DEF Set!Cardinality, Cardinality

LEMMA SetSubscribe ==
    ASSUME TypeOK, Distinct, NEW t \in Thread, NEW u \in Descriptor, Subscribe(t, u)
    PROVE  Set!Keep(t, u) \/ Set!Refuse(t, u)
<1>1. CASE Present(t, u)
  <2>1. u \in Members /\ Members' = Members
    BY <1>1, MembersAreFound DEF Present, Members, Used
  <2>2. QED
    BY <1>1, <2>1 DEF Present, Set!Keep, Set!Return, Set!Answer, Return, Answer
<1>2. CASE Subscribed(t, u)
  <2>1. PICK i \in First(Slots \ Used) :
            records' = [records EXCEPT ![i] = [used |-> TRUE, subscription |-> u]]
    BY <1>2 DEF Subscribed
  <2>2. i \in Slots \ Used
    BY <2>1 DEF First
  <2>3. Members' = Members \cup {u}
    BY <2>1, <2>2, Taking
  <2>4. Cardinality(Members) < Capacity
    BY <2>2, SizeOfMembers, SubscriptionAssumption
  <2>5. QED
    BY <1>2, <2>3, <2>4, SameSize
       DEF Subscribed, Set!Keep, Set!Return, Set!Answer, Return, Answer
<1>3. CASE CapacityExhausted(t, u)
  <2>1. u \notin Members /\ Members' = Members
    BY <1>3, MembersAreFound DEF CapacityExhausted, Members, Used
  <2>2. Cardinality(Members) = Capacity
    BY <1>3, SizeOfMembers DEF CapacityExhausted
  <2>3. QED
    BY <1>3, <2>1, <2>2, SameSize
       DEF CapacityExhausted, Set!Refuse, Set!Return, Set!Answer, Return, Answer
<1>4. QED
  BY <1>1, <1>2, <1>3 DEF Subscribe

LEMMA SetUnsubscribe ==
    ASSUME TypeOK, Distinct, NEW t \in Thread, NEW u \in Descriptor, Unsubscribe(t, u)
    PROVE  Set!Drop(t, u)
<1>1. CASE Unsubscribed(t, u)
  <2>1. PICK i \in First(Find(u)) : records' = [records EXCEPT ![i] = Released(@)]
    BY <1>1 DEF Unsubscribed
  <2>2. i \in Used /\ records[i].subscription = u
    BY <2>1 DEF First, Find
  <2>3. u \in Members /\ Members' = Members \ {u}
    BY <2>1, <2>2, Releasing DEF Members
  <2>4. (u \in Members) = TRUE
    BY <2>3
  <2>5. QED
    BY <1>1, <2>3, <2>4
       DEF Unsubscribed, Set!Drop, Set!Return, Set!Answer, Return, Answer
<1>2. CASE Absent(t, u)
  <2>1. (u \in Members) = FALSE
    BY <1>2, MembersAreFound DEF Absent
  <2>2. Members' = Members \ {u}
    BY <1>2, <2>1 DEF Absent, Members, Used
  <2>3. QED
    BY <1>2, <2>1, <2>2 DEF Absent, Set!Drop, Set!Return, Set!Answer, Return, Answer
<1>3. QED
  BY <1>1, <1>2 DEF Unsubscribe

LEMMA SetAsk ==
    ASSUME TypeOK, Members \subseteq Descriptor, NEW t \in Thread,
           NEW d \in Device, NEW x \in Definition, IsSubscribed(t, d, x)
    PROVE  Set!Ask(t, Accepting(d, x))
<1> DEFINE found == \E i \in Used : /\ records[i].subscription.type = x
                                    /\ Matches(records[i].subscription, d)
<1>1. found <=> Members \cap Accepting(d, x) # {}
  BY DEF Accepting, Members
<1>2. found = (Members \cap Accepting(d, x) # {})
  BY <1>1
<1>3. Members' = Members
  BY DEF IsSubscribed, Members, Used
<1>4. returned' = [returned EXCEPT ![t] =
                      Answer("IsSubscribed", Accepting(d, x), found)]
  BY DEF IsSubscribed, Return
<1>5. QED
  BY <1>2, <1>3, <1>4 DEF Set!Ask, Set!Return, Set!Answer, Answer

LEMMA SetStep ==
    ASSUME TypeOK, Distinct, [Next]_vars
    PROVE  [Set!Next]_<<Members, returned>>
<1>1. ASSUME NEW t \in Thread, NEW u \in Descriptor, Subscribe(t, u) \/ Unsubscribe(t, u)
      PROVE  Set!Next
  BY <1>1, SetSubscribe, SetUnsubscribe DEF Set!Next
<1>2. ASSUME NEW t \in Thread, NEW d \in Device, NEW x \in Definition,
             IsSubscribed(t, d, x)
      PROVE  Set!Next
  <2>1. Set!Ask(t, Accepting(d, x))
    BY <1>2, SetAsk DEF TypeOK
  <2>2. QED
    BY <2>1 DEF Set!Next
<1>3. ASSUME UNCHANGED <<records, returned>>
      PROVE  UNCHANGED <<Members, returned>>
  BY <1>3 DEF Members, Used
<1>4. QED
  BY <1>1, <1>2, <1>3 DEF Next, Notify, vars

(* The registry is a set of at most Capacity descriptors, each call atomic *)
(* and answered right, for every capacity and any number of threads.       *)
THEOREM RegistryImplementsSet == Spec => ImplementsSet
BY SetInit, SetStep, AlwaysDistinct, PTL DEF Spec, ImplementsSet, Set!Spec
=================================================================================
