-------------------------- MODULE SubscriptionRegistry --------------------------
(***************************************************************************)
(* StateSubscriptionRegistry<TCapacity>: the remote states this device     *)
(* wants.  An array of records under a mutex; a call that changes it       *)
(* notifies the observers after it has released the mutex.                 *)
(*                                                                         *)
(* A failed EnsureRecords() makes every operation return before it touches *)
(* anything: a stuttering step.  ForEach(), which copies the used records, *)
(* is left out.  Definitions that no action uses are faulty variants of    *)
(* the definition below them; README.md says which property each of them   *)
(* would break.                                                            *)
(***************************************************************************)
EXTENDS Naturals, FiniteSets

CONSTANTS
    Device,      \* Device identifiers, the all-zero one included.
    ZeroDevice,  \* The all-zero identifier.
    Definition,  \* State definitions.
    Capacity,    \* TCapacity.
    Thread       \* Threads that call the registry.

ASSUME SubscriptionAssumption == ZeroDevice \in Device /\ Capacity \in Nat

VARIABLES
    records,   \* _records.
    returned,  \* Per thread, what its last call was and what it returned.
    notes      \* Per thread, the notification its call has yet to make, if any.

vars == <<records, returned, notes>>

(* StateSubscription::Any() and StateSubscription::From().                 *)
Any(x) == [type |-> x, scope |-> "AnyDevice", device |-> ZeroDevice]
From(d, x) == [type |-> x, scope |-> "SpecificDevice", device |-> d]

Descriptor ==
    {Any(x) : x \in Definition} \cup {From(d, x) : d \in Device, x \in Definition}

Matches(u, d) == u.scope = "AnyDevice" \/ u.device = d

(* A fresh record has TypeId 0, which no definition has.                   *)
Record == [used : BOOLEAN, subscription : Descriptor \cup {Any("none")}]
FreeRecord == [used |-> FALSE, subscription |-> Any("none")]

Slots == 1 .. Capacity

First(S) == {i \in S : \A j \in S : i <= j}

Used == {i \in Slots : records[i].used}
Members == {records[i].subscription : i \in Used}

IgnoresTheDevice(u) ==
    {i \in Used : /\ records[i].subscription.type = u.type
                  /\ records[i].subscription.scope = u.scope}

Find(u) == {i \in Used : records[i].subscription = u}

Count == Cardinality(Used)

(***************************************************************************)
(* The calls.  What a call returns is decided under the mutex; the thread  *)
(* gets it after the notification.                                         *)
(***************************************************************************)
Notification ==
    [kind : {"Subscribed", "Unsubscribed", "CapacityExhausted"},
     subscription : Descriptor]
Note(kind, u) == [kind |-> kind, subscription |-> u]
Answer(name, about, result) == [call |-> name, about |-> about, result |-> result]

Idle(t) == notes[t] = {}
Tell(t, kind, u) == notes' = [notes EXCEPT ![t] = {Note(kind, u)}]
Return(t, a) == returned' = [returned EXCEPT ![t] = a]

Present(t, u) ==
    /\ Idle(t)
    /\ Find(u) # {}
    /\ Return(t, Answer("Subscribe", {u}, TRUE))
    /\ UNCHANGED <<records, notes>>

TakesARecordInAnyCase(t, u) ==
    /\ Idle(t)
    /\ \E i \in First(Slots \ Used) :
          records' = [records EXCEPT ![i] = [used |-> TRUE, subscription |-> u]]
    /\ Return(t, Answer("Subscribe", {u}, TRUE))
    /\ Tell(t, "Subscribed", u)

Subscribed(t, u) ==
    /\ Idle(t)
    /\ Find(u) = {}
    /\ \E i \in First(Slots \ Used) :
          records' = [records EXCEPT ![i] = [used |-> TRUE, subscription |-> u]]
    /\ Return(t, Answer("Subscribe", {u}, TRUE))
    /\ Tell(t, "Subscribed", u)

CapacityExhausted(t, u) ==
    /\ Idle(t)
    /\ Find(u) = {}
    /\ Used = Slots
    /\ Return(t, Answer("Subscribe", {u}, FALSE))
    /\ Tell(t, "CapacityExhausted", u)
    /\ UNCHANGED records

Subscribe(t, u) == Present(t, u) \/ Subscribed(t, u) \/ CapacityExhausted(t, u)

ClearsTheFlagOnly(r) == [r EXCEPT !.used = FALSE]

Released(r) == FreeRecord

Unsubscribed(t, u) ==
    /\ Idle(t)
    /\ \E i \in First(Find(u)) : records' = [records EXCEPT ![i] = Released(@)]
    /\ Return(t, Answer("Unsubscribe", {u}, TRUE))
    /\ Tell(t, "Unsubscribed", u)

Absent(t, u) ==
    /\ Idle(t)
    /\ Find(u) = {}
    /\ Return(t, Answer("Unsubscribe", {u}, FALSE))
    /\ UNCHANGED <<records, notes>>

Unsubscribe(t, u) == Unsubscribed(t, u) \/ Absent(t, u)

(* What IsSubscribed(d, x) asks for, as a set of descriptors.              *)
Accepting(d, x) == {u \in Descriptor : u.type = x /\ Matches(u, d)}

IsSubscribed(t, d, x) ==
    /\ Idle(t)
    /\ LET found == \E i \in Used : /\ records[i].subscription.type = x
                                    /\ Matches(records[i].subscription, d)
       IN Return(t, Answer("IsSubscribed", Accepting(d, x), found))
    /\ UNCHANGED <<records, notes>>

(* The notification, synchronous, without the mutex.                       *)
Notify(t) ==
    /\ notes[t] # {}
    /\ notes' = [notes EXCEPT ![t] = {}]
    /\ UNCHANGED <<records, returned>>

Init ==
    /\ records = [i \in Slots |-> FreeRecord]
    /\ returned = [t \in Thread |-> [call |-> "none"]]
    /\ notes = [t \in Thread |-> {}]

Next ==
    \E t \in Thread :
        \/ \E u \in Descriptor : Subscribe(t, u) \/ Unsubscribe(t, u)
        \/ \E d \in Device, x \in Definition : IsSubscribed(t, d, x)
        \/ Notify(t)

Spec == Init /\ [][Next]_vars

(***************************************************************************)
(* Properties.                                                             *)
(***************************************************************************)

(* The state has its type, and a record that is not in use is a fresh one: *)
(* nothing of a subscription survives its end.                             *)
TypeOK ==
    /\ records \in [Slots -> Record]
    /\ \A i \in Slots \ Used : records[i] = FreeRecord
    /\ Members \subseteq Descriptor
    /\ DOMAIN returned = Thread
    /\ notes \in [Thread -> {{}} \cup {{n} : n \in Notification}]

(* Count() counts subscriptions: no subscription holds two records,        *)
(* whichever threads subscribe to it at once and however often.            *)
CountIsExact == Count = Cardinality(Members)

(* The calls of all threads behave like calls on a set of at most Capacity *)
(* descriptors: "true when the subscription is present after the call",    *)
(* refusals only of what is not there and only when the set is full, and   *)
(* IsSubscribed() true for exactly the devices a member accepts.           *)
Set == INSTANCE SubscriptionSet WITH
    Item <- Descriptor,
    Question <- {Accepting(d, x) : d \in Device, x \in Definition},
    Client <- Thread,
    members <- Members,
    answer <- returned

ImplementsSet == Set!Spec
=================================================================================
