--------------------------- MODULE SubscriberRegistry ---------------------------
(***************************************************************************)
(* StateSubscriberRegistry<TContract, TMaximumSubscribers>: the remote     *)
(* devices that want states of this one.  An array of records, one per     *)
(* device, under a mutex; a call that changes it notifies the observers,   *)
(* and ForEachSubscriber() calls back for the devices it has copied, after *)
(* the mutex has been released.                                            *)
(*                                                                         *)
(* A failed EnsureSubscribers(), like a type outside the contract, makes   *)
(* every operation return before it touches anything: a stuttering step.   *)
(* Definitions that no action uses are faulty variants of the definition   *)
(* below them; README.md says which property each of them would break.     *)
(***************************************************************************)
EXTENDS Naturals, FiniteSets, Sequences

CONSTANTS
    Device,              \* Device identifiers, the all-zero one included.
    ZeroDevice,          \* The all-zero identifier.
    Definition,          \* State definitions of the contract.
    MaximumSubscribers,  \* TMaximumSubscribers.
    Thread               \* Threads that call the registry.

ASSUME SubscriberAssumption ==
    ZeroDevice \in Device /\ MaximumSubscribers \in Nat

VARIABLES
    subscribers,  \* _subscribers.
    call,         \* Per thread, what its current call has still to do.
    asked         \* History: the <<device, definition>> pairs that the calls,
                  \* in the order of their critical sections, add up to.

vars == <<subscribers, call, asked>>

SubscriberRecord == [used : BOOLEAN, device : Device, states : SUBSET Definition]
FreeRecord == [used |-> FALSE, device |-> ZeroDevice, states |-> {}]

Slots == 1 .. MaximumSubscribers

First(S) == {i \in S : \A j \in S : i <= j}

Used == {i \in Slots : subscribers[i].used}

FindLocked(d) == First({i \in Used : subscribers[i].device = d})

AlwaysTakesAFreeRecord(d) == IF d = ZeroDevice THEN {} ELSE First(Slots \ Used)

TriesTheFirstRecordOnly(d) ==
    IF d = ZeroDevice THEN {}
    ELSE IF FindLocked(d) # {} THEN FindLocked(d) ELSE {1} \ Used

(* The record for a device, an existing or a new one; none if d is zero or *)
(* the registry is full.                                                   *)
FindOrCreateLocked(d) ==
    IF d = ZeroDevice THEN {}
    ELSE IF FindLocked(d) # {} THEN FindLocked(d) ELSE First(Slots \ Used)

(***************************************************************************)
(* Queries: IsSubscribed() looks at the first record of the device,        *)
(* HasSubscribers() and ForEachSubscriber() at every record.               *)
(***************************************************************************)
IsSubscribed(d, x) == \E i \in FindLocked(d) : x \in subscribers[i].states

HasSubscribers(x) == \E i \in Used : x \in subscribers[i].states

(* The devices subscribed to x, in the order of their records.             *)
Matches(x) == {i \in Used : x \in subscribers[i].states}

InOrder(S) ==
    CHOOSE q \in [1 .. Cardinality(S) -> S] :
        \A i, j \in 1 .. Cardinality(S) : i < j => q[i] < q[j]

Subscribers(x) ==
    [n \in 1 .. Cardinality(Matches(x)) |-> subscribers[InOrder(Matches(x))[n]].device]

(***************************************************************************)
(* The calls.                                                              *)
(***************************************************************************)
NoCall == [step |-> "idle"]
Note(kind, d, x) == [step |-> "notify", kind |-> kind, device |-> d, def |-> x]
Visiting(x, todo) == [step |-> "visiting", def |-> x, todo |-> todo]

Idle(t) == call[t] = NoCall
Goto(t, c) == call' = [call EXCEPT ![t] = c]

Added(t, d, x) ==
    /\ Idle(t)
    /\ \E i \in FindOrCreateLocked(d) :
          /\ x \notin subscribers[i].states
          /\ subscribers' = [subscribers EXCEPT ![i] =
                [used |-> TRUE, device |-> d, states |-> @.states \cup {x}]]
    /\ asked' = asked \cup {<<d, x>>}
    /\ Goto(t, Note("Added", d, x))

CapacityExhausted(t, d, x) ==
    /\ Idle(t)
    /\ FindOrCreateLocked(d) = {}
    /\ Goto(t, Note("CapacityExhausted", d, x))
    /\ UNCHANGED <<subscribers, asked>>

(* Subscribing to what is subscribed changes nothing: a stuttering step.   *)
Subscribe(t, d, x) == Added(t, d, x) \/ CapacityExhausted(t, d, x)

Unsubscribe(t, d, x) ==
    /\ Idle(t)
    /\ \E i \in FindLocked(d) :
          /\ x \in subscribers[i].states
          /\ subscribers' = [subscribers EXCEPT ![i].states = @ \ {x}]
    /\ asked' = asked \ {<<d, x>>}
    /\ Goto(t, Note("Removed", d, x))

ClearsTheFlagOnly(r) == [r EXCEPT !.used = FALSE]

Released(r) == FreeRecord

Remove(t, d) ==
    /\ Idle(t)
    /\ \E i \in FindLocked(d) :
          subscribers' = [subscribers EXCEPT ![i] = Released(@)]
    /\ asked' = asked \ ({d} \X Definition)
    /\ Goto(t, Note("DeviceRemoved", d, "all"))

ForEachSubscriber(t, x) ==
    /\ Idle(t)
    /\ Subscribers(x) # <<>>
    /\ Goto(t, Visiting(x, Subscribers(x)))
    /\ UNCHANGED <<subscribers, asked>>

(* One callback, without the mutex: it, and other threads, may change the  *)
(* registry before the next one.                                           *)
Callback(t) ==
    /\ call[t].step = "visiting"
    /\ Goto(t, IF Len(call[t].todo) = 1 THEN NoCall
               ELSE [call[t] EXCEPT !.todo = Tail(@)])
    /\ UNCHANGED <<subscribers, asked>>

Notify(t) ==
    /\ call[t].step = "notify"
    /\ Goto(t, NoCall)
    /\ UNCHANGED <<subscribers, asked>>

Init ==
    /\ subscribers = [i \in Slots |-> FreeRecord]
    /\ call = [t \in Thread |-> NoCall]
    /\ asked = {}

Next ==
    \E t \in Thread :
        \/ \E d \in Device, x \in Definition : Subscribe(t, d, x) \/ Unsubscribe(t, d, x)
        \/ \E d \in Device : Remove(t, d)
        \/ \E x \in Definition : ForEachSubscriber(t, x)
        \/ Callback(t)
        \/ Notify(t)

Spec == Init /\ [][Next]_vars

(***************************************************************************)
(* Properties.                                                             *)
(***************************************************************************)

(* What a thread may be about to do.                                       *)
Call ==
    {NoCall}
    \cup [step : {"notify"}, device : Device, def : Definition \cup {"all"},
          kind : {"Added", "Removed", "DeviceRemoved", "CapacityExhausted"}]
    \cup [step : {"visiting"}, def : Definition, todo : Seq(Device)]

(* The state has its type; a record that is not in use is a fresh one.     *)
TypeOK ==
    /\ subscribers \in [Slots -> SubscriberRecord]
    /\ \A i \in Slots \ Used : subscribers[i] = FreeRecord
    /\ call \in [Thread -> Call]
    /\ asked \subseteq Device \X Definition

(* IsSubscribed(), HasSubscribers() and ForEachSubscriber() never disagree *)
(* about the same content, although the first stops at the first record of *)
(* a device and the others look at all of them: whatever threads subscribe *)
(* and remove, a device has one record.                                    *)
QueriesAgree ==
    \A x \in Definition :
        LET visited == {Subscribers(x)[i] : i \in DOMAIN Subscribers(x)}
        IN /\ visited = {d \in Device : IsSubscribed(d, x)}
           /\ HasSubscribers(x) <=> visited # {}

(* A traversal calls back for no device twice and never for the all-zero   *)
(* one, even if its callbacks or other threads remove devices and let them *)
(* subscribe again meanwhile: a publisher sends each update once.          *)
VisitedOnce ==
    \A t \in Thread : call[t].step = "visiting" =>
        LET todo == call[t].todo
        IN \A i, j \in DOMAIN todo :
               todo[i] # ZeroDevice /\ (todo[i] = todo[j] => i = j)

(* A named device is only ever refused when MaximumSubscribers other       *)
(* devices have a record: no sequence of calls loses capacity to records   *)
(* that nobody owns.                                                       *)
RefusedOnlyWhenFull ==
    [][\A t \in Thread, d \in Device \ {ZeroDevice}, x \in Definition :
          CapacityExhausted(t, d, x) =>
              Cardinality({subscribers[i].device : i \in Used} \ {d})
                  = MaximumSubscribers]_vars

(* A device is subscribed to what it, or a transport for it, asked for and *)
(* did not take back: a device that gets the record of one that was        *)
(* removed inherits nothing, a device that comes back starts afresh, and   *)
(* no unsubscription leaves something behind.                              *)
SubscribedAsAsked ==
    asked = {p \in Device \X Definition : IsSubscribed(p[1], p[2])}
=================================================================================
