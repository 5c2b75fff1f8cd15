---------------------------- MODULE ObserverLifecycle ----------------------------
(***************************************************************************)
(* The life of a RemoteStateObserverThread and of the application that it  *)
(* serves: Prepare(), ShutdownObserverThread() and, since the worker does  *)
(* not deliver what the manager had before, a visit of all that is there   *)
(* with StateIntrospection.  The application does these one after another  *)
(* and keeps the newest version of each state it was shown, by the visit   *)
(* or by the worker.                                                       *)
(*                                                                         *)
(* Callbacks read _prepared without a mutex: one may see an old value      *)
(* unless its call entered the manager's mutex after the application left  *)
(* it.  That the handle is registered is not modelled: it is whenever      *)
(* _prepared is set, and a callback that is not made does what one does    *)
(* that finds _prepared unset.  A worker that was stopped is one that      *)
(* takes no step.                                                          *)
(*                                                                         *)
(* Definitions that no action uses are faulty variants of the definition   *)
(* below them; README.md says which property each of them would break.     *)
(***************************************************************************)
EXTENDS RemoteStateObserverThread

CONSTANTS
    Reporter,    \* The threads that report availability.
    WriteLimit   \* Bound: calls of Prepare() and ShutdownObserverThread().

VARIABLES
    writes,   \* How often _prepared was written: it is set after odd numbers.
    seen,     \* Per thread, the last of these writes that it must have seen.
    entered,  \* Per thread, its callback has found _prepared set.
    phase,    \* What the application did last.
    visit,    \* States that its visit has still to read.
    shown,    \* Per state, the newest version it was shown.
    known     \* Per device, the availability it was shown last.

callbackVars == <<seen, entered>>
applicationVars == <<writes, phase, visit, shown, known>>
lifecycleVars == <<vars, callbackVars, applicationVars>>

Prepared(w) == w % 2 = 1

(***************************************************************************)
(* The threads that call the manager.                                      *)
(***************************************************************************)
CallManager(t) ==
    /\ \E d \in Device \ {ZeroDevice} :
          \/ \E s \in Definition, e \in Epoch, r \in Revision, v \in Value :
                CallApply(t, d, s, e, r, v)
          \/ t \in Reporter /\ \E a \in Reported : CallSetAvailability(t, d, a)
    /\ seen' = [seen EXCEPT ![t] = IF phase = "visited" THEN writes ELSE @]
    /\ UNCHANGED <<entered, applicationVars>>

CheckPrepared(t) ==
    /\ Returned(t) /\ ~entered[t] /\ notes[t] # <<>>
    /\ Head(notes[t]).kind \in {"accepted", "availability"}
    /\ \E w \in seen[t] .. writes :
          /\ seen' = [seen EXCEPT ![t] = w]
          /\ \/ Prepared(w) /\ entered' = [entered EXCEPT ![t] = TRUE] /\ UNCHANGED vars
             \/ ~Prepared(w) /\ Announce(t) /\ UNCHANGED <<markVars, workVars, entered>>
    /\ UNCHANGED applicationVars

(* The rest of the callback.                                               *)
Callback(t) ==
    /\ entered[t] /\ entered' = [entered EXCEPT ![t] = FALSE]
    /\ OnRemoteStateAccepted(t) \/ OnRemoteStateAvailabilityChanged(t)
    /\ UNCHANGED <<seen, applicationVars>>

FinishCall(t) ==
    /\ MarkAllStatesDirty(t) \/ OtherNotification(t)
    /\ UNCHANGED <<callbackVars, applicationVars>>

(***************************************************************************)
(* The application.                                                        *)
(***************************************************************************)
Prepare ==
    /\ ~Prepared(writes) /\ phase # "closing"
    /\ writes < WriteLimit /\ writes' = writes + 1
    /\ phase' = "open"
    /\ UNCHANGED <<vars, callbackVars, visit, shown, known>>

ShutdownObserverThread ==
    /\ Prepared(writes) /\ visit = {}
    /\ writes < WriteLimit /\ writes' = writes + 1
    /\ phase' = "closing"
    /\ UNCHANGED <<vars, callbackVars, visit, shown, known>>

(* The vectors are cleared under _dirtyMutex, which the worker does not    *)
(* hold while it walks two of them: it goes on with their old elements or  *)
(* finds none.                                                             *)
ClearBookkeeping ==
    /\ phase = "closing" /\ phase' = "closed"
    /\ dirtyStates' = {} /\ dirtyAvailability' = {}
    /\ processingStates' \in {processingStates, {x.mark : x \in reading}}
    /\ processingAvailability' \in {processingAvailability, {}}
    /\ deliveredDevices' = {}
    /\ delivered' = [d \in Device |-> [s \in Definition |-> EmptySlot]]
    /\ UNCHANGED <<managerVars, marks, reading, told, callbackVars, writes, visit,
                   shown, known>>

ConnectedStates ==
    {d \in devices : availability[d] = "Connected"} \X Definition

RemoteStates == devices \X Definition

(* ForEachRemoteState(): ForEachDevice() copies the devices with their     *)
(* availability in one section, and each state is read in one of its own.  *)
ForEachDevice ==
    /\ phase = "open" /\ phase' = "visited"
    /\ visit' = RemoteStates
    /\ known' = [d \in Device |-> IF d \in devices THEN availability[d] ELSE known[d]]
    /\ UNCHANGED <<vars, callbackVars, writes, shown>>

Newest(x, y) == IF ~x.hasValue \/ Precedes(x, y) THEN y ELSE x

Visited(m) == {x.state : x \in {y \in Read(m[1], m[2]) : y.state.hasValue}}

VisitDeviceStates ==
    /\ \E m \in visit :
          /\ visit' = visit \ {m}
          /\ \/ \E x \in Visited(m) : shown' = [shown EXCEPT ![m[1]][m[2]] = Newest(@, x)]
             \/ Visited(m) = {} /\ UNCHANGED shown
    /\ UNCHANGED <<vars, callbackVars, writes, phase, known>>

(* The worker, and what the application is told by it.                     *)
Tells ==
    /\ shown' = [d \in Device |-> [s \in Definition |->
           IF delivered'[d][s] = delivered[d][s] THEN shown[d][s]
           ELSE Newest(shown[d][s], delivered'[d][s])]]
    /\ known' = [d \in Device |->
           IF \E r \in processingAvailability \ processingAvailability' : r.device = d
           THEN told'[d] ELSE known[d]]

Work == Worker /\ Tells /\ UNCHANGED <<callbackVars, writes, phase, visit>>

LifecycleInit ==
    /\ Init
    /\ writes = 0
    /\ seen = [t \in Thread |-> 0]
    /\ entered = [t \in Thread |-> FALSE]
    /\ phase = "closed"
    /\ visit = {}
    /\ shown = delivered
    /\ known = told

LifecycleNext ==
    \/ \E t \in Thread : \/ CallManager(t) \/ CheckPrepared(t) \/ Callback(t) \/ FinishCall(t)
    \/ Prepare \/ ShutdownObserverThread \/ ClearBookkeeping
    \/ ForEachDevice \/ VisitDeviceStates
    \/ Work

(* The worker's loop runs at least once per period, and a thread that is   *)
(* inside a call of the manager gets out of it.  Nobody has to call the    *)
(* manager, to prepare or to visit.                                        *)
LifecycleSpec ==
    /\ LifecycleInit /\ [][LifecycleNext]_lifecycleVars
    /\ WF_lifecycleVars(Work)
    /\ \A t \in Thread :
          WF_lifecycleVars(CheckPrepared(t) \/ Callback(t) \/ FinishCall(t))

(***************************************************************************)
(* Properties.                                                             *)
(***************************************************************************)
CaughtUp == phase = "visited" /\ visit = {}

(* An application that visits what is there after Prepare() misses         *)
(* nothing: whatever the manager got before, during or after Prepare() and *)
(* the visit, the application was shown it, or it is on its way: a thread  *)
(* is about to announce it, it is marked, or the worker deals with it.     *)
(* The same after ShutdownObserverThread() and another Prepare().          *)
ShownOrOnItsWay ==
    \A d \in Device, s \in Definition :
        LET mine == slot[d][s]
            copies == {x \in reading : x.mark = <<d, s>>}
        IN CaughtUp /\ mine.hasValue =>
              \/ shown[d][s].hasValue /\ shown[d][s].value = mine.value
              \/ \E t \in Thread : Announcing(t, d, s)
              \/ <<d, s>> \in dirtyStates
              \/ <<d, s>> \in processingStates /\ copies = {}
              \/ \E x \in copies : x.state.value = mine.value

(* With one thread that reports availability, an application that was not  *)
(* shut down knows the availability of every device once nothing is under  *)
(* way, although transitions before Prepare() are never told.              *)
AvailabilityKnown ==
    \A d \in devices :
        CaughtUp /\ writes = 1 /\ AvailabilityQuiet(d) => known[d] = availability[d]

(* The versions that the worker tells of a state never go back while it    *)
(* lives.                                                                  *)
DeliveredAdvances ==
    [][\A d \in Device, s \in Definition :
          delivered[d][s].hasValue /\ delivered'[d][s].hasValue =>
             ~Precedes(delivered'[d][s], delivered[d][s])]_lifecycleVars

(* As often as a state changes, an application that prepared and visited   *)
(* is shown its value in the end, until it shuts the worker down.          *)
ChangesAreShown ==
    \A d \in Device \ {ZeroDevice}, s \in Definition :
        []<>(CaughtUp /\ slot[d][s].hasValue =>
                shown[d][s].hasValue /\ shown[d][s].value = slot[d][s].value)
================================================================================
