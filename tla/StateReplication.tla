---------------------------- MODULE StateReplication ----------------------------
(***************************************************************************)
(* One state on its way from its owner to one consumer: the publisher and  *)
(* the tracker of the origin, a network, and the consumer's manager.       *)
(*                                                                         *)
(* What joins them, the transport, is outside the repository and taken     *)
(* from what its documents ask of one: it observes the publisher, hands    *)
(* what is announced to the tracker, sends what is retained until it is    *)
(* acknowledged, answers a subscription or a request to resynchronise with *)
(* a snapshot, and acknowledges what the manager accepted or already has.  *)
(* The network loses, repeats, delays and reorders: a frame stays on the   *)
(* wire, to be received at any time, any number of times, or never, and an *)
(* acknowledgement may be lost until it is sent again.  Both devices keep  *)
(* everything in memory and may restart.                                   *)
(*                                                                         *)
(* Definitions that no action uses are faulty variants of the definition   *)
(* below them; README.md says which property each of them would break.     *)
(***************************************************************************)
EXTENDS PublicationTracker, Integers, Sequences

CONSTANTS
    Thread,           \* Threads of the origin that publish and answer requests.
    Value,            \* Values of the state: integers with a distance.
    DefaultValue,     \* What the consumer's slot holds before an update.
    Tolerance,        \* Values this close are semantically equal.
    RevisionModulus,  \* 2^w for revisions of w bits.
    CommitLimit,      \* Bound: updates of the first life of the origin, one less in
                      \* each life that follows.
    ResetLimit,       \* Bound: how often the source is registered in one life.
    IncidentLimit     \* Bound: restarts and requests to resynchronise.

ASSUME ReplicationAssumption ==
    /\ Value \subseteq Int /\ DefaultValue \in Value
    /\ Tolerance \in Nat
    /\ RevisionModulus \in Nat \ {0, 1}
    /\ CommitLimit \in Nat

VARIABLES
    owner, due, source, lastPublished, revision, resets, call,
    published, announced, snapshots,      \* The publisher.
    devices, availability, slot, notes,   \* The consumer's manager.
    retained,    \* The value of the tracker's update, next to pendingUpdate.
    epoch,       \* StatePublisher::_epoch.
    subscribed,  \* The origin knows the consumer as a subscriber.
    wanted,      \* The consumer's request for a snapshot is on its way.
    wire,        \* Updates that were sent.
    acks,        \* Acknowledgements that were sent to the origin.
    incidents    \* How many restarts and requests there have been.

publisherVars ==
    <<owner, due, source, lastPublished, revision, resets, call, published,
      announced, snapshots>>
managerVars == <<devices, availability, slot, notes>>
trackerVars == <<vars, retained>>
networkVars == <<wire, acks>>
sessionVars == <<epoch, subscribed, wanted, incidents>>
replicationVars ==
    <<publisherVars, managerVars, trackerVars, networkVars, sessionVars>>

Publisher == INSTANCE StatePublisher

Manager ==
    INSTANCE RemoteStateManager WITH
        Device <- {"origin", "none"}, ZeroDevice <- "none", Definition <- {"state"},
        Reported <- {}, MaximumDevices <- 1, Thread <- {"receiver"}

Held == slot["origin"]["state"]

Frame == [epoch |-> pendingUpdate.epoch, revision |-> pendingUpdate.revision,
          value |-> retained]

(* No call of the publisher is in progress.                                *)
AtRest == \A t \in Thread : Publisher!Idle(t)

(***************************************************************************)
(* The origin.  One context owns the value: it changes it, publishes it    *)
(* and answers requests, one at a time.                                    *)
(***************************************************************************)
OnlyPublisher == UNCHANGED <<managerVars, trackerVars, networkVars, sessionVars>>

ChangeOwner == AtRest /\ Publisher!OwnerChanges /\ OnlyPublisher

RegisterSource(t) == AtRest /\ Publisher!RegisterSource(t) /\ OnlyPublisher

StartPublish(t) ==
    /\ AtRest /\ due
    /\ Len(published) + epoch <= CommitLimit
    /\ Publisher!Pin(t, "publish")
    /\ OnlyPublisher

CallSource(t) == Publisher!CallSource(t) /\ OnlyPublisher

CommitPublish(t) == Publisher!CommitPublish(t) /\ OnlyPublisher

(* Replace() with the value that comes with the version.                   *)
HandOver(r, v) ==
    /\ Replace(epoch, r)
    /\ retained' = IF Replaces(epoch, r) THEN v ELSE retained

(* The transport is an observer of the publisher, called by Publish().     *)
Notify(t) ==
    /\ Publisher!Notify(t)
    /\ \/ subscribed /\ HandOver(call[t].update.revision, call[t].update.value)
       \/ ~subscribed /\ UNCHANGED trackerVars
    /\ UNCHANGED <<managerVars, networkVars, sessionVars>>

(* A request reaches the origin, which takes a snapshot to answer it.      *)
Serve(t) ==
    /\ AtRest
    /\ wanted /\ wanted' = FALSE
    /\ subscribed' = TRUE
    /\ \/ Publisher!Pin(t, "snapshot")
       \/ source = 0 /\ UNCHANGED publisherVars
    /\ UNCHANGED <<managerVars, trackerVars, networkVars, epoch, incidents>>

(* The snapshot is handed to the tracker like an update.  Its source is    *)
(* still the registered one: nobody else calls the publisher.              *)
HandOverSnapshot(t) ==
    /\ Publisher!CommitSnapshot(t)
    /\ Publisher!StillRegistered(t)
    /\ HandOver(Publisher!RevisionAfter(FALSE), call[t].value)
    /\ UNCHANGED <<managerVars, networkVars, sessionVars>>

SameEpochAgain == epoch

NextEpoch == epoch + 1

(* The origin restarts: a new publisher and a new tracker, and a new epoch *)
(* "such as after a device restart".  The consumer subscribes again.       *)
RestartOrigin ==
    /\ incidents < IncidentLimit /\ incidents' = incidents + 1
    /\ owner' \in Value /\ due' = TRUE
    /\ source' = 0 /\ lastPublished' = {} /\ revision' = 0 /\ resets' = 0
    /\ call' = [t \in Thread |-> Publisher!NoCall]
    /\ published' = <<>> /\ announced' = {} /\ snapshots' = {}
    /\ pendingUpdate' = NeverReplaced /\ retained' = DefaultValue
    /\ observed' = FALSE /\ mirror' = Unknown
    /\ handed' = {} /\ acked' = {}
    /\ epoch' = NextEpoch
    /\ subscribed' = FALSE
    /\ wanted' = TRUE
    /\ UNCHANGED <<managerVars, networkVars>>

(***************************************************************************)
(* The network and the consumer.                                           *)
(***************************************************************************)
Send ==
    /\ pendingUpdate.pending
    /\ Frame \notin wire /\ wire' = wire \cup {Frame}
    /\ UNCHANGED <<publisherVars, managerVars, trackerVars, acks, sessionVars>>

Contains(f) == Held.hasValue /\ Held.epoch = f.epoch /\ Held.revision = f.revision

OnlyWhatIsNew(f) == Manager!Accepts("origin", "state", f.epoch, f.revision)

(* "Accepted this revision, or already contains that exact revision."      *)
Acknowledges(f) ==
    Manager!Accepts("origin", "state", f.epoch, f.revision) \/ Contains(f)

Receive(f) ==
    /\ f \in wire
    /\ Manager!Apply("receiver", "origin", "state", f.epoch, f.revision, f.value)
    /\ acks' = IF Acknowledges(f) THEN acks \cup {At(f.epoch, f.revision)} ELSE acks
    /\ UNCHANGED <<publisherVars, trackerVars, wire, sessionVars>>

AnnounceReceived ==
    /\ Manager!Announce("receiver")
    /\ UNCHANGED <<publisherVars, trackerVars, networkVars, sessionVars>>

AckArrives(a) ==
    /\ a \in acks
    /\ Acknowledge(a.epoch, a.revision)
    /\ UNCHANGED <<publisherVars, managerVars, retained, networkVars, sessionVars>>

LoseAck(a) ==
    /\ a \in acks /\ acks' = acks \ {a}
    /\ UNCHANGED <<publisherVars, managerVars, trackerVars, wire, sessionVars>>

ObserveTracker ==
    /\ RegisterObserver
    /\ UNCHANGED <<publisherVars, managerVars, retained, networkVars, sessionVars>>

(* The consumer asks again, on its own or because it restarted and lost    *)
(* everything.  The transport does not let acknowledgements of the former  *)
(* life through: an acknowledgement does not say whose life it is from.    *)
AskAgain ==
    /\ incidents < IncidentLimit /\ incidents' = incidents + 1
    /\ ~wanted /\ wanted' = TRUE
    /\ UNCHANGED <<publisherVars, managerVars, trackerVars, networkVars, epoch, subscribed>>

RestartConsumer ==
    /\ incidents < IncidentLimit /\ incidents' = incidents + 1
    /\ devices' = {}
    /\ availability' = [availability EXCEPT !["origin"] = "Unknown"]
    /\ slot' = [slot EXCEPT !["origin"]["state"] = Manager!EmptySlot]
    /\ notes' = [notes EXCEPT !["receiver"] = <<>>]
    /\ acks' = {}
    /\ wanted' = TRUE
    /\ UNCHANGED <<publisherVars, trackerVars, wire, epoch, subscribed>>

(***************************************************************************)
(* Specifications.                                                         *)
(***************************************************************************)
ReplicationInit ==
    /\ Publisher!Init /\ Manager!ManagerInit /\ Init
    /\ retained = DefaultValue
    /\ epoch = 1
    /\ subscribed = FALSE
    /\ wanted = TRUE
    /\ wire = {} /\ acks = {}
    /\ incidents = 0

CallStep(t) == CallSource(t) \/ CommitPublish(t) \/ Notify(t) \/ HandOverSnapshot(t)

(* Everything but the answers to requests.                                 *)
CommonNext ==
    \/ ChangeOwner \/ RestartOrigin \/ RestartConsumer \/ AskAgain \/ ObserveTracker
    \/ \E t \in Thread : RegisterSource(t) \/ StartPublish(t) \/ CallStep(t)
    \/ Send \/ AnnounceReceived
    \/ \E f \in wire : Receive(f)
    \/ \E a \in acks : AckArrives(a) \/ LoseAck(a)

(* Requests are answered whenever they come.                               *)
EagerNext == CommonNext \/ \E t \in Thread : Serve(t)

EagerSpec == ReplicationInit /\ [][EagerNext]_replicationVars

(* Requests are answered after the owner has published its last change, or *)
(* while there is no source and so nothing to answer with.                 *)
PromptServe == (~due \/ source = 0) /\ \E t \in Thread : Serve(t)

PromptNext == CommonNext \/ PromptServe

ReceivePending == pendingUpdate.pending /\ Receive(Frame)

AckPending == pendingUpdate.pending /\ AckArrives(Retained)

(* Calls in progress come to an end, requests are answered, and what is    *)
(* sent again and again, and acknowledged again and again, gets through.   *)
PromptSpec ==
    /\ ReplicationInit /\ [][PromptNext]_replicationVars
    /\ \A t \in Thread : WF_replicationVars(CallStep(t))
    /\ WF_replicationVars(PromptServe)
    /\ WF_replicationVars(Send)
    /\ SF_replicationVars(ReceivePending)
    /\ WF_replicationVars(AnnounceReceived)
    /\ SF_replicationVars(AckPending)

(***************************************************************************)
(* Properties, on top of those of the tracker, which hold of every life of *)
(* the origin.                                                             *)
(***************************************************************************)
AnnouncedIsCurrent == Publisher!AnnouncedIsCurrent

(* The consumer holds the publisher's version, with a value that the       *)
(* definition's comparison cannot tell from the published one.             *)
InSync ==
    /\ Held.hasValue
    /\ Held.epoch = epoch
    /\ Held.revision = revision
    /\ \E w \in lastPublished : ~Publisher!StateValueChanged(w, Held.value)

Settled ==
    /\ AtRest /\ ~due /\ source # 0
    /\ subscribed /\ ~wanted
    /\ ~pendingUpdate.pending

(* When the owner has published its last change, requests are answered and *)
(* nothing is pending, the consumer is in sync, whatever was lost, late or *)
(* repeated and whoever restarted: nobody is going to send it anything.    *)
SettledInSync == Settled => InSync

(* An owner that does not change for ever ends up with a consumer that is  *)
(* in sync with what it published.                                         *)
CatchesUp == []<>(due \/ InSync)

(* Whenever an update is pending, it and those that replace it are settled *)
(* in the end, for a publisher does not publish for ever here.             *)
PendingIsResolved == []<>~pendingUpdate.pending
=================================================================================
