----------------------------- MODULE ReplicationProofs -----------------------------
(***************************************************************************)
(* What the StatePublicationTracker promises for all epochs and revisions  *)
(* and whatever the order of updates and acknowledgements, and what the    *)
(* replication that is built on it promises: publisher, tracker, a network *)
(* that loses, repeats and reorders, the consumer's manager, and restarts. *)
(***************************************************************************)
EXTENDS StateReplication, FiniteSetTheorems, TLAPS

LEMMA AtIsAVersion ==
    ASSUME NEW e \in Nat, NEW r \in Nat
    PROVE  /\ At(e, r) \in Version
           /\ At(e, r).epoch = e /\ At(e, r).revision = r
BY DEF At, Version

LEMMA TypeInit == Init => TypeOK
<1>1. At(0, 0) \in Version
  BY AtIsAVersion
<1>2. Init => pendingUpdate \in PendingStateUpdate /\ pendingUpdate.pending = FALSE
  BY DEF Init, NeverReplaced, PendingStateUpdate
<1>3. Init => Unknown \subseteq Version /\ mirror = Unknown
  BY <1>1 DEF Init, Unknown
<1>4. Init => observed \in BOOLEAN /\ handed = {} /\ acked = {}
  BY DEF Init
<1>5. QED
  BY <1>2, <1>3, <1>4 DEF TypeOK

LEMMA TypeReplace ==
    ASSUME TypeOK, NEW e \in Nat, NEW r \in Nat, Replace(e, r)
    PROVE  TypeOK'
<1>1. At(e, r) \in Version
  BY AtIsAVersion
<1>2. CASE Replaces(e, r)
  BY <1>1, <1>2 DEF Replace, Replaces, Replaced, TypeOK, PendingStateUpdate
<1>3. CASE ~Replaces(e, r)
  BY <1>1, <1>3 DEF Replace, TypeOK
<1>4. QED
  BY <1>2, <1>3

LEMMA TypeAcknowledge ==
    ASSUME TypeOK, NEW e \in Nat, NEW r \in Nat, Acknowledge(e, r)
    PROVE  TypeOK'
<1>1. At(e, r) \in Version
  BY AtIsAVersion
<1>2. CASE Accepts(e, r)
  BY <1>1, <1>2 DEF Acknowledge, Settles, TypeOK, PendingStateUpdate
<1>3. CASE ~Accepts(e, r)
  BY <1>1, <1>3 DEF Acknowledge, TypeOK
<1>4. QED
  BY <1>2, <1>3

(* Every step calls Replace() or Acknowledge() with natural numbers, or    *)
(* registers an observer.                                                  *)
LEMMA StepCases ==
    ASSUME TypeOK, [Next]_vars
    PROVE  \/ \E e \in Nat, r \in Nat : Replace(e, r)
           \/ \E e \in Nat, r \in Nat : Acknowledge(e, r)
           \/ RegisterObserver
           \/ UNCHANGED vars
<1>1. ASSUME AcknowledgeSent PROVE \E e \in Nat, r \in Nat : Acknowledge(e, r)
  <2>1. PICK x \in handed : Acknowledge(x.epoch, x.revision)
    BY <1>1 DEF AcknowledgeSent
  <2>2. x.epoch \in Nat /\ x.revision \in Nat
    BY DEF TypeOK, Version
  <2>3. QED
    BY <2>1, <2>2
<1>2. QED
  BY <1>1, TrackerAssumption DEF Next

LEMMA TypeStep == TypeOK /\ [Next]_vars => TypeOK'
<1> SUFFICES ASSUME TypeOK, [Next]_vars PROVE TypeOK'
  OBVIOUS
<1>1. CASE RegisterObserver
  BY <1>1 DEF RegisterObserver, TypeOK
<1>2. CASE UNCHANGED vars
  BY <1>2 DEF vars, TypeOK
<1>3. QED
  BY <1>1, <1>2, StepCases, TypeReplace, TypeAcknowledge

(* What is pending has a valid revision, and everything is a version.      *)
THEOREM TypeCorrect == Spec => []TypeOK
BY TypeInit, TypeStep, PTL DEF Spec

(***************************************************************************)
(* Nothing is dropped unacknowledged.  The invariant alone does not say    *)
(* that something pending was handed over.                                 *)
(***************************************************************************)
Tracked ==
    /\ NothingDroppedUnacknowledged
    /\ pendingUpdate.pending => Retained \in handed

LEMMA TrackedReplace ==
    ASSUME TypeOK, Tracked, NEW e \in Nat, NEW r \in Nat, Replace(e, r)
    PROVE  Tracked'
<1>1. /\ handed' = handed \cup {At(e, r)} /\ acked' = acked
      /\ At(e, r).epoch = e /\ At(e, r).revision = r
  BY AtIsAVersion DEF Replace
<1>2. CASE Replaces(e, r)
  <2>1. /\ pendingUpdate'.pending = TRUE
        /\ pendingUpdate'.epoch = e /\ pendingUpdate'.revision = r
    BY <1>2 DEF Replace, Replaced, TypeOK, PendingStateUpdate
  <2>2. Retained' = At(e, r)
    BY <2>1 DEF Retained
  <2>3. QED
    BY <1>1, <2>1, <2>2 DEF Tracked, NothingDroppedUnacknowledged
<1>3. CASE ~Replaces(e, r)
  <2>1. UNCHANGED pendingUpdate /\ Retained' = Retained
    BY <1>3 DEF Replace, Retained
  <2>2. CASE pendingUpdate.pending
    BY <1>1, <2>1, <2>2 DEF Tracked, NothingDroppedUnacknowledged
  <2>3. CASE ~pendingUpdate.pending
    <3>1. r = 0
      BY <1>3, <2>3 DEF Replaces
    <3>2. QED
      BY <1>1, <2>1, <2>3, <3>1 DEF Tracked, NothingDroppedUnacknowledged
  <2>4. QED
    BY <2>2, <2>3
<1>4. QED
  BY <1>2, <1>3

LEMMA TrackedAcknowledge ==
    ASSUME TypeOK, Tracked, NEW e \in Nat, NEW r \in Nat, Acknowledge(e, r)
    PROVE  Tracked'
<1>1. /\ acked' = acked \cup {At(e, r)} /\ handed' = handed
      /\ At(e, r).epoch = e /\ At(e, r).revision = r
  BY AtIsAVersion DEF Acknowledge
<1>2. /\ pendingUpdate'.epoch = pendingUpdate.epoch
      /\ pendingUpdate'.revision = pendingUpdate.revision
      /\ pendingUpdate'.pending => pendingUpdate.pending
      /\ pendingUpdate.pending /\ ~pendingUpdate'.pending => Settles(e, r)
  BY DEF Acknowledge, TypeOK, PendingStateUpdate
<1>3. Retained' = Retained
  BY <1>2 DEF Retained
<1>4. CASE pendingUpdate.pending /\ ~pendingUpdate'.pending
  <2>1. e = pendingUpdate.epoch /\ r >= pendingUpdate.revision
    BY <1>2, <1>4 DEF Settles
  <2>2. \E x \in acked' : /\ x.epoch = pendingUpdate'.epoch
                          /\ x.revision >= pendingUpdate'.revision
    BY <1>1, <1>2, <2>1
  <2>3. QED
    BY <1>1, <1>3, <1>4, <2>2 DEF Tracked, NothingDroppedUnacknowledged
<1>5. CASE ~(pendingUpdate.pending /\ ~pendingUpdate'.pending)
  BY <1>1, <1>2, <1>3, <1>5 DEF Tracked, NothingDroppedUnacknowledged
<1>6. QED
  BY <1>4, <1>5

LEMMA TrackedStep == TypeOK /\ Tracked /\ [Next]_vars => Tracked'
<1> SUFFICES ASSUME TypeOK, Tracked, [Next]_vars PROVE Tracked'
  OBVIOUS
<1>1. CASE RegisterObserver
  BY <1>1 DEF RegisterObserver, Tracked, NothingDroppedUnacknowledged, Retained
<1>2. CASE UNCHANGED vars
  BY <1>2 DEF vars, Tracked, NothingDroppedUnacknowledged, Retained
<1>3. QED
  BY <1>1, <1>2, StepCases, TrackedReplace, TrackedAcknowledge

(* An update stops being pending only because it, or a later revision of   *)
(* its epoch, was acknowledged.                                            *)
THEOREM NeverDropped == Spec => []NothingDroppedUnacknowledged
<1>1. Init => Tracked
  BY DEF Init, NeverReplaced, Tracked, NothingDroppedUnacknowledged
<1>2. Spec => []Tracked
  BY <1>1, TypeCorrect, TrackedStep, PTL DEF Spec
<1>3. Tracked => NothingDroppedUnacknowledged
  BY DEF Tracked
<1>4. QED
  BY <1>2, <1>3, PTL

(***************************************************************************)
(* The notifications tell what is pending.  Before an observer is          *)
(* registered there are none.                                              *)
(***************************************************************************)
Mirrored == MirrorAgrees /\ (~observed => mirror = Unknown)

LEMMA MirroredReplace ==
    ASSUME TypeOK, Mirrored, NEW e \in Nat, NEW r \in Nat, Replace(e, r)
    PROVE  Mirrored'
<1>1. CASE Replaces(e, r)
  <2>1. pendingUpdate'.pending = TRUE /\ Retained' = At(e, r)
    BY <1>1 DEF Replace, Replaced, Retained, TypeOK, PendingStateUpdate
  <2>2. QED
    BY <1>1, <2>1 DEF Replace, Mirrored, MirrorAgrees
<1>2. CASE ~Replaces(e, r)
  BY <1>2 DEF Replace, Retained, Mirrored, MirrorAgrees
<1>3. QED
  BY <1>1, <1>2

LEMMA MirroredAcknowledge ==
    ASSUME TypeOK, Mirrored, NEW e \in Nat, NEW r \in Nat, Acknowledge(e, r)
    PROVE  Mirrored'
<1>1. UNCHANGED observed
  BY DEF Acknowledge
<1>2. CASE Accepts(e, r) /\ Settles(e, r)
  <2>1. pendingUpdate'.pending = FALSE
    BY <1>2 DEF Acknowledge, TypeOK, PendingStateUpdate
  <2>2. mirror' = IF observed THEN {} ELSE mirror
    BY <1>2 DEF Acknowledge, AnnouncesAcknowledged
  <2>3. QED
    BY <1>1, <2>1, <2>2 DEF Mirrored, MirrorAgrees
<1>3. CASE ~(Accepts(e, r) /\ Settles(e, r))
  <2>1. /\ pendingUpdate'.pending = pendingUpdate.pending
        /\ pendingUpdate'.epoch = pendingUpdate.epoch
        /\ pendingUpdate'.revision = pendingUpdate.revision
    BY <1>3 DEF Acknowledge, TypeOK, PendingStateUpdate
  <2>2. UNCHANGED mirror
    BY <1>3 DEF Acknowledge, AnnouncesAcknowledged
  <2>3. QED
    BY <1>1, <2>1, <2>2 DEF Mirrored, MirrorAgrees, Retained
<1>4. QED
  BY <1>2, <1>3

LEMMA MirroredRegister == Mirrored /\ RegisterObserver => Mirrored'
BY DEF RegisterObserver, Mirrored, MirrorAgrees, Retained

LEMMA MirroredStep == TypeOK /\ Mirrored /\ [Next]_vars => Mirrored'
<1> SUFFICES ASSUME TypeOK, Mirrored, [Next]_vars PROVE Mirrored'
  OBVIOUS
<1>1. CASE UNCHANGED vars
  BY <1>1 DEF vars, Mirrored, MirrorAgrees, Retained
<1>2. QED
  BY <1>1, StepCases, MirroredReplace, MirroredAcknowledge, MirroredRegister

(* A lifecycle observer knows from its first notification on what is       *)
(* pending.                                                                *)
THEOREM NotificationsTell == Spec => []MirrorAgrees
<1>1. Init => Mirrored
  BY DEF Init, NeverReplaced, Mirrored, MirrorAgrees
<1>2. Spec => []Mirrored
  BY <1>1, TypeCorrect, MirroredStep, PTL DEF Spec
<1>3. Mirrored => MirrorAgrees
  BY DEF Mirrored
<1>4. QED
  BY <1>2, <1>3, PTL

(***************************************************************************)
(* Replication.  First what the calls of the tracker do, in plain words.   *)
(***************************************************************************)
LEMMA HandOverDoes ==
    ASSUME TypeOK, epoch \in Nat, NEW r \in Nat \ {0}, NEW v, HandOver(r, v)
    PROVE  /\ handed' = handed \cup {At(epoch, r)}
           /\ UNCHANGED <<observed, acked>>
           /\ \/ /\ pendingUpdate'.pending = TRUE
                 /\ pendingUpdate'.epoch = epoch
                 /\ pendingUpdate'.revision = r
                 /\ pendingUpdate'.lastAcknowledged = pendingUpdate.lastAcknowledged
                 /\ retained' = v
              \/ /\ pendingUpdate.pending
                 /\ \/ epoch < pendingUpdate.epoch
                    \/ epoch = pendingUpdate.epoch /\ r <= pendingUpdate.revision
                 /\ UNCHANGED <<pendingUpdate, retained>>
<1>1. Replace(epoch, r) /\ retained' = IF Replaces(epoch, r) THEN v ELSE retained
  BY DEF HandOver
<1>2. handed' = handed \cup {At(epoch, r)} /\ UNCHANGED <<observed, acked>>
  BY <1>1 DEF Replace
<1>3. CASE Replaces(epoch, r)
  <2>1. pendingUpdate' = Replaced(epoch, r) /\ retained' = v
    BY <1>1, <1>3 DEF Replace
  <2>2. QED
    BY <1>2, <2>1 DEF Replaced, TypeOK, PendingStateUpdate
<1>4. CASE ~Replaces(epoch, r)
  <2>1. UNCHANGED <<pendingUpdate, retained>>
    BY <1>1, <1>4 DEF Replace
  <2>2. QED
    BY <1>2, <1>4, <2>1 DEF Replaces
<1>5. QED
  BY <1>3, <1>4

LEMMA AcknowledgeDoes ==
    ASSUME TypeOK, NEW e \in Nat, NEW r \in Nat, Acknowledge(e, r)
    PROVE  /\ acked' = acked \cup {At(e, r)}
           /\ UNCHANGED <<observed, handed>>
           /\ pendingUpdate'.epoch = pendingUpdate.epoch
           /\ pendingUpdate'.revision = pendingUpdate.revision
           /\ \/ UNCHANGED pendingUpdate
              \/ /\ e = pendingUpdate.epoch /\ r # 0
                 /\ pendingUpdate'.lastAcknowledged = r
                 /\ pendingUpdate'.pending = pendingUpdate.pending
              \/ /\ e = pendingUpdate.epoch /\ r # 0
                 /\ pendingUpdate.pending /\ r >= pendingUpdate.revision
                 /\ pendingUpdate'.lastAcknowledged = r
                 /\ pendingUpdate'.pending = FALSE
<1>1. acked' = acked \cup {At(e, r)} /\ UNCHANGED <<observed, handed>>
  BY DEF Acknowledge
<1>2. CASE Accepts(e, r)
  <2>1. pendingUpdate' =
            [pendingUpdate EXCEPT !.lastAcknowledged = r,
                                  !.pending = pendingUpdate.pending /\ ~Settles(e, r)]
    BY <1>2 DEF Acknowledge
  <2>2. /\ pendingUpdate'.epoch = pendingUpdate.epoch
        /\ pendingUpdate'.revision = pendingUpdate.revision
        /\ pendingUpdate'.lastAcknowledged = r
        /\ pendingUpdate'.pending = (pendingUpdate.pending /\ ~Settles(e, r))
    BY <2>1 DEF TypeOK, PendingStateUpdate
  <2>3. CASE Settles(e, r)
    BY <1>1, <1>2, <2>2, <2>3 DEF Accepts, Settles
  <2>4. CASE ~Settles(e, r)
    <3>1. pendingUpdate'.pending = pendingUpdate.pending
      BY <2>2, <2>4 DEF TypeOK, PendingStateUpdate
    <3>2. QED
      BY <1>1, <1>2, <2>2, <3>1 DEF Accepts
  <2>5. QED
    BY <2>3, <2>4
<1>3. CASE ~Accepts(e, r)
  BY <1>1, <1>3 DEF Acknowledge
<1>4. QED
  BY <1>2, <1>3

(***************************************************************************)
(* What the steps of a replication do, in groups of variables.             *)
(***************************************************************************)
SameSlot == UNCHANGED <<source, lastPublished, revision, resets, published>>
SamePublisher == SameSlot /\ UNCHANGED <<owner, due, call, announced>>
SameTracker == UNCHANGED <<pendingUpdate, observed, mirror, handed, acked, retained>>
SameConsumer == UNCHANGED <<devices, slot>>
SameNetwork == UNCHANGED <<wire, acks>>
SameLife == UNCHANGED <<epoch, subscribed>>
SameOthers == SameTracker /\ SameConsumer /\ SameNetwork /\ SameLife /\ wanted' = wanted

GoesTo(t, c) == call' = [call EXCEPT ![t] = c]

LEMMA OnlyPublisherDoes == OnlyPublisher => SameOthers
BY DEF OnlyPublisher, SameOthers, SameTracker, SameConsumer, SameNetwork, SameLife,
       managerVars, trackerVars, vars, networkVars, sessionVars

LEMMA SamePublisherVars == UNCHANGED publisherVars => SamePublisher
BY DEF publisherVars, SamePublisher, SameSlot

LEMMA ChangeOwnerDoes ==
    ASSUME ChangeOwner
    PROVE  /\ AtRest /\ owner' \in Value /\ due' = TRUE
           /\ SameSlot /\ UNCHANGED <<call, announced>> /\ SameOthers
<1>1. PICK v \in Value : Publisher!ChangeOwner(v)
  BY DEF ChangeOwner, Publisher!OwnerChanges
<1>2. QED
  BY <1>1, OnlyPublisherDoes
     DEF ChangeOwner, Publisher!ChangeOwner, Publisher!slotVars, Publisher!historyVars, SameSlot

LEMMA RegisterSourceDoes ==
    ASSUME NEW t \in Thread, RegisterSource(t)
    PROVE  /\ AtRest
           /\ resets' = resets + 1 /\ source' = resets + 1
           /\ lastPublished' = {} /\ due' = TRUE
           /\ UNCHANGED <<owner, revision, call, published, announced>> /\ SameOthers
BY OnlyPublisherDoes DEF RegisterSource, Publisher!RegisterSource, Publisher!historyVars

(* The first part of Publish() and of Snapshot().                          *)
LEMMA PinDoes ==
    ASSUME NEW t \in Thread, NEW op, Publisher!Pin(t, op)
    PROVE  /\ source # 0
           /\ GoesTo(t, Publisher!Pinned(op, source))
           /\ due' = (due /\ op # "publish")
           /\ SameSlot /\ UNCHANGED <<owner, announced>>
BY DEF Publisher!Pin, Publisher!Goto, GoesTo, Publisher!slotVars, Publisher!historyVars, SameSlot

LEMMA StartPublishDoes ==
    ASSUME NEW t \in Thread, StartPublish(t)
    PROVE  /\ AtRest /\ source # 0 /\ Len(published) + epoch <= CommitLimit
           /\ GoesTo(t, Publisher!Pinned("publish", source)) /\ due' = FALSE
           /\ SameSlot /\ UNCHANGED <<owner, announced>> /\ SameOthers
BY OnlyPublisherDoes, PinDoes DEF StartPublish

LEMMA CallSourceDoes ==
    ASSUME NEW t \in Thread, CallSource(t)
    PROVE  /\ call[t].step = "pinned"
           /\ GoesTo(t, Publisher!Sampled(call[t].op, call[t].source, owner))
           /\ SameSlot /\ UNCHANGED <<owner, due, announced>> /\ SameOthers
BY OnlyPublisherDoes
   DEF CallSource, Publisher!CallSource, Publisher!Goto, GoesTo, Publisher!slotVars,
       Publisher!historyVars, SameSlot

Update(t) ==
    [revision |-> Publisher!RevisionAfter(TRUE), value |-> call[t].value,
     source |-> call[t].source, reset |-> resets]

LEMMA CommitPublishDoes ==
    ASSUME NEW t \in Thread, CommitPublish(t)
    PROVE  /\ call[t].step = "sampled" /\ call[t].op # "snapshot"
           /\ UNCHANGED <<owner, due, source, resets, announced>> /\ SameOthers
           /\ \/ /\ lastPublished' = {call[t].value}
                 /\ revision' = Publisher!RevisionAfter(TRUE)
                 /\ published' = Append(published, Update(t))
                 /\ GoesTo(t, Publisher!Committed(Update(t)))
              \/ /\ ~Publisher!StillRegistered(t) \/ ~Publisher!IsMeaningfulChange(call[t].value)
                 /\ UNCHANGED <<lastPublished, revision, published>>
                 /\ GoesTo(t, Publisher!NoCall)
<1>1. Publisher!CommitPublish(t) /\ SameOthers
  BY OnlyPublisherDoes DEF CommitPublish
<1>2. /\ call[t].step = "sampled" /\ call[t].op # "snapshot"
      /\ UNCHANGED <<owner, due, source, resets, announced>>
  BY <1>1 DEF Publisher!CommitPublish
<1>3. CASE Publisher!StillRegistered(t) /\ Publisher!IsMeaningfulChange(call[t].value)
  BY <1>1, <1>2, <1>3
     DEF Publisher!CommitPublish, Publisher!Remembered, Publisher!Goto, GoesTo, Update
<1>4. CASE ~(Publisher!StillRegistered(t) /\ Publisher!IsMeaningfulChange(call[t].value))
  BY <1>1, <1>2, <1>4
     DEF Publisher!CommitPublish, Publisher!Remembered, Publisher!Goto, GoesTo
<1>5. QED
  BY <1>3, <1>4

LEMMA NotifyDoes ==
    ASSUME NEW t \in Thread, Notify(t)
    PROVE  /\ call[t].step = "committed"
           /\ announced' = {call[t].update}
           /\ GoesTo(t, Publisher!NoCall)
           /\ SameSlot /\ UNCHANGED <<owner, due>>
           /\ \/ subscribed /\ HandOver(call[t].update.revision, call[t].update.value)
              \/ ~subscribed /\ SameTracker
           /\ SameConsumer /\ SameNetwork /\ SameLife /\ wanted' = wanted
<1>1. /\ SameConsumer /\ SameNetwork /\ SameLife /\ wanted' = wanted
      /\ \/ subscribed /\ HandOver(call[t].update.revision, call[t].update.value)
         \/ ~subscribed /\ SameTracker
  BY DEF Notify, SameConsumer, SameNetwork, SameLife, SameTracker,
         managerVars, trackerVars, vars, networkVars, sessionVars
<1>2. QED
  BY <1>1 DEF Notify, Publisher!Notify, Publisher!Goto, GoesTo, Publisher!slotVars, SameSlot

LEMMA ServeDoes ==
    ASSUME due \in BOOLEAN, NEW t \in Thread, Serve(t)
    PROVE  /\ AtRest /\ wanted' = FALSE /\ subscribed' = TRUE
           /\ SameSlot /\ UNCHANGED <<owner, due, announced>>
           /\ \/ source # 0 /\ GoesTo(t, Publisher!Pinned("snapshot", source))
              \/ source = 0 /\ UNCHANGED call
           /\ SameTracker /\ SameConsumer /\ SameNetwork /\ epoch' = epoch
<1>1. /\ AtRest /\ wanted' = FALSE /\ subscribed' = TRUE
      /\ SameTracker /\ SameConsumer /\ SameNetwork /\ epoch' = epoch
      /\ Publisher!Pin(t, "snapshot") \/ (source = 0 /\ UNCHANGED publisherVars)
  BY DEF Serve, SameConsumer, SameNetwork, SameTracker, managerVars, trackerVars, vars,
         networkVars
<1>2. CASE Publisher!Pin(t, "snapshot")
  <2>1. due' = (due /\ "snapshot" # "publish")
    BY <1>2, PinDoes
  <2>2. UNCHANGED due
    BY <2>1
  <2>3. QED
    BY <1>1, <1>2, <2>2, PinDoes
<1>3. CASE source = 0 /\ UNCHANGED publisherVars
  BY <1>1, <1>3, SamePublisherVars DEF SamePublisher
<1>4. QED
  BY <1>1, <1>2, <1>3

LEMMA HandOverSnapshotDoes ==
    ASSUME NEW t \in Thread, HandOverSnapshot(t)
    PROVE  /\ call[t].step = "sampled" /\ call[t].op = "snapshot"
           /\ revision' = Publisher!RevisionAfter(FALSE)
           /\ GoesTo(t, Publisher!NoCall)
           /\ UNCHANGED <<owner, due, source, lastPublished, resets, published, announced>>
           /\ HandOver(Publisher!RevisionAfter(FALSE), call[t].value)
           /\ SameConsumer /\ SameNetwork /\ SameLife /\ wanted' = wanted
<1>1. SameConsumer /\ SameNetwork /\ SameLife /\ wanted' = wanted
  BY DEF HandOverSnapshot, SameConsumer, SameNetwork, SameLife, managerVars, networkVars, sessionVars
<1>2. Publisher!CommitSnapshot(t) /\ Publisher!StillRegistered(t)
  BY DEF HandOverSnapshot
<1>3. QED
  BY <1>1, <1>2 DEF HandOverSnapshot, Publisher!CommitSnapshot, Publisher!Goto, GoesTo

LEMMA RestartOriginDoes ==
    ASSUME RestartOrigin
    PROVE  /\ owner' \in Value /\ due' = TRUE
           /\ source' = 0 /\ lastPublished' = {} /\ revision' = 0 /\ resets' = 0
           /\ call' = [t \in Thread |-> Publisher!NoCall]
           /\ published' = <<>> /\ announced' = {}
           /\ pendingUpdate' = NeverReplaced /\ retained' = DefaultValue
           /\ observed' = FALSE /\ mirror' = Unknown
           /\ handed' = {} /\ acked' = {}
           /\ epoch' = epoch + 1 /\ subscribed' = FALSE /\ wanted' = TRUE
           /\ SameConsumer /\ SameNetwork
BY DEF RestartOrigin, NextEpoch, SameConsumer, SameNetwork, managerVars, networkVars

LEMMA SmallStepsDo ==
    /\ AskAgain => /\ SamePublisher /\ SameTracker /\ SameConsumer /\ SameNetwork
                   /\ SameLife /\ wanted' = TRUE
    /\ ObserveTracker => /\ RegisterObserver /\ retained' = retained
                         /\ SamePublisher /\ SameConsumer /\ SameNetwork
                         /\ SameLife /\ wanted' = wanted
    /\ Send => /\ pendingUpdate.pending /\ wire' = wire \cup {Frame} /\ acks' = acks
               /\ SamePublisher /\ SameTracker /\ SameConsumer
               /\ SameLife /\ wanted' = wanted
    /\ AnnounceReceived => SamePublisher /\ SameOthers
    /\ \A a \in acks : LoseAck(a) =>
          /\ acks' = acks \ {a} /\ wire' = wire
          /\ SamePublisher /\ SameTracker /\ SameConsumer /\ SameLife /\ wanted' = wanted
    /\ UNCHANGED replicationVars => SamePublisher /\ SameOthers
<1>1. AskAgain => /\ SamePublisher /\ SameTracker /\ SameConsumer /\ SameNetwork
                  /\ SameLife /\ wanted' = TRUE
  BY SamePublisherVars
     DEF AskAgain, SameTracker, SameConsumer, SameNetwork, SameLife, managerVars,
         trackerVars, vars, networkVars
<1>2. ObserveTracker => /\ RegisterObserver /\ retained' = retained
                        /\ SamePublisher /\ SameConsumer /\ SameNetwork
                        /\ SameLife /\ wanted' = wanted
  BY SamePublisherVars
     DEF ObserveTracker, SameConsumer, SameNetwork, SameLife, managerVars, networkVars,
         sessionVars
<1>3. Send => /\ pendingUpdate.pending /\ wire' = wire \cup {Frame} /\ acks' = acks
              /\ SamePublisher /\ SameTracker /\ SameConsumer
              /\ SameLife /\ wanted' = wanted
  BY SamePublisherVars
     DEF Send, SameTracker, SameConsumer, SameLife, managerVars, trackerVars, vars,
         sessionVars
<1>4. AnnounceReceived => SamePublisher /\ SameOthers
  BY SamePublisherVars
     DEF AnnounceReceived, Manager!Announce, SameOthers, SameTracker, SameConsumer,
         SameNetwork, SameLife, trackerVars, vars, networkVars, sessionVars
<1>5. \A a \in acks : LoseAck(a) =>
          /\ acks' = acks \ {a} /\ wire' = wire
          /\ SamePublisher /\ SameTracker /\ SameConsumer /\ SameLife /\ wanted' = wanted
  BY SamePublisherVars
     DEF LoseAck, SameTracker, SameConsumer, SameLife, managerVars, trackerVars, vars,
         sessionVars
<1>6. UNCHANGED replicationVars => SamePublisher /\ SameOthers
  BY SamePublisherVars
     DEF replicationVars, SameOthers, SameTracker, SameConsumer, SameNetwork, SameLife,
         managerVars, trackerVars, vars, networkVars, sessionVars
<1>7. QED
  BY <1>1, <1>2, <1>3, <1>4, <1>5, <1>6

LEMMA AckArrivesDoes ==
    ASSUME NEW a, AckArrives(a)
    PROVE  /\ a \in acks /\ Acknowledge(a.epoch, a.revision) /\ retained' = retained
           /\ SamePublisher /\ SameConsumer /\ SameNetwork /\ SameLife /\ wanted' = wanted
BY SamePublisherVars
   DEF AckArrives, SameConsumer, SameNetwork, SameLife, managerVars, networkVars, sessionVars

(***************************************************************************)
(* The consumer.  There is always room for its only origin.                *)
(***************************************************************************)
VersionOf(f) == At(f.epoch, f.revision)

HeldVersion == VersionOf(Held)

Slots == [{"origin", "none"} -> [{"state"} -> Manager!Slot]]

ConsumerTypes == devices \subseteq {"origin"} /\ slot \in Slots

Frames == [epoch : Nat, revision : Nat, value : Value]

LEMMA HeldIsASlot ==
    ASSUME slot \in Slots
    PROVE  /\ Held \in Manager!Slot
           /\ Held.hasValue \in BOOLEAN /\ Held.epoch \in Nat /\ Held.revision \in Nat
           /\ Held.value \in Value
           /\ HeldVersion.epoch = Held.epoch /\ HeldVersion.revision = Held.revision
<1>1. Held \in Manager!Slot
  BY DEF Held, Slots
<1>2. QED
  BY <1>1 DEF Manager!Slot, HeldVersion, VersionOf, At

LEMMA HasRoom == devices \subseteq {"origin"} => Manager!HasRecord("origin")
<1> SUFFICES ASSUME devices \subseteq {"origin"} PROVE Manager!HasRecord("origin")
  OBVIOUS
<1>1. CASE devices = {}
  <2>1. Manager!Cardinality({}) = Cardinality({})
    BY DEF Manager!Cardinality, Cardinality
  <2>2. QED
    BY <1>1, <2>1, FS_EmptySet DEF Manager!HasRecord
<1>2. CASE devices # {}
  BY <1>2 DEF Manager!HasRecord
<1>3. QED
  BY <1>1, <1>2

(* Storing x makes it what is held.                                        *)
LEMMA Stores ==
    ASSUME slot \in Slots, NEW x \in Manager!Slot,
           slot' = [slot EXCEPT !["origin"]["state"] = x]
    PROVE  slot' \in Slots /\ Held' = x
BY DEF Slots, Held

LEMMA ReceiveDoes ==
    ASSUME ConsumerTypes, NEW f \in Frames, Receive(f)
    PROVE  /\ f \in wire /\ ConsumerTypes'
           /\ \/ /\ Held' = [hasValue |-> TRUE, epoch |-> f.epoch,
                             revision |-> f.revision, value |-> f.value]
                 /\ Held.hasValue => Older(HeldVersion, VersionOf(f))
                 /\ f.revision # 0
                 /\ acks' = acks \cup {VersionOf(f)}
              \/ /\ Held' = Held
                 /\ \/ acks' = acks
                    \/ Contains(f) /\ acks' = acks \cup {VersionOf(f)}
           /\ SamePublisher /\ SameTracker /\ wire' = wire /\ SameLife /\ wanted' = wanted
<1> DEFINE x == [hasValue |-> TRUE, epoch |-> f.epoch, revision |-> f.revision,
                 value |-> f.value]
           accepts == Manager!Accepts("origin", "state", f.epoch, f.revision)
<1>1. /\ f \in wire /\ wire' = wire
      /\ Manager!Apply("receiver", "origin", "state", f.epoch, f.revision, f.value)
      /\ acks' = IF accepts \/ Contains(f) THEN acks \cup {VersionOf(f)} ELSE acks
      /\ SamePublisher /\ SameTracker /\ SameLife /\ wanted' = wanted
  BY SamePublisherVars
     DEF Receive, Acknowledges, VersionOf, SameTracker, SameLife, trackerVars, vars,
         sessionVars
<1>2. devices' \subseteq {"origin"}
  BY <1>1 DEF Manager!Apply, ConsumerTypes
<1>3. f.epoch \in Nat /\ f.revision \in Nat /\ f.value \in Value /\ x \in Manager!Slot
  BY DEF Frames, Manager!Slot
<1>4. CASE accepts
  <2>1. slot' = [slot EXCEPT !["origin"]["state"] = x]
    BY <1>1, <1>4 DEF Manager!Apply
  <2>2. slot' \in Slots /\ Held' = x
    BY <1>3, <2>1, Stores DEF ConsumerTypes
  <2>3. f.revision # 0 /\ ~(Held.hasValue /\ Manager!NotNewer(f.epoch, f.revision, Held))
    BY <1>4 DEF Manager!Accepts, Held
  <2>4. Held.hasValue => Older(HeldVersion, VersionOf(f))
    <3>1. VersionOf(f).epoch = f.epoch /\ VersionOf(f).revision = f.revision
      BY DEF VersionOf, At
    <3>2. QED
      BY <1>3, <2>3, <3>1, HeldIsASlot DEF Manager!NotNewer, Older, ConsumerTypes
  <2>5. QED
    BY <1>1, <1>2, <1>4, <2>2, <2>3, <2>4 DEF ConsumerTypes
<1>5. CASE ~accepts
  <2>1. slot' = slot /\ Held' = Held
    BY <1>1, <1>5 DEF Manager!Apply, Held
  <2>2. QED
    BY <1>1, <1>2, <1>5, <2>1 DEF ConsumerTypes
<1>6. QED
  BY <1>4, <1>5

LEMMA EmptySlotIsTyped ==
    /\ Manager!EmptySlot \in Manager!Slot
    /\ Manager!EmptySlot.hasValue = FALSE
BY ReplicationAssumption DEF Manager!EmptySlot, Manager!Slot

LEMMA RestartConsumerDoes ==
    ASSUME ConsumerTypes, RestartConsumer
    PROVE  /\ ConsumerTypes' /\ Held'.hasValue = FALSE
           /\ acks' = {} /\ wire' = wire /\ wanted' = TRUE
           /\ SamePublisher /\ SameTracker /\ SameLife
<1>1. /\ devices' = {}
      /\ slot' = [slot EXCEPT !["origin"]["state"] = Manager!EmptySlot]
      /\ acks' = {} /\ wire' = wire /\ wanted' = TRUE
      /\ SamePublisher /\ SameTracker /\ SameLife
  BY SamePublisherVars
     DEF RestartConsumer, SameTracker, SameLife, trackerVars, vars
<1>2. slot' \in Slots /\ Held' = Manager!EmptySlot
  BY <1>1, EmptySlotIsTyped, Stores DEF ConsumerTypes
<1>3. QED
  BY <1>1, <1>2, EmptySlotIsTyped DEF ConsumerTypes

(***************************************************************************)
(* Types.                                                                  *)
(***************************************************************************)
PinnedCalls == [step : {"pinned"}, op : {"publish", "snapshot"}, source : Nat]

SampledCalls ==
    [step : {"sampled"}, op : {"publish", "snapshot"}, source : Nat, value : Value]

CommittedCalls == [step : {"committed"}, update : Publisher!Update]

Calls == {Publisher!NoCall} \cup PinnedCalls \cup SampledCalls \cup CommittedCalls

PublisherTypes ==
    /\ owner \in Value /\ due \in BOOLEAN
    /\ source \in Nat /\ resets \in Nat
    /\ lastPublished \subseteq Value
    /\ revision \in Nat
    /\ call \in [Thread -> Calls]
    /\ published \in Seq(Publisher!Update)
    /\ announced \subseteq Publisher!Update

TrackerTypes == TypeOK /\ retained \in Value /\ epoch \in Nat \ {0}

NetworkTypes == wire \subseteq Frames /\ acks \subseteq Version

ReplicationTypes == PublisherTypes /\ TrackerTypes /\ ConsumerTypes /\ NetworkTypes

LEMMA CallKinds ==
    ASSUME PublisherTypes, NEW t \in Thread
    PROVE  /\ call[t] \in Calls
           /\ call[t].step = "pinned" => call[t] \in PinnedCalls
           /\ call[t].step = "sampled" => call[t] \in SampledCalls
           /\ call[t].step = "committed" => call[t] \in CommittedCalls
           /\ call[t].step = "idle" <=> call[t] = Publisher!NoCall
           /\ call[t].step \in {"idle", "pinned", "sampled", "committed"}
BY DEF PublisherTypes, Calls, PinnedCalls, SampledCalls, CommittedCalls, Publisher!NoCall

LEMMA CallsGoOn ==
    ASSUME PublisherTypes, NEW t \in Thread, NEW c \in Calls, GoesTo(t, c)
    PROVE  /\ call' \in [Thread -> Calls]
           /\ call'[t] = c
           /\ \A u \in Thread : u # t => call'[u] = call[u]
BY DEF PublisherTypes, GoesTo

LEMMA NewCalls ==
    ASSUME PublisherTypes, NEW t \in Thread
    PROVE  /\ Publisher!NoCall \in Calls
           /\ \A op \in {"publish", "snapshot"} : Publisher!Pinned(op, source) \in Calls
           /\ call[t].step = "pinned" =>
                 Publisher!Sampled(call[t].op, call[t].source, owner) \in Calls
<1>1. \A op \in {"publish", "snapshot"} : Publisher!Pinned(op, source) \in PinnedCalls
  BY DEF Publisher!Pinned, PinnedCalls, PublisherTypes
<1>2. ASSUME call[t].step = "pinned"
      PROVE  Publisher!Sampled(call[t].op, call[t].source, owner) \in SampledCalls
  <2>1. call[t].op \in {"publish", "snapshot"} /\ call[t].source \in Nat
    BY <1>2, CallKinds DEF PinnedCalls
  <2>2. QED
    BY <2>1 DEF Publisher!Sampled, SampledCalls, PublisherTypes
<1>3. QED
  BY <1>1, <1>2 DEF Calls

(* The next revision is a valid one, and one more unless it wraps.         *)
LEMMA RevisionAfterIs ==
    ASSUME revision \in Nat, NEW advance \in BOOLEAN
    PROVE  /\ Publisher!RevisionAfter(advance) \in Nat \ {0}
           /\ ~advance /\ revision # 0 => Publisher!RevisionAfter(advance) = revision
           /\ revision = 0 => Publisher!RevisionAfter(advance) = 1
           /\ revision + 1 < RevisionModulus =>
                 Publisher!RevisionAfter(advance) = IF advance \/ revision = 0
                                                    THEN revision + 1 ELSE revision
<1>1. RevisionModulus \in Nat /\ RevisionModulus > 1
  BY ReplicationAssumption
<1>2. /\ (revision + 1) % RevisionModulus \in 0 .. RevisionModulus - 1
      /\ revision + 1 < RevisionModulus => (revision + 1) % RevisionModulus = revision + 1
  BY <1>1
<1> DEFINE next == (revision + 1) % RevisionModulus
<1>3. Publisher!RevisionAfter(advance) =
        IF advance \/ revision = 0 THEN IF next = 0 THEN 1 ELSE next ELSE revision
  BY DEF Publisher!RevisionAfter
<1>4. /\ next \in 0 .. RevisionModulus - 1
      /\ revision + 1 < RevisionModulus => next = revision + 1
  BY <1>2
<1> HIDE DEF next
<1>5. QED
  BY <1>1, <1>3, <1>4

(* The update that a commit appends.                                       *)
LEMMA UpdateIsTyped ==
    ASSUME PublisherTypes, NEW t \in Thread, call[t].step = "sampled"
    PROVE  /\ call[t].value \in Value
           /\ Update(t) \in Publisher!Update
           /\ Update(t).revision = Publisher!RevisionAfter(TRUE)
           /\ Update(t).value = call[t].value
           /\ Publisher!Committed(Update(t)) \in Calls
           /\ Publisher!Committed(Update(t)).step = "committed"
           /\ Publisher!Committed(Update(t)).update = Update(t)
           /\ Append(published, Update(t)) \in Seq(Publisher!Update)
           /\ Len(Append(published, Update(t))) = Len(published) + 1
           /\ Len(published) \in Nat
<1>1. call[t].value \in Value /\ call[t].source \in Nat
  BY CallKinds DEF SampledCalls
<1>2. resets \in Nat /\ Publisher!RevisionAfter(TRUE) \in Nat
  BY RevisionAfterIs DEF PublisherTypes
<1>3. /\ Update(t) \in Publisher!Update
      /\ Update(t).revision = Publisher!RevisionAfter(TRUE)
      /\ Update(t).value = call[t].value
  BY <1>1, <1>2 DEF Update, Publisher!Update
<1>4. /\ Publisher!Committed(Update(t)) \in CommittedCalls
      /\ Publisher!Committed(Update(t)).step = "committed"
      /\ Publisher!Committed(Update(t)).update = Update(t)
  BY <1>3 DEF Publisher!Committed, CommittedCalls
<1>5. /\ Append(published, Update(t)) \in Seq(Publisher!Update)
      /\ Len(Append(published, Update(t))) = Len(published) + 1
      /\ Len(published) \in Nat
  BY <1>3 DEF PublisherTypes
<1>6. QED
  BY <1>1, <1>3, <1>4, <1>5 DEF Calls

(* Every step is one of these.                                             *)
PublisherStep ==
    \/ ChangeOwner \/ RestartOrigin
    \/ \E t \in Thread :
          \/ RegisterSource(t) \/ StartPublish(t) \/ CallSource(t) \/ CommitPublish(t)
          \/ Notify(t) \/ HandOverSnapshot(t) \/ Serve(t)

ConsumerStep ==
    \/ RestartConsumer \/ AskAgain \/ ObserveTracker \/ Send \/ AnnounceReceived
    \/ \E f \in wire : Receive(f)
    \/ \E a \in acks : AckArrives(a) \/ LoseAck(a)
    \/ UNCHANGED replicationVars

LEMMA EagerSteps == [EagerNext]_replicationVars => PublisherStep \/ ConsumerStep
BY DEF EagerNext, CommonNext, CallStep, PublisherStep, ConsumerStep

LEMMA ConsumerLeavesPublisher ==
    ASSUME ReplicationTypes, ConsumerStep
    PROVE  SamePublisher /\ SameLife
<1>1. ASSUME NEW f \in wire, Receive(f) PROVE SamePublisher /\ SameLife
  BY <1>1, ReceiveDoes DEF ReplicationTypes, NetworkTypes
<1>2. QED
  BY <1>1, RestartConsumerDoes, SmallStepsDo, AckArrivesDoes
     DEF ConsumerStep, ReplicationTypes, SameOthers

LEMMA PublisherTypesStep ==
    ASSUME ReplicationTypes, [EagerNext]_replicationVars
    PROVE  PublisherTypes'
<1>0. PublisherTypes
  BY DEF ReplicationTypes
<1>1. CASE ConsumerStep
  BY <1>0, <1>1, ConsumerLeavesPublisher DEF SamePublisher, SameSlot, PublisherTypes
<1>2. CASE ChangeOwner
  BY <1>0, <1>2, ChangeOwnerDoes DEF SameSlot, PublisherTypes
<1>3. CASE RestartOrigin
  <2>1. /\ owner' \in Value /\ due' \in BOOLEAN
        /\ source' \in Nat /\ resets' \in Nat /\ revision' \in Nat
        /\ lastPublished' \subseteq Value /\ announced' \subseteq Publisher!Update
    BY <1>3, RestartOriginDoes
  <2>2. call' \in [Thread -> Calls]
    BY <1>3, RestartOriginDoes DEF Calls
  <2>3. published' \in Seq(Publisher!Update)
    BY <1>3, RestartOriginDoes
  <2>4. QED
    BY <2>1, <2>2, <2>3 DEF PublisherTypes
<1>4. ASSUME NEW t \in Thread, RegisterSource(t) PROVE PublisherTypes'
  <2>1. /\ resets' = resets + 1 /\ source' = resets + 1
        /\ lastPublished' = {} /\ due' = TRUE
        /\ UNCHANGED <<owner, revision, call, published, announced>>
    BY <1>4, RegisterSourceDoes
  <2>2. resets' \in Nat /\ source' \in Nat /\ due' \in BOOLEAN
    BY <1>0, <2>1 DEF PublisherTypes
  <2>3. QED
    BY <1>0, <2>1, <2>2 DEF PublisherTypes
<1>5. ASSUME NEW t \in Thread, StartPublish(t) PROVE PublisherTypes'
  <2>1. call' \in [Thread -> Calls]
    BY <1>0, <1>5, StartPublishDoes, NewCalls, CallsGoOn
  <2>2. QED
    BY <1>0, <1>5, <2>1, StartPublishDoes DEF SameSlot, PublisherTypes
<1>6. ASSUME NEW t \in Thread, CallSource(t) PROVE PublisherTypes'
  <2>1. call' \in [Thread -> Calls]
    BY <1>0, <1>6, CallSourceDoes, NewCalls, CallsGoOn
  <2>2. QED
    BY <1>0, <1>6, <2>1, CallSourceDoes DEF SameSlot, PublisherTypes
<1>7. ASSUME NEW t \in Thread, CommitPublish(t) PROVE PublisherTypes'
  <2>1. /\ call[t].step = "sampled"
        /\ UNCHANGED <<owner, due, source, resets, announced>>
    BY <1>7, CommitPublishDoes
  <2>2. CASE /\ lastPublished' = {call[t].value}
             /\ revision' = Publisher!RevisionAfter(TRUE)
             /\ published' = Append(published, Update(t))
             /\ GoesTo(t, Publisher!Committed(Update(t)))
    <3>1. call' \in [Thread -> Calls]
      BY <1>0, <2>1, <2>2, UpdateIsTyped, CallsGoOn
    <3>2. revision' \in Nat
      BY <1>0, <2>2, RevisionAfterIs DEF PublisherTypes
    <3>3. lastPublished' \subseteq Value /\ published' \in Seq(Publisher!Update)
      BY <1>0, <2>1, <2>2, UpdateIsTyped
    <3>4. QED
      BY <1>0, <2>1, <3>1, <3>2, <3>3 DEF PublisherTypes
  <2>3. CASE UNCHANGED <<lastPublished, revision, published>> /\ GoesTo(t, Publisher!NoCall)
    <3>1. call' \in [Thread -> Calls]
      BY <1>0, <2>3, NewCalls, CallsGoOn
    <3>2. QED
      BY <1>0, <2>1, <2>3, <3>1 DEF PublisherTypes
  <2>4. QED
    BY <1>7, <2>2, <2>3, CommitPublishDoes
<1>8. ASSUME NEW t \in Thread, Notify(t) PROVE PublisherTypes'
  <2>1. /\ call[t].step = "committed" /\ announced' = {call[t].update}
        /\ GoesTo(t, Publisher!NoCall) /\ SameSlot /\ UNCHANGED <<owner, due>>
    BY <1>8, NotifyDoes
  <2>2. call' \in [Thread -> Calls]
    BY <1>0, <2>1, NewCalls, CallsGoOn
  <2>3. announced' \subseteq Publisher!Update
    BY <1>0, <2>1, CallKinds DEF CommittedCalls
  <2>4. QED
    BY <1>0, <2>1, <2>2, <2>3 DEF SameSlot, PublisherTypes
<1>9. ASSUME NEW t \in Thread, HandOverSnapshot(t) PROVE PublisherTypes'
  <2>1. call' \in [Thread -> Calls]
    BY <1>0, <1>9, HandOverSnapshotDoes, NewCalls, CallsGoOn
  <2>2. revision' \in Nat
    BY <1>0, <1>9, HandOverSnapshotDoes, RevisionAfterIs DEF PublisherTypes
  <2>3. QED
    BY <1>0, <1>9, <2>1, <2>2, HandOverSnapshotDoes DEF PublisherTypes
<1>10. ASSUME NEW t \in Thread, Serve(t) PROVE PublisherTypes'
  <2>1. SameSlot /\ UNCHANGED <<owner, due, announced>>
    BY <1>0, <1>10, ServeDoes DEF PublisherTypes
  <2>2. call' \in [Thread -> Calls]
    BY <1>0, <1>10, ServeDoes, NewCalls, CallsGoOn DEF PublisherTypes
  <2>3. QED
    BY <1>0, <2>1, <2>2 DEF SameSlot, PublisherTypes
<1>11. QED
  BY <1>1, <1>2, <1>3, <1>4, <1>5, <1>6, <1>7, <1>8, <1>9, <1>10, EagerSteps
     DEF PublisherStep

LEMMA TypeRegisterObserver == TypeOK /\ RegisterObserver => TypeOK'
BY DEF RegisterObserver, TypeOK

LEMMA TrackerTypesHandOver ==
    ASSUME TrackerTypes, NEW r \in Nat, NEW v \in Value, HandOver(r, v)
    PROVE  TypeOK' /\ retained' \in Value
<1>1. Replace(epoch, r) /\ retained' \in Value
  BY DEF HandOver, TrackerTypes
<1>2. QED
  BY <1>1, TypeReplace DEF TrackerTypes

LEMMA TrackerTypesStep ==
    ASSUME ReplicationTypes, [EagerNext]_replicationVars
    PROVE  TrackerTypes'
<1>0. PublisherTypes /\ TrackerTypes /\ TypeOK /\ acks \subseteq Version
  BY DEF ReplicationTypes, TrackerTypes, NetworkTypes
<1>1. SameTracker /\ epoch' = epoch => TrackerTypes'
  BY <1>0 DEF SameTracker, TrackerTypes, TypeOK
<1>2. CASE ConsumerStep
  <2>1. epoch' = epoch
    BY <1>2, ConsumerLeavesPublisher DEF SameLife
  <2>2. CASE ObserveTracker
    BY <1>0, <2>1, <2>2, SmallStepsDo, TypeRegisterObserver DEF TrackerTypes
  <2>3. ASSUME NEW a \in acks, AckArrives(a) PROVE TrackerTypes'
    <3>1. Acknowledge(a.epoch, a.revision) /\ retained' = retained
      BY <2>3, AckArrivesDoes
    <3>2. a.epoch \in Nat /\ a.revision \in Nat
      BY <1>0 DEF Version
    <3>3. TypeOK'
      BY <1>0, <3>1, <3>2, TypeAcknowledge
    <3>4. QED
      BY <1>0, <2>1, <3>1, <3>3 DEF TrackerTypes
  <2>4. ASSUME NEW f \in wire, Receive(f) PROVE SameTracker
    BY <2>4, ReceiveDoes DEF ReplicationTypes, NetworkTypes
  <2>5. RestartConsumer => SameTracker
    BY RestartConsumerDoes DEF ReplicationTypes
  <2>6. QED
    BY <1>1, <1>2, <2>1, <2>2, <2>3, <2>4, <2>5, SmallStepsDo DEF ConsumerStep, SameOthers
<1>3. CASE RestartOrigin
  <2>1. /\ pendingUpdate' = NeverReplaced /\ retained' = DefaultValue
        /\ observed' = FALSE /\ mirror' = Unknown /\ handed' = {} /\ acked' = {}
        /\ epoch' = epoch + 1
    BY <1>3, RestartOriginDoes
  <2>2. At(0, 0) \in Version
    BY AtIsAVersion
  <2>3. pendingUpdate' \in PendingStateUpdate /\ pendingUpdate'.pending = FALSE
    BY <2>1 DEF NeverReplaced, PendingStateUpdate
  <2>4. TypeOK'
    BY <2>1, <2>2, <2>3 DEF TypeOK, Unknown
  <2>5. epoch' \in Nat \ {0} /\ retained' \in Value
    BY <1>0, <2>1, ReplicationAssumption DEF TrackerTypes
  <2>6. QED
    BY <2>4, <2>5 DEF TrackerTypes
<1>4. CASE ChangeOwner
  BY <1>1, <1>4, ChangeOwnerDoes DEF SameOthers, SameLife
<1>5. ASSUME NEW t \in Thread,
             RegisterSource(t) \/ StartPublish(t) \/ CallSource(t) \/ CommitPublish(t)
      PROVE  TrackerTypes'
  <2>1. SameOthers
    BY <1>5, RegisterSourceDoes, StartPublishDoes, CallSourceDoes, CommitPublishDoes
  <2>2. QED
    BY <1>1, <2>1 DEF SameOthers, SameLife
<1>6. ASSUME NEW t \in Thread, Notify(t) PROVE TrackerTypes'
  <2>1. call[t].step = "committed" /\ epoch' = epoch
    BY <1>6, NotifyDoes DEF SameLife
  <2>2. call[t].update.revision \in Nat /\ call[t].update.value \in Value
    BY <1>0, <2>1, CallKinds DEF CommittedCalls, Publisher!Update
  <2>3. HandOver(call[t].update.revision, call[t].update.value) \/ SameTracker
    BY <1>6, NotifyDoes
  <2>4. QED
    BY <1>0, <1>1, <2>1, <2>2, <2>3, TrackerTypesHandOver DEF TrackerTypes
<1>7. ASSUME NEW t \in Thread, HandOverSnapshot(t) PROVE TrackerTypes'
  <2>1. call[t].step = "sampled" /\ epoch' = epoch
    BY <1>7, HandOverSnapshotDoes DEF SameLife
  <2>2. call[t].value \in Value
    BY <1>0, <2>1, CallKinds DEF SampledCalls
  <2>3. Publisher!RevisionAfter(FALSE) \in Nat
    BY <1>0, RevisionAfterIs DEF PublisherTypes
  <2>4. HandOver(Publisher!RevisionAfter(FALSE), call[t].value)
    BY <1>7, HandOverSnapshotDoes
  <2>5. QED
    BY <1>0, <2>1, <2>2, <2>3, <2>4, TrackerTypesHandOver DEF TrackerTypes
<1>8. ASSUME NEW t \in Thread, Serve(t) PROVE TrackerTypes'
  BY <1>0, <1>1, <1>8, ServeDoes DEF PublisherTypes
<1>9. QED
  BY <1>2, <1>3, <1>4, <1>5, <1>6, <1>7, <1>8, EagerSteps DEF PublisherStep

LEMMA FrameIsTyped == TrackerTypes => Frame \in Frames /\ VersionOf(Frame) = Retained
BY DEF TrackerTypes, TypeOK, PendingStateUpdate, Frame, Frames, VersionOf, Retained

LEMMA VersionsOfFrames ==
    ASSUME NEW f \in Frames
    PROVE  /\ VersionOf(f) \in Version
           /\ VersionOf(f).epoch = f.epoch /\ VersionOf(f).revision = f.revision
BY DEF Frames, VersionOf, Version, At

(* What the publisher's steps leave alone, between one life and the next.  *)
LEMMA PublisherLeavesConsumer ==
    ASSUME PublisherTypes, PublisherStep
    PROVE  SameConsumer /\ SameNetwork
<1>1. ASSUME NEW t \in Thread,
             \/ RegisterSource(t) \/ StartPublish(t) \/ CallSource(t) \/ CommitPublish(t)
             \/ Notify(t) \/ HandOverSnapshot(t) \/ Serve(t)
      PROVE  SameConsumer /\ SameNetwork
  BY <1>1, RegisterSourceDoes, StartPublishDoes, CallSourceDoes, CommitPublishDoes,
     NotifyDoes, HandOverSnapshotDoes, ServeDoes DEF SameOthers, PublisherTypes
<1>2. QED
  BY <1>1, ChangeOwnerDoes, RestartOriginDoes DEF PublisherStep, SameOthers

LEMMA ConsumerTypesStep ==
    ASSUME ReplicationTypes, [EagerNext]_replicationVars
    PROVE  ConsumerTypes' /\ NetworkTypes'
<1>0. PublisherTypes /\ TrackerTypes /\ ConsumerTypes /\ NetworkTypes
  BY DEF ReplicationTypes
<1>1. SameConsumer => ConsumerTypes'
  BY <1>0 DEF SameConsumer, ConsumerTypes
<1>2. SameNetwork => NetworkTypes'
  BY <1>0 DEF SameNetwork, NetworkTypes
<1>3. CASE PublisherStep
  BY <1>0, <1>1, <1>2, <1>3, PublisherLeavesConsumer
<1>4. CASE RestartConsumer
  BY <1>0, <1>4, RestartConsumerDoes DEF NetworkTypes
<1>5. CASE Send
  <2>1. wire' \subseteq Frames
    BY <1>0, <1>5, SmallStepsDo, FrameIsTyped DEF NetworkTypes
  <2>2. QED
    BY <1>0, <1>1, <1>5, <2>1, SmallStepsDo DEF NetworkTypes
<1>6. ASSUME NEW f \in wire, Receive(f) PROVE ConsumerTypes' /\ NetworkTypes'
  <2>1. f \in Frames
    BY <1>0 DEF NetworkTypes
  <2>2. VersionOf(f) \in Version
    BY <2>1, VersionsOfFrames
  <2>3. QED
    BY <1>0, <1>6, <2>1, <2>2, ReceiveDoes DEF NetworkTypes
<1>7. ASSUME NEW a \in acks, AckArrives(a) \/ LoseAck(a)
      PROVE  ConsumerTypes' /\ NetworkTypes'
  <2>1. CASE AckArrives(a)
    BY <1>1, <1>2, <2>1, AckArrivesDoes
  <2>2. CASE LoseAck(a)
    BY <1>0, <1>1, <2>2, SmallStepsDo DEF NetworkTypes
  <2>3. QED
    BY <1>7, <2>1, <2>2
<1>8. CASE AskAgain \/ ObserveTracker \/ AnnounceReceived \/ UNCHANGED replicationVars
  BY <1>1, <1>2, <1>8, SmallStepsDo DEF SameOthers
<1>9. QED
  BY <1>3, <1>4, <1>5, <1>6, <1>7, <1>8, EagerSteps DEF ConsumerStep

LEMMA ReplicationTypesInit == ReplicationInit => ReplicationTypes
<1> SUFFICES ASSUME ReplicationInit PROVE ReplicationTypes
  OBVIOUS
<1>1. PublisherTypes
  BY DEF ReplicationInit, Publisher!Init, PublisherTypes, Calls
<1>2. TrackerTypes
  BY TypeInit, ReplicationAssumption DEF ReplicationInit, TrackerTypes
<1>3. ConsumerTypes /\ NetworkTypes
  BY EmptySlotIsTyped
     DEF ReplicationInit, Manager!ManagerInit, ConsumerTypes, Slots, NetworkTypes
<1>4. QED
  BY <1>1, <1>2, <1>3 DEF ReplicationTypes

(* Every participant keeps its types, whatever the network does and        *)
(* whoever restarts.                                                       *)
THEOREM ReplicationTypeCorrect == EagerSpec => []ReplicationTypes
<1>1. ReplicationTypes /\ [EagerNext]_replicationVars => ReplicationTypes'
  BY PublisherTypesStep, TrackerTypesStep, ConsumerTypesStep DEF ReplicationTypes
<1>2. QED
  BY ReplicationTypesInit, <1>1, PTL DEF EagerSpec

(***************************************************************************)
(* Every life of the origin has a tracker that does what a tracker does:   *)
(* each step of a replication is a call of the tracker, or none, or begins *)
(* another life.  So what was proved of the tracker on its own carries     *)
(* over.                                                                   *)
(***************************************************************************)
TrackerBegins ==
    /\ pendingUpdate' = NeverReplaced /\ observed' = FALSE /\ mirror' = Unknown
    /\ handed' = {} /\ acked' = {}

TrackerStep ==
    \/ \E e \in Nat, r \in Nat : Replace(e, r)
    \/ \E e \in Nat, r \in Nat : Acknowledge(e, r)
    \/ RegisterObserver
    \/ UNCHANGED vars

LEMMA TrackerSteps ==
    ASSUME ReplicationTypes, [EagerNext]_replicationVars
    PROVE  TrackerStep \/ TrackerBegins
<1>0. PublisherTypes /\ TrackerTypes /\ ConsumerTypes /\ NetworkTypes
  BY DEF ReplicationTypes
<1>1. SameTracker => TrackerStep
  BY DEF SameTracker, vars, TrackerStep
<1>2. epoch \in Nat
  BY <1>0 DEF TrackerTypes
<1>3. ASSUME NEW r \in Nat, NEW v, HandOver(r, v) PROVE TrackerStep
  BY <1>2, <1>3 DEF HandOver, TrackerStep
<1>4. ASSUME NEW t \in Thread, Notify(t) PROVE TrackerStep
  <2>1. call[t].step = "committed"
    BY <1>4, NotifyDoes
  <2>2. call[t].update.revision \in Nat
    BY <1>0, <2>1, CallKinds DEF CommittedCalls, Publisher!Update
  <2>3. QED
    BY <1>1, <1>3, <1>4, <2>2, NotifyDoes
<1>5. ASSUME NEW t \in Thread, HandOverSnapshot(t) PROVE TrackerStep
  <2>1. Publisher!RevisionAfter(FALSE) \in Nat
    BY <1>0, RevisionAfterIs DEF PublisherTypes
  <2>2. QED
    BY <1>3, <1>5, <2>1, HandOverSnapshotDoes
<1>6. ASSUME NEW t \in Thread,
             \/ RegisterSource(t) \/ StartPublish(t) \/ CallSource(t) \/ CommitPublish(t)
             \/ Serve(t)
      PROVE  TrackerStep
  BY <1>0, <1>1, <1>6, RegisterSourceDoes, StartPublishDoes, CallSourceDoes,
     CommitPublishDoes, ServeDoes DEF SameOthers, PublisherTypes
<1>7. CASE PublisherStep
  BY <1>1, <1>4, <1>5, <1>6, <1>7, ChangeOwnerDoes, RestartOriginDoes
     DEF PublisherStep, SameOthers, TrackerBegins
<1>8. ASSUME NEW a \in acks, AckArrives(a) PROVE TrackerStep
  <2>1. a.epoch \in Nat /\ a.revision \in Nat
    BY <1>0 DEF NetworkTypes, Version
  <2>2. QED
    BY <1>8, <2>1, AckArrivesDoes DEF TrackerStep
<1>9. ASSUME NEW f \in wire, Receive(f) PROVE TrackerStep
  BY <1>0, <1>1, <1>9, ReceiveDoes DEF NetworkTypes
<1>10. CASE ConsumerStep
  BY <1>0, <1>1, <1>8, <1>9, <1>10, SmallStepsDo, RestartConsumerDoes
     DEF ConsumerStep, SameOthers, TrackerStep
<1>11. QED
  BY <1>7, <1>10, EagerSteps

LEMMA TrackedRegister == Tracked /\ RegisterObserver => Tracked'
BY DEF RegisterObserver, Tracked, NothingDroppedUnacknowledged, Retained

LEMMA TrackedBegins == TrackerBegins => Tracked' /\ Mirrored'
<1> SUFFICES ASSUME TrackerBegins PROVE Tracked' /\ Mirrored'
  OBVIOUS
<1>1. pendingUpdate'.pending = FALSE /\ handed' = {} /\ mirror' = Unknown
  BY DEF TrackerBegins, NeverReplaced
<1>2. QED
  BY <1>1 DEF Tracked, Mirrored, MirrorAgrees, NothingDroppedUnacknowledged

LEMMA PromptIsEager == PromptSpec => EagerSpec
<1>1. [PromptNext]_replicationVars => [EagerNext]_replicationVars
  BY DEF PromptNext, PromptServe, EagerNext
<1>2. QED
  BY <1>1, PTL DEF PromptSpec, EagerSpec

(* An update is dropped only when it was acknowledged, and an observer of  *)
(* the tracker knows what is pending, in every life of the origin and      *)
(* whatever the network does.                                              *)
THEOREM ReplicationTracks ==
    /\ PromptSpec => []NothingDroppedUnacknowledged
    /\ PromptSpec => []MirrorAgrees
<1> DEFINE I == Tracked /\ Mirrored
<1>1. ReplicationInit => I
  BY DEF ReplicationInit, Init, NeverReplaced, Tracked, NothingDroppedUnacknowledged,
         Mirrored, MirrorAgrees
<1>2. ASSUME ReplicationTypes, I, [EagerNext]_replicationVars PROVE I'
  <2>1. TypeOK
    BY <1>2 DEF ReplicationTypes, TrackerTypes
  <2>2. CASE UNCHANGED vars
    BY <1>2, <2>2
       DEF vars, Tracked, NothingDroppedUnacknowledged, Mirrored, MirrorAgrees, Retained
  <2>3. QED
    BY <1>2, <2>1, <2>2, TrackerSteps, TrackedBegins, TrackedReplace, TrackedAcknowledge,
       TrackedRegister, MirroredReplace, MirroredAcknowledge, MirroredRegister
       DEF TrackerStep
<1>3. I => NothingDroppedUnacknowledged /\ MirrorAgrees
  BY DEF Tracked, Mirrored
<1>4. EagerSpec => []I
  <2> HIDE DEF I
  <2>1. QED
    BY <1>1, <1>2, ReplicationTypeCorrect, PTL DEF EagerSpec
<1>5. QED
  <2> HIDE DEF I
  <2>1. QED
    BY <1>3, <1>4, PromptIsEager, PTL

(***************************************************************************)
(* Revisions.  No life of the origin publishes so much that they wrap, and *)
(* one call at a time makes them.                                          *)
(***************************************************************************)
NoWrap == CommitLimit + 1 < RevisionModulus

Taking(t, op) == call[t].step \in {"pinned", "sampled"} /\ call[t].op = op

Committing(t) == call[t].step = "committed"

Counted ==
    /\ \A t, u \in Thread :
          call[t] # Publisher!NoCall /\ call[u] # Publisher!NoCall => t = u
    /\ revision <= Len(published) + 1
    /\ lastPublished # {} => revision # 0
    /\ \A t \in Thread : Taking(t, "publish") => Len(published) + epoch <= CommitLimit
    /\ \A t \in Thread : Committing(t) => /\ call[t].update.revision = revision
                                         /\ revision # 0
                                         /\ lastPublished = {call[t].update.value}
    /\ source = 0 => AtRest /\ revision = 0 /\ lastPublished = {} /\ handed = {}

LEMMA AtRestMeans ==
    AtRest => \A t \in Thread : /\ call[t] = Publisher!NoCall
                               /\ call[t].step = "idle"
                               /\ \A op : ~Taking(t, op)
                               /\ ~Committing(t)
BY DEF AtRest, Publisher!Idle, Publisher!NoCall, Taking, Committing

LEMMA NotIdle ==
    ASSUME PublisherTypes, NEW t \in Thread, call[t].step # "idle"
    PROVE  call[t] # Publisher!NoCall /\ ~AtRest
BY AtRestMeans, CallKinds

(* The only call in progress goes on: the other threads are idle.          *)
LEMMA OnlyCall ==
    ASSUME PublisherTypes, Counted, NEW t \in Thread, call[t].step # "idle"
    PROVE  /\ source # 0
           /\ \A u \in Thread : u # t => call[u] = Publisher!NoCall /\ call[u].step = "idle"
<1>1. call[t] # Publisher!NoCall /\ ~AtRest
  BY NotIdle
<1>2. QED
  BY <1>1, CallKinds DEF Counted

(* A call begins or goes on while the other threads are idle.              *)
LEMMA OneCallAfter ==
    ASSUME PublisherTypes, NEW t \in Thread, NEW c \in Calls, GoesTo(t, c),
           \A u \in Thread : u # t => call[u] = Publisher!NoCall
    PROVE  /\ call'[t] = c
           /\ \A u \in Thread : u # t => call'[u] = Publisher!NoCall /\ call'[u].step = "idle"
           /\ \A u, w \in Thread :
                 call'[u] # Publisher!NoCall /\ call'[w] # Publisher!NoCall => u = w
           /\ \A u \in Thread : Committing(u)' => u = t
           /\ \A u \in Thread, op \in {"publish", "snapshot"} : Taking(u, op)' => u = t
           /\ c = Publisher!NoCall => AtRest'
<1>1. /\ call'[t] = c
      /\ \A u \in Thread : u # t => call'[u] = Publisher!NoCall
  BY CallsGoOn
<1>2. Publisher!NoCall.step = "idle"
  BY DEF Publisher!NoCall
<1>3. QED
  BY <1>1, <1>2 DEF Committing, Taking, AtRest, Publisher!Idle

LEMMA ConsumerKeepsHanded ==
    ASSUME ReplicationTypes, ConsumerStep
    PROVE  handed' = handed
<1>1. ASSUME NEW a \in acks, AckArrives(a) PROVE handed' = handed
  BY <1>1, AckArrivesDoes DEF Acknowledge
<1>2. ASSUME NEW f \in wire, Receive(f) PROVE handed' = handed
  BY <1>2, ReceiveDoes DEF ReplicationTypes, NetworkTypes, SameTracker
<1>3. ObserveTracker => handed' = handed
  BY DEF ObserveTracker, RegisterObserver
<1>4. QED
  BY <1>1, <1>2, <1>3, SmallStepsDo, RestartConsumerDoes
     DEF ConsumerStep, ReplicationTypes, SameTracker, SameOthers

(* Nothing about the publisher changes.                                    *)
LEMMA CountedStays ==
    ASSUME Counted, SameSlot, UNCHANGED <<call, epoch, handed>>
    PROVE  Counted'
BY DEF Counted, SameSlot, Taking, Committing, AtRest, Publisher!Idle

LEMMA CountedStep ==
    ASSUME NoWrap, ReplicationTypes, Counted, [EagerNext]_replicationVars
    PROVE  Counted'
<1>0. PublisherTypes /\ TrackerTypes /\ PublisherTypes' /\ epoch \in Nat \ {0}
  BY PublisherTypesStep DEF ReplicationTypes, TrackerTypes
<1>a. Len(published) \in Nat /\ revision \in Nat /\ CommitLimit \in Nat /\ RevisionModulus \in Nat
  BY <1>0, ReplicationAssumption DEF PublisherTypes
<1>1. CASE ConsumerStep
  BY <1>1, ConsumerLeavesPublisher, ConsumerKeepsHanded, CountedStays DEF SamePublisher, SameLife
<1>2. CASE ChangeOwner
  BY <1>2, ChangeOwnerDoes, CountedStays DEF SameOthers, SameTracker, SameLife
<1>3. CASE RestartOrigin
  <2>1. /\ call' = [t \in Thread |-> Publisher!NoCall] /\ published' = <<>>
        /\ revision' = 0 /\ lastPublished' = {} /\ handed' = {}
    BY <1>3, RestartOriginDoes
  <2>2. AtRest' /\ \A t \in Thread : call'[t] = Publisher!NoCall /\ call'[t].step = "idle"
    BY <2>1 DEF AtRest, Publisher!Idle, Publisher!NoCall
  <2>3. revision' <= Len(published') + 1
    BY <2>1
  <2>4. QED
    BY <2>1, <2>2, <2>3 DEF Counted, Taking, Committing
<1>4. ASSUME NEW t \in Thread, RegisterSource(t) PROVE Counted'
  <2>1. /\ AtRest /\ source' = resets + 1 /\ lastPublished' = {}
        /\ UNCHANGED <<revision, call, published, handed, epoch>>
    BY <1>4, RegisterSourceDoes DEF SameOthers, SameTracker, SameLife
  <2>2. source' # 0
    BY <1>0, <2>1 DEF PublisherTypes
  <2>3. \A u \in Thread : ~Taking(u, "publish")' /\ ~Committing(u)'
    BY <2>1, AtRestMeans DEF Taking, Committing
  <2>4. QED
    BY <2>1, <2>2, <2>3 DEF Counted
<1>5. ASSUME NEW t \in Thread, NEW op \in {"publish", "snapshot"}, AtRest, source # 0,
             GoesTo(t, Publisher!Pinned(op, source)), SameSlot, UNCHANGED <<epoch, handed>>,
             op = "publish" => Len(published) + epoch <= CommitLimit
      PROVE  Counted'
  <2>1. \A u \in Thread : call[u] = Publisher!NoCall
    BY <1>5, AtRestMeans
  <2>2. Publisher!Pinned(op, source) \in Calls
    BY <1>0, NewCalls
  <2>3. /\ \A u, w \in Thread :
              call'[u] # Publisher!NoCall /\ call'[w] # Publisher!NoCall => u = w
        /\ call'[t] = Publisher!Pinned(op, source)
        /\ \A u \in Thread : Committing(u)' => u = t
        /\ \A u \in Thread, o \in {"publish", "snapshot"} : Taking(u, o)' => u = t
    BY <1>0, <1>5, <2>1, <2>2, OneCallAfter
  <2>4. call'[t].step = "pinned" /\ call'[t].op = op
    BY <2>3 DEF Publisher!Pinned
  <2>5. QED
    BY <1>5, <2>3, <2>4 DEF Counted, SameSlot, Taking, Committing
<1>6. ASSUME NEW t \in Thread, StartPublish(t) PROVE Counted'
  BY <1>5, <1>6, StartPublishDoes DEF SameOthers, SameLife, SameTracker
<1>7. ASSUME NEW t \in Thread, Serve(t) PROVE Counted'
  <2>1. /\ AtRest /\ SameSlot /\ UNCHANGED <<epoch, handed>>
        /\ \/ source # 0 /\ GoesTo(t, Publisher!Pinned("snapshot", source))
           \/ UNCHANGED call
    BY <1>0, <1>7, ServeDoes DEF PublisherTypes, SameTracker
  <2>2. QED
    BY <1>5, <2>1, CountedStays
<1>8. ASSUME NEW t \in Thread, CallSource(t) PROVE Counted'
  <2>1. /\ call[t].step = "pinned"
        /\ GoesTo(t, Publisher!Sampled(call[t].op, call[t].source, owner))
        /\ SameSlot /\ UNCHANGED <<epoch, handed>>
    BY <1>8, CallSourceDoes DEF SameOthers, SameLife, SameTracker
  <2>2. source # 0 /\ \A u \in Thread : u # t => call[u] = Publisher!NoCall
    BY <1>0, <2>1, OnlyCall
  <2>3. Publisher!Sampled(call[t].op, call[t].source, owner) \in Calls
    BY <1>0, <2>1, NewCalls
  <2>4. /\ \A u, w \in Thread :
              call'[u] # Publisher!NoCall /\ call'[w] # Publisher!NoCall => u = w
        /\ call'[t] = Publisher!Sampled(call[t].op, call[t].source, owner)
        /\ \A u \in Thread : Committing(u)' => u = t
        /\ \A u \in Thread, o \in {"publish", "snapshot"} : Taking(u, o)' => u = t
    BY <1>0, <2>1, <2>2, <2>3, OneCallAfter
  <2>5. call'[t].step = "sampled" /\ call'[t].op = call[t].op
    BY <2>4 DEF Publisher!Sampled
  <2>6. Taking(t, "publish")' => Taking(t, "publish")
    BY <2>1, <2>5 DEF Taking
  <2>7. ~Committing(t)'
    BY <2>5 DEF Committing
  <2>8. QED
    BY <2>1, <2>2, <2>4, <2>6, <2>7 DEF Counted, SameSlot
<1>9. ASSUME NEW t \in Thread, CommitPublish(t) PROVE Counted'
  <2>1. /\ call[t].step = "sampled" /\ call[t].op # "snapshot"
        /\ UNCHANGED <<source, epoch, handed>>
    BY <1>9, CommitPublishDoes DEF SameOthers, SameLife, SameTracker
  <2>2. Taking(t, "publish")
    BY <1>0, <2>1, CallKinds DEF Taking, SampledCalls
  <2>3. source # 0 /\ \A u \in Thread : u # t => call[u] = Publisher!NoCall
    BY <1>0, <2>1, OnlyCall
  <2>4. CASE /\ lastPublished' = {call[t].value}
             /\ revision' = Publisher!RevisionAfter(TRUE)
             /\ published' = Append(published, Update(t))
             /\ GoesTo(t, Publisher!Committed(Update(t)))
    <3>1. revision + 1 < RevisionModulus
      BY <1>0, <1>a, <2>2 DEF Counted, NoWrap
    <3>2. revision' = revision + 1
      BY <1>a, <2>4, <3>1, RevisionAfterIs
    <3>3. /\ call'[t] = Publisher!Committed(Update(t))
          /\ \A u, w \in Thread :
                call'[u] # Publisher!NoCall /\ call'[w] # Publisher!NoCall => u = w
          /\ \A u \in Thread : Committing(u)' => u = t
          /\ \A u \in Thread, o \in {"publish", "snapshot"} : Taking(u, o)' => u = t
      BY <1>0, <2>1, <2>3, <2>4, UpdateIsTyped, OneCallAfter
    <3>4. /\ call'[t].step = "committed" /\ call'[t].update.revision = revision'
          /\ lastPublished' = {call'[t].update.value}
          /\ Len(published') = Len(published) + 1
      BY <1>0, <2>1, <2>4, <3>3, UpdateIsTyped
    <3>5. ~Taking(t, "publish")'
      BY <3>4 DEF Taking
    <3>6. revision' <= Len(published') + 1 /\ revision' # 0
      BY <1>a, <3>2, <3>4 DEF Counted
    <3>7. QED
      BY <2>1, <2>3, <3>3, <3>4, <3>5, <3>6 DEF Counted
  <2>5. CASE UNCHANGED <<lastPublished, revision, published>> /\ GoesTo(t, Publisher!NoCall)
    <3>1. /\ call'[t] = Publisher!NoCall
          /\ \A u, w \in Thread :
                call'[u] # Publisher!NoCall /\ call'[w] # Publisher!NoCall => u = w
          /\ \A u \in Thread : Committing(u)' => u = t
          /\ \A u \in Thread, o \in {"publish", "snapshot"} : Taking(u, o)' => u = t
      BY <1>0, <2>3, <2>5, NewCalls, OneCallAfter
    <3>2. \A u \in Thread : ~Committing(u)' /\ ~Taking(u, "publish")'
      BY <3>1 DEF Committing, Taking, Publisher!NoCall
    <3>3. QED
      BY <2>1, <2>3, <2>5, <3>1, <3>2 DEF Counted
  <2>6. QED
    BY <1>9, <2>4, <2>5, CommitPublishDoes
<1>10. ASSUME NEW t \in Thread, call[t].step # "idle", GoesTo(t, Publisher!NoCall),
              UNCHANGED <<source, lastPublished, published, epoch>>,
              revision' # 0, revision' <= Len(published) + 1
       PROVE  Counted'
  <2>1. source # 0 /\ \A u \in Thread : u # t => call[u] = Publisher!NoCall
    BY <1>0, <1>10, OnlyCall
  <2>2. /\ \A u, w \in Thread :
              call'[u] # Publisher!NoCall /\ call'[w] # Publisher!NoCall => u = w
        /\ call'[t] = Publisher!NoCall
        /\ \A u \in Thread : Committing(u)' => u = t
        /\ \A u \in Thread, o \in {"publish", "snapshot"} : Taking(u, o)' => u = t
    BY <1>0, <1>10, <2>1, NewCalls, OneCallAfter
  <2>3. ~Committing(t)' /\ ~Taking(t, "publish")'
    BY <2>2 DEF Committing, Taking, Publisher!NoCall
  <2>4. QED
    BY <1>10, <2>1, <2>2, <2>3 DEF Counted
<1>11. ASSUME NEW t \in Thread, Notify(t) PROVE Counted'
  <2>1. /\ call[t].step = "committed" /\ GoesTo(t, Publisher!NoCall)
        /\ SameSlot /\ epoch' = epoch
    BY <1>11, NotifyDoes DEF SameLife
  <2>2. revision # 0
    BY <2>1 DEF Counted, Committing
  <2>3. QED
    BY <1>10, <2>1, <2>2 DEF SameSlot, Counted
<1>12. ASSUME NEW t \in Thread, HandOverSnapshot(t) PROVE Counted'
  <2>1. /\ call[t].step = "sampled" /\ GoesTo(t, Publisher!NoCall)
        /\ UNCHANGED <<source, lastPublished, published, epoch>>
        /\ revision' = Publisher!RevisionAfter(FALSE)
    BY <1>12, HandOverSnapshotDoes DEF SameLife
  <2>2. revision' # 0 /\ revision' <= Len(published) + 1
    <3> DEFINE r == Publisher!RevisionAfter(FALSE)
    <3>1. r # 0 /\ (revision # 0 => r = revision) /\ (revision = 0 => r = 1)
      BY <1>a, RevisionAfterIs
    <3> HIDE DEF r
    <3>2. revision' = r
      BY <2>1 DEF r
    <3>3. QED
      BY <1>a, <3>1, <3>2 DEF Counted
  <2>3. QED
    BY <1>10, <2>1, <2>2
<1>13. QED
  BY <1>1, <1>2, <1>3, <1>4, <1>6, <1>7, <1>8, <1>9, <1>11, <1>12, EagerSteps
     DEF PublisherStep

(***************************************************************************)
(* What is handed over, sent and acknowledged.  The tracker retains the    *)
(* newest of what it was handed; the wire, the acknowledgements and the    *)
(* consumer have, of this life, only what was handed over; and what was    *)
(* acknowledged since the consumer restarted, it holds or has surpassed.   *)
(***************************************************************************)
RetainsNewest ==
    /\ handed = {} => pendingUpdate = NeverReplaced
    /\ handed # {} => Retained \in handed
    /\ \A x \in handed :
          x.epoch = epoch /\ x.revision # 0 /\ x.revision <= pendingUpdate.revision
    /\ handed # {} /\ ~pendingUpdate.pending => Retained \in acked
    /\ pendingUpdate.lastAcknowledged <= pendingUpdate.revision

HandedUpTo == \A x \in handed : x.revision <= revision

Sent(x) == x.epoch # 0 /\ x.epoch <= epoch /\ (x.epoch = epoch => x \in handed)

OnlySent ==
    /\ \A f \in wire : Sent(VersionOf(f))
    /\ \A a \in acks : Sent(a)
    /\ Held.hasValue => Sent(HeldVersion)

AcksAreHeld == \A a \in acks : Held.hasValue /\ ~Older(HeldVersion, a)

Carried == Counted /\ RetainsNewest /\ HandedUpTo /\ OnlySent /\ AcksAreHeld

LEMMA RetainedIs ==
    TypeOK => /\ Retained \in Version
              /\ Retained.epoch = pendingUpdate.epoch
              /\ Retained.revision = pendingUpdate.revision
BY DEF TypeOK, PendingStateUpdate, Retained, At, Version

LEMMA RetainsNewestHandOver ==
    ASSUME TrackerTypes, RetainsNewest, NEW r \in Nat \ {0}, NEW v, HandOver(r, v),
           \A x \in handed : x.revision <= r, epoch' = epoch, TypeOK'
    PROVE  RetainsNewest'
<1>1. /\ TypeOK /\ epoch \in Nat /\ epoch # 0
      /\ At(epoch, r).epoch = epoch /\ At(epoch, r).revision = r
  BY AtIsAVersion DEF TrackerTypes
<1>2. handed' = handed \cup {At(epoch, r)} /\ acked' = acked
  BY <1>1, HandOverDoes
<1>3. /\ pendingUpdate.lastAcknowledged \in Nat /\ pendingUpdate.revision \in Nat
      /\ \A x \in handed : x.revision \in Nat
  BY <1>1 DEF TypeOK, PendingStateUpdate, Version
<1>4. CASE /\ pendingUpdate'.pending = TRUE /\ pendingUpdate'.epoch = epoch
           /\ pendingUpdate'.revision = r
           /\ pendingUpdate'.lastAcknowledged = pendingUpdate.lastAcknowledged
  <2>1. Retained' = At(epoch, r)
    BY <1>4 DEF Retained
  <2>2. pendingUpdate.lastAcknowledged <= r
    <3>1. CASE handed = {}
      BY <1>3, <3>1 DEF RetainsNewest, NeverReplaced
    <3>2. CASE handed # {}
      <4>1. pendingUpdate.revision <= r
        BY <1>1, <3>2, RetainedIs DEF RetainsNewest
      <4>2. QED
        BY <1>3, <4>1 DEF RetainsNewest
    <3>3. QED
      BY <3>1, <3>2
  <2>3. QED
    BY <1>1, <1>2, <1>3, <1>4, <2>1, <2>2 DEF RetainsNewest
<1>5. CASE /\ pendingUpdate.pending /\ UNCHANGED <<pendingUpdate, retained>>
           /\ \/ epoch < pendingUpdate.epoch
              \/ epoch = pendingUpdate.epoch /\ r <= pendingUpdate.revision
  <2>1. handed # {}
    BY <1>5 DEF RetainsNewest, NeverReplaced
  <2>2. pendingUpdate.epoch = epoch
    BY <1>1, <2>1, RetainedIs DEF RetainsNewest
  <2>3. Retained' = Retained
    BY <1>5 DEF Retained
  <2>4. QED
    BY <1>1, <1>2, <1>3, <1>5, <2>1, <2>2, <2>3 DEF RetainsNewest
<1>6. QED
  BY <1>1, <1>4, <1>5, HandOverDoes

LEMMA RetainsNewestAck ==
    ASSUME TrackerTypes, RetainsNewest, NEW a \in Version, Sent(a),
           Acknowledge(a.epoch, a.revision), epoch' = epoch
    PROVE  RetainsNewest'
<1>1. /\ TypeOK /\ a.epoch \in Nat /\ a.revision \in Nat
      /\ At(a.epoch, a.revision) = a
  BY DEF TrackerTypes, Version, At
<1>2. /\ acked' = acked \cup {a} /\ handed' = handed
      /\ pendingUpdate'.epoch = pendingUpdate.epoch
      /\ pendingUpdate'.revision = pendingUpdate.revision
  BY <1>1, AcknowledgeDoes
<1>3. Retained' = Retained
  BY <1>2 DEF Retained
<1>4. CASE UNCHANGED pendingUpdate
  BY <1>2, <1>3, <1>4 DEF RetainsNewest
<1>5. CASE /\ a.epoch = pendingUpdate.epoch
           /\ pendingUpdate'.lastAcknowledged = a.revision
           /\ \/ pendingUpdate'.pending = pendingUpdate.pending
              \/ a.revision >= pendingUpdate.revision
  <2>1. handed # {}
    BY <1>5 DEF RetainsNewest, NeverReplaced, Sent
  <2>2. a \in handed
    BY <1>1, <1>5, <2>1, RetainedIs DEF RetainsNewest, Sent
  <2>3. a.revision <= pendingUpdate.revision
    BY <2>2 DEF RetainsNewest
  <2>4. a.revision >= pendingUpdate.revision => a = Retained
    BY <1>1, <1>5, <2>3 DEF Retained, TypeOK, PendingStateUpdate
  <2>5. QED
    BY <1>2, <1>3, <1>5, <2>1, <2>3, <2>4 DEF RetainsNewest
<1>6. QED
  BY <1>1, <1>4, <1>5, AcknowledgeDoes

(* The tracker's part of a step.                                           *)
LEMMA HandsOverRevision ==
    ASSUME NoWrap, ReplicationTypes, Counted, HandedUpTo, NEW t \in Thread,
           Notify(t) \/ HandOverSnapshot(t)
    PROVE  \/ SameTracker /\ UNCHANGED <<epoch, revision>>
           \/ /\ revision' \in Nat \ {0} /\ epoch' = epoch
              /\ \E v \in Value : HandOver(revision', v)
              /\ \A x \in handed : x.revision <= revision'
              /\ revision # 0 => revision' = revision
<1>0. PublisherTypes /\ TypeOK /\ revision \in Nat
  BY DEF ReplicationTypes, PublisherTypes, TrackerTypes
<1>1. CASE Notify(t)
  <2>1. call[t].step = "committed" /\ UNCHANGED <<epoch, revision>>
    BY <1>1, NotifyDoes DEF SameLife, SameSlot
  <2>2. /\ call[t].update.revision = revision /\ revision # 0
        /\ call[t].update.value \in Value
    BY <1>0, <2>1, CallKinds DEF Counted, Committing, CommittedCalls, Publisher!Update
  <2>3. QED
    BY <1>0, <1>1, <2>1, <2>2, NotifyDoes DEF HandedUpTo
<1>2. CASE HandOverSnapshot(t)
  <2>1. /\ call[t].step = "sampled" /\ epoch' = epoch
        /\ HandOver(revision', call[t].value)
        /\ revision' = Publisher!RevisionAfter(FALSE)
    BY <1>2, HandOverSnapshotDoes DEF SameLife
  <2>2. call[t].value \in Value
    BY <1>0, <2>1, CallKinds DEF SampledCalls
  <2>3. /\ revision' \in Nat \ {0}
        /\ revision # 0 => revision' = revision
        /\ revision = 0 => revision' = 1
    BY <1>0, <2>1, RevisionAfterIs
  <2>4. \A x \in handed : x.revision <= revision'
    BY <1>0, <2>3 DEF HandedUpTo, TypeOK, Version
  <2>5. QED
    BY <2>1, <2>2, <2>3, <2>4
<1>3. QED
  BY <1>1, <1>2

LEMMA RetainsNewestStep ==
    ASSUME NoWrap, ReplicationTypes, Carried, [EagerNext]_replicationVars
    PROVE  RetainsNewest' /\ HandedUpTo'
<1>0. /\ PublisherTypes /\ TrackerTypes /\ TypeOK' /\ ConsumerTypes /\ NetworkTypes
      /\ Counted /\ RetainsNewest /\ HandedUpTo /\ OnlySent
      /\ TypeOK /\ epoch \in Nat \ {0}
  BY TrackerTypesStep DEF ReplicationTypes, Carried, TrackerTypes
<1>1. SameTracker /\ epoch' = epoch => RetainsNewest'
  BY <1>0 DEF SameTracker, RetainsNewest, Retained
<1>2. handed' = handed /\ revision' = revision => HandedUpTo'
  BY <1>0 DEF HandedUpTo
<1>3. CASE ConsumerStep
  <2>1. epoch' = epoch /\ revision' = revision /\ handed' = handed
    BY <1>3, ConsumerLeavesPublisher, ConsumerKeepsHanded DEF SamePublisher, SameSlot, SameLife
  <2>2. ASSUME NEW a \in acks, AckArrives(a) PROVE RetainsNewest'
    <3>1. a \in Version /\ Sent(a)
      BY <1>0 DEF NetworkTypes, OnlySent
    <3>2. QED
      BY <1>0, <2>1, <2>2, <3>1, AckArrivesDoes, RetainsNewestAck
  <2>3. CASE ObserveTracker
    BY <1>0, <1>2, <2>1, <2>3 DEF ObserveTracker, RegisterObserver, RetainsNewest, Retained
  <2>4. ASSUME NEW f \in wire, Receive(f) PROVE SameTracker
    BY <1>0, <2>4, ReceiveDoes DEF NetworkTypes
  <2>5. RestartConsumer => SameTracker
    BY <1>0, RestartConsumerDoes
  <2>6. \/ SameTracker \/ ObserveTracker
        \/ \E a \in acks : AckArrives(a)
    BY <1>3, <2>4, <2>5, SmallStepsDo DEF ConsumerStep, SameOthers
  <2>7. RetainsNewest'
    BY <1>1, <2>1, <2>2, <2>3, <2>6
  <2>8. QED
    BY <1>2, <2>1, <2>7
<1>4. CASE RestartOrigin
  <2>1. handed' = {} /\ pendingUpdate' = NeverReplaced
    BY <1>4, RestartOriginDoes
  <2>2. QED
    BY <2>1 DEF RetainsNewest, HandedUpTo, NeverReplaced
<1>5. CASE ChangeOwner
  BY <1>1, <1>2, <1>5, ChangeOwnerDoes DEF SameOthers, SameLife, SameSlot, SameTracker
<1>6. ASSUME NEW t \in Thread,
             RegisterSource(t) \/ StartPublish(t) \/ CallSource(t) \/ Serve(t)
      PROVE  RetainsNewest' /\ HandedUpTo'
  <2>1. SameTracker /\ UNCHANGED <<epoch, revision>>
    BY <1>0, <1>6, RegisterSourceDoes, StartPublishDoes, CallSourceDoes, ServeDoes
       DEF PublisherTypes, SameOthers, SameLife, SameSlot
  <2>2. QED
    BY <1>1, <1>2, <2>1 DEF SameTracker
<1>7. ASSUME NEW t \in Thread, CommitPublish(t) PROVE RetainsNewest' /\ HandedUpTo'
  <2>1. call[t].step = "sampled" /\ call[t].op # "snapshot" /\ SameTracker /\ epoch' = epoch
    BY <1>7, CommitPublishDoes DEF SameOthers, SameLife
  <2>2. Taking(t, "publish")
    BY <1>0, <2>1, CallKinds DEF Taking, SampledCalls
  <2>3. /\ Len(published) \in Nat /\ revision \in Nat
        /\ CommitLimit \in Nat /\ RevisionModulus \in Nat
    BY <1>0, ReplicationAssumption DEF PublisherTypes
  <2>4. revision + 1 < RevisionModulus
    BY <1>0, <2>2, <2>3 DEF Counted, NoWrap
  <2>5. revision' = revision \/ revision' = revision + 1
    BY <1>7, <2>3, <2>4, CommitPublishDoes, RevisionAfterIs
  <2>6. HandedUpTo'
    BY <1>0, <2>1, <2>3, <2>5 DEF HandedUpTo, SameTracker, TypeOK, Version
  <2>7. QED
    BY <1>1, <2>1, <2>6
<1>8. ASSUME NEW t \in Thread, Notify(t) \/ HandOverSnapshot(t)
      PROVE  RetainsNewest' /\ HandedUpTo'
  <2>1. CASE SameTracker /\ UNCHANGED <<epoch, revision>>
    BY <1>1, <1>2, <2>1 DEF SameTracker
  <2>2. CASE /\ revision' \in Nat \ {0} /\ epoch' = epoch
             /\ \E v \in Value : HandOver(revision', v)
             /\ \A x \in handed : x.revision <= revision'
    <3>1. PICK r \in Nat \ {0} : r = revision'
      BY <2>2
    <3>2. PICK v \in Value : HandOver(r, v)
      BY <2>2, <3>1
    <3>3. RetainsNewest'
      BY <1>0, <2>2, <3>1, <3>2, RetainsNewestHandOver
    <3>4. handed' = handed \cup {At(epoch, r)} /\ At(epoch, r).revision = r
      BY <1>0, <3>2, HandOverDoes, AtIsAVersion
    <3>5. HandedUpTo'
      BY <2>2, <3>1, <3>4 DEF HandedUpTo
    <3>6. QED
      BY <3>3, <3>5
  <2>3. QED
    BY <1>0, <1>8, <2>1, <2>2, HandsOverRevision
<1>9. QED
  BY <1>3, <1>4, <1>5, <1>6, <1>7, <1>8, EagerSteps DEF PublisherStep

(* A life of the origin goes on, and what was handed over stays so.        *)
LEMMA LifeGoesOn ==
    ASSUME ReplicationTypes, [EagerNext]_replicationVars
    PROVE  \/ RestartOrigin
           \/ epoch' = epoch /\ handed \subseteq handed'
<1>0. PublisherTypes
  BY DEF ReplicationTypes
<1>1. CASE ConsumerStep
  BY <1>1, ConsumerLeavesPublisher, ConsumerKeepsHanded DEF SameLife
<1>2. ASSUME NEW r, NEW v, HandOver(r, v) PROVE handed \subseteq handed'
  BY <1>2 DEF HandOver, Replace
<1>3. ASSUME NEW t \in Thread,
             RegisterSource(t) \/ StartPublish(t) \/ CallSource(t) \/ CommitPublish(t)
      PROVE  epoch' = epoch /\ handed \subseteq handed'
  BY <1>3, RegisterSourceDoes, StartPublishDoes, CallSourceDoes, CommitPublishDoes
     DEF SameOthers, SameLife, SameTracker
<1>4. ASSUME NEW t \in Thread, Notify(t) \/ HandOverSnapshot(t) \/ Serve(t)
      PROVE  epoch' = epoch /\ handed \subseteq handed'
  BY <1>0, <1>2, <1>4, NotifyDoes, HandOverSnapshotDoes, ServeDoes
     DEF PublisherTypes, SameLife, SameTracker
<1>5. CASE ChangeOwner
  BY <1>5, ChangeOwnerDoes DEF SameOthers, SameLife, SameTracker
<1>6. QED
  BY <1>1, <1>3, <1>4, <1>5, EagerSteps DEF PublisherStep

LEMMA SentStays ==
    ASSUME ReplicationTypes, [EagerNext]_replicationVars, NEW x \in Version, Sent(x)
    PROVE  Sent(x)'
<1>1. epoch \in Nat /\ x.epoch \in Nat
  BY DEF ReplicationTypes, TrackerTypes, Version
<1>2. CASE RestartOrigin
  <2>1. epoch' = epoch + 1
    BY <1>2, RestartOriginDoes
  <2>2. QED
    BY <1>1, <2>1 DEF Sent
<1>3. CASE epoch' = epoch /\ handed \subseteq handed'
  BY <1>3 DEF Sent
<1>4. QED
  BY <1>2, <1>3, LifeGoesOn

(* What arrives was on the wire before, and what is sent is retained.      *)
LEMMA WhatIsNew ==
    ASSUME ReplicationTypes, [EagerNext]_replicationVars
    PROVE  /\ \A f \in wire' : f \in wire \/ (pendingUpdate.pending /\ f = Frame)
           /\ \A a \in acks' :
                 \/ a \in acks
                 \/ /\ Held'.hasValue /\ HeldVersion' = a
                    /\ \E f \in wire : a = VersionOf(f)
           /\ \/ Held' = Held
              \/ Held'.hasValue = FALSE /\ acks' = {} /\ wanted' = TRUE
              \/ /\ Held'.hasValue = TRUE
                 /\ \E f \in wire :
                       /\ HeldVersion' = VersionOf(f) /\ Held'.epoch = f.epoch
                       /\ Held'.revision = f.revision /\ Held'.value = f.value
                       /\ Held.hasValue => Older(HeldVersion, VersionOf(f))
<1>0. PublisherTypes /\ ConsumerTypes /\ NetworkTypes
  BY DEF ReplicationTypes
<1>1. SameConsumer => Held' = Held
  BY DEF SameConsumer, Held
<1>2. CASE PublisherStep
  BY <1>0, <1>1, <1>2, PublisherLeavesConsumer DEF SameNetwork
<1>3. ASSUME NEW f \in wire, Receive(f)
      PROVE  /\ wire' = wire
             /\ \A a \in acks' :
                   a \in acks \/ (a = VersionOf(f) /\ Held'.hasValue /\ HeldVersion' = a)
             /\ \/ Held' = Held
                \/ /\ Held'.hasValue = TRUE
                   /\ HeldVersion' = VersionOf(f) /\ Held'.epoch = f.epoch
                   /\ Held'.revision = f.revision /\ Held'.value = f.value
                   /\ Held.hasValue => Older(HeldVersion, VersionOf(f))
  <2>1. f \in Frames
    BY <1>0 DEF NetworkTypes
  <2>2. CASE /\ Held' = [hasValue |-> TRUE, epoch |-> f.epoch,
                          revision |-> f.revision, value |-> f.value]
             /\ Held.hasValue => Older(HeldVersion, VersionOf(f))
             /\ acks' = acks \cup {VersionOf(f)}
    <3>1. /\ Held'.hasValue = TRUE /\ HeldVersion' = VersionOf(f) /\ Held'.epoch = f.epoch
          /\ Held'.revision = f.revision /\ Held'.value = f.value
      BY <2>2 DEF HeldVersion, VersionOf
    <3>2. QED
      BY <1>0, <1>3, <2>1, <2>2, <3>1, ReceiveDoes
  <2>3. CASE /\ Held' = Held
             /\ acks' = acks \/ (Contains(f) /\ acks' = acks \cup {VersionOf(f)})
    <3>1. Contains(f) => Held'.hasValue /\ HeldVersion' = VersionOf(f)
      BY <2>3 DEF Contains, HeldVersion, VersionOf
    <3>2. QED
      BY <1>0, <1>3, <2>1, <2>3, <3>1, ReceiveDoes
  <2>4. QED
    BY <1>0, <1>3, <2>1, <2>2, <2>3, ReceiveDoes
<1>4. CASE RestartConsumer
  BY <1>0, <1>4, RestartConsumerDoes
<1>5. CASE Send
  BY <1>1, <1>5, SmallStepsDo
<1>6. ASSUME NEW a \in acks, AckArrives(a) \/ LoseAck(a)
      PROVE  wire' = wire /\ acks' \subseteq acks /\ Held' = Held
  <2>1. CASE AckArrives(a)
    BY <1>1, <2>1, AckArrivesDoes DEF SameNetwork
  <2>2. CASE LoseAck(a)
    BY <1>1, <2>2, SmallStepsDo
  <2>3. QED
    BY <1>6, <2>1, <2>2
<1>7. CASE AskAgain \/ ObserveTracker \/ AnnounceReceived \/ UNCHANGED replicationVars
  BY <1>1, <1>7, SmallStepsDo DEF SameOthers, SameNetwork
<1>8. QED
  BY <1>2, <1>3, <1>4, <1>5, <1>6, <1>7, EagerSteps DEF ConsumerStep

LEMMA OnlySentStep ==
    ASSUME ReplicationTypes, RetainsNewest, OnlySent, [EagerNext]_replicationVars
    PROVE  OnlySent'
<1>0. /\ TypeOK /\ TrackerTypes /\ ConsumerTypes /\ NetworkTypes
      /\ epoch # 0
  BY DEF ReplicationTypes, TrackerTypes
<1>1. ASSUME NEW f \in wire PROVE VersionOf(f) \in Version /\ Sent(VersionOf(f))'
  BY <1>0, VersionsOfFrames, SentStays DEF OnlySent, NetworkTypes
<1>2. pendingUpdate.pending => Retained \in handed /\ Sent(Retained) /\ Retained \in Version
  <2>1. SUFFICES ASSUME pendingUpdate.pending
                 PROVE  Retained \in handed /\ Sent(Retained) /\ Retained \in Version
    OBVIOUS
  <2>2. handed # {}
    BY <2>1 DEF RetainsNewest, NeverReplaced
  <2>3. QED
    BY <1>0, <2>2, RetainedIs DEF RetainsNewest, Sent, TrackerTypes
<1>3. ASSUME NEW f \in wire' PROVE Sent(VersionOf(f))'
  <2>1. CASE f \in wire
    BY <1>1, <2>1
  <2>2. CASE pendingUpdate.pending /\ f = Frame
    <3>1. VersionOf(f) = Retained
      BY <1>0, <2>2, FrameIsTyped
    <3>2. VersionOf(f) \in Version /\ Sent(VersionOf(f))
      BY <1>2, <2>2, <3>1
    <3>3. QED
      BY <3>2, SentStays
  <2>3. QED
    BY <2>1, <2>2, WhatIsNew
<1>4. ASSUME NEW a \in acks' PROVE Sent(a)'
  <2>1. CASE a \in acks
    BY <1>0, <2>1, SentStays DEF OnlySent, NetworkTypes
  <2>2. QED
    BY <1>1, <2>1, WhatIsNew
<1>5. ASSUME Held'.hasValue PROVE Sent(HeldVersion)'
  <2>1. PICK h : h = HeldVersion'
    OBVIOUS
  <2>2. CASE Held' = Held
    <3>1. h = HeldVersion /\ Held.hasValue
      BY <1>5, <2>1, <2>2 DEF HeldVersion, VersionOf
    <3>2. h \in Version /\ Sent(h)
      BY <1>0, <3>1, HeldIsASlot DEF OnlySent, ConsumerTypes, HeldVersion, VersionOf, Version, At
    <3>3. Sent(h)'
      BY <3>2, SentStays
    <3>4. QED
      BY <2>1, <3>3 DEF Sent
  <2>3. ASSUME NEW f \in wire, HeldVersion' = VersionOf(f) PROVE Sent(HeldVersion)'
    BY <1>1, <2>3 DEF Sent
  <2>4. QED
    BY <1>5, <2>2, <2>3, WhatIsNew
<1>6. QED
  BY <1>3, <1>4, <1>5 DEF OnlySent

LEMMA AcksAreHeldStep ==
    ASSUME ReplicationTypes, AcksAreHeld, [EagerNext]_replicationVars
    PROVE  AcksAreHeld'
<1>0. slot \in Slots /\ slot' \in Slots /\ acks \subseteq Version /\ wire \subseteq Frames
  BY ConsumerTypesStep DEF ReplicationTypes, ConsumerTypes, NetworkTypes
<1>1. SUFFICES ASSUME NEW a \in acks' PROVE Held'.hasValue /\ ~Older(HeldVersion', a)
  BY DEF AcksAreHeld, Older
<1>2. CASE Held'.hasValue /\ HeldVersion' = a
  <2>1. HeldVersion'.epoch \in Nat /\ HeldVersion'.revision \in Nat
    <3>1. Held' \in Manager!Slot
      BY <1>0 DEF Held, Slots
    <3>2. QED
      BY <3>1 DEF HeldVersion, VersionOf, At, Manager!Slot
  <2>2. QED
    BY <1>2, <2>1 DEF Older
<1>3. CASE a \in acks
  <2>1. Held.hasValue /\ ~Older(HeldVersion, a)
    BY <1>3 DEF AcksAreHeld
  <2>2. CASE Held' = Held
    BY <2>1, <2>2 DEF HeldVersion, VersionOf
  <2>3. CASE acks' = {}
    BY <1>1, <2>3
  <2>4. ASSUME NEW f \in wire, Held'.hasValue = TRUE, HeldVersion' = VersionOf(f),
               Older(HeldVersion, VersionOf(f))
        PROVE  Held'.hasValue /\ ~Older(HeldVersion', a)
    <3>1. /\ VersionOf(f).epoch \in Nat /\ VersionOf(f).revision \in Nat
          /\ HeldVersion.epoch \in Nat /\ HeldVersion.revision \in Nat
          /\ a.epoch \in Nat /\ a.revision \in Nat
      BY <1>0, <1>3, VersionsOfFrames, HeldIsASlot DEF Frames, Version
    <3>2. QED
      BY <2>1, <2>4, <3>1 DEF Older
  <2>5. QED
    BY <2>1, <2>2, <2>3, <2>4, WhatIsNew
<1>4. QED
  BY <1>1, <1>2, <1>3, WhatIsNew

LEMMA CarriedInit == ReplicationInit => Carried
<1> SUFFICES ASSUME ReplicationInit PROVE Carried
  OBVIOUS
<1>1. /\ call = [t \in Thread |-> Publisher!NoCall] /\ published = <<>>
      /\ source = 0 /\ lastPublished = {} /\ revision = 0
  BY DEF ReplicationInit, Publisher!Init
<1>2. pendingUpdate = NeverReplaced /\ handed = {} /\ wire = {} /\ acks = {}
  BY DEF ReplicationInit, Init
<1>3. Held.hasValue = FALSE
  BY EmptySlotIsTyped DEF ReplicationInit, Manager!ManagerInit, Held
<1>4. Counted
  <2>1. AtRest /\ \A t \in Thread : call[t] = Publisher!NoCall /\ call[t].step = "idle"
    BY <1>1 DEF AtRest, Publisher!Idle, Publisher!NoCall
  <2>2. revision <= Len(published) + 1
    BY <1>1
  <2>3. QED
    BY <1>1, <1>2, <2>1, <2>2 DEF Counted, Taking, Committing
<1>5. RetainsNewest /\ HandedUpTo
  BY <1>2 DEF RetainsNewest, HandedUpTo, NeverReplaced
<1>6. OnlySent /\ AcksAreHeld
  BY <1>2, <1>3 DEF OnlySent, AcksAreHeld
<1>7. QED
  BY <1>4, <1>5, <1>6 DEF Carried

THEOREM CarriedAlways == ASSUME NoWrap PROVE EagerSpec => []Carried
<1>1. ReplicationTypes /\ Carried /\ [EagerNext]_replicationVars => Carried'
  BY CountedStep, RetainsNewestStep, OnlySentStep, AcksAreHeldStep DEF Carried
<1>2. QED
  BY CarriedInit, ReplicationTypeCorrect, <1>1, PTL DEF EagerSpec

(* As long as revisions do not wrap within a life of the origin: when      *)
(* nothing is pending, the newest update handed over was acknowledged,     *)
(* however requests are answered, messages reordered and devices restarted.*)
THEOREM SettledIsNewest ==
    ASSUME NoWrap
    PROVE  /\ EagerSpec => []SettledMeansNewestAcknowledged
           /\ PromptSpec => []SettledMeansNewestAcknowledged
<1>1. ReplicationTypes /\ Carried => SettledMeansNewestAcknowledged
  <2> SUFFICES ASSUME ReplicationTypes, Carried, NEW x \in handed
               PROVE  /\ ~Older(Retained, x)
                      /\ ~Older(x, Retained) /\ ~pendingUpdate.pending => x \in acked
    BY DEF SettledMeansNewestAcknowledged
  <2>1. TypeOK /\ x \in Version /\ Retained \in Version /\ Retained \in handed
    BY RetainedIs DEF ReplicationTypes, TrackerTypes, TypeOK, Carried, RetainsNewest
  <2>2. x.epoch = Retained.epoch /\ x.revision <= Retained.revision
    BY <2>1, RetainedIs DEF Carried, RetainsNewest
  <2>3. ~Older(x, Retained) => x = Retained
    BY <2>1, <2>2 DEF Older, Version
  <2>4. QED
    BY <2>1, <2>2, <2>3 DEF Older, Version, Carried, RetainsNewest
<1>2. QED
  BY <1>1, CarriedAlways, ReplicationTypeCorrect, PromptIsEager, PTL

(* And an acknowledgement of the very update that is pending is always one *)
(* the tracker accepts: within one life of the origin, one epoch.          *)
THEOREM PendingIsAcknowledgeable ==
    ASSUME NoWrap
    PROVE  /\ EagerSpec => []AckOfPendingCounts
           /\ PromptSpec => []AckOfPendingCounts
<1>1. ReplicationTypes /\ Carried => AckOfPendingCounts
  <2> SUFFICES ASSUME ReplicationTypes, Carried, pendingUpdate.pending
               PROVE  Accepts(pendingUpdate.epoch, pendingUpdate.revision)
    BY DEF AckOfPendingCounts
  <2>1. TypeOK
    BY DEF ReplicationTypes, TrackerTypes
  <2>2. pendingUpdate.revision # 0 /\ pendingUpdate.lastAcknowledged <= pendingUpdate.revision
    BY <2>1 DEF TypeOK, Carried, RetainsNewest
  <2>3. QED
    BY <2>1, <2>2 DEF Accepts, TypeOK, PendingStateUpdate
<1>2. QED
  BY <1>1, CarriedAlways, ReplicationTypeCorrect, PromptIsEager, PTL

(***************************************************************************)
(* The publisher follows its owner.  A call goes on only while the owner   *)
(* stands still, so what it sampled is the owner's value; what was         *)
(* published last is close to it, and is what was announced last.          *)
(***************************************************************************)
Near(v) == \E w \in lastPublished : ~Publisher!StateValueChanged(w, v)

Busy == \A t \in Thread : call[t].step # "idle" => ~due /\ source # 0

Samples ==
    \A t \in Thread :
        /\ call[t].step \in {"pinned", "sampled"} => call[t].source = source
        /\ call[t].step = "sampled" => call[t].value = owner

OwnerIsPublished ==
    ~due /\ source # 0 /\ (\A t \in Thread : ~Taking(t, "publish")) => Near(owner)

LastIsAnnounced ==
    lastPublished # {} /\ (\A t \in Thread : ~Committing(t)) =>
        \E u \in announced : lastPublished = {u.value}

FollowsOwner == Busy /\ Samples /\ OwnerIsPublished /\ LastIsAnnounced

LEMMA NoDistance ==
    ASSUME NEW v \in Value
    PROVE  ~Publisher!StateValueChanged(v, v)
BY ReplicationAssumption DEF Publisher!StateValueChanged

LEMMA NearStays ==
    ASSUME lastPublished' = lastPublished, NEW v
    PROVE  Near(v)' <=> Near(v)
BY DEF Near, Publisher!StateValueChanged

LEMMA OthersAreIdle ==
    ASSUME PublisherTypes, Counted, NEW t \in Thread, call[t].step # "idle"
    PROVE  \A u \in Thread : u # t => /\ call[u].step = "idle" /\ ~Committing(u)
                                    /\ \A op : ~Taking(u, op)
BY OnlyCall DEF Committing, Taking

PromptStep == [PromptNext]_replicationVars

PromptPublisherStep ==
    \/ ChangeOwner \/ RestartOrigin
    \/ \E t \in Thread :
          \/ RegisterSource(t) \/ StartPublish(t) \/ CallSource(t) \/ CommitPublish(t)
          \/ Notify(t) \/ HandOverSnapshot(t)
          \/ (~due \/ source = 0) /\ Serve(t)

LEMMA PromptSteps ==
    PromptStep => /\ [EagerNext]_replicationVars
                  /\ PromptPublisherStep \/ ConsumerStep
BY DEF PromptStep, PromptNext, PromptServe, EagerNext, CommonNext, CallStep,
       PromptPublisherStep, ConsumerStep

LEMMA FollowsOwnerStays ==
    ASSUME FollowsOwner, SamePublisher
    PROVE  FollowsOwner'
<1>1. UNCHANGED <<owner, due, source, lastPublished, call, announced>>
  BY DEF SamePublisher, SameSlot
<1>2. Near(owner)' <=> Near(owner)
  BY <1>1 DEF Near, Publisher!StateValueChanged
<1>3. QED
  BY <1>1, <1>2
     DEF FollowsOwner, Busy, Samples, OwnerIsPublished, LastIsAnnounced, Taking, Committing

(* Everything is idle after a step that begins anew.                       *)
LEMMA FollowsOwnerAnew ==
    ASSUME \A t \in Thread : call'[t].step = "idle", due' = TRUE,
           lastPublished' = {} \/ (LastIsAnnounced /\ AtRest
                                  /\ UNCHANGED <<lastPublished, announced>>)
    PROVE  FollowsOwner'
<1>1. Busy' /\ Samples' /\ OwnerIsPublished'
  BY DEF Busy, Samples, OwnerIsPublished
<1>2. CASE lastPublished' = {}
  BY <1>1, <1>2 DEF FollowsOwner, LastIsAnnounced
<1>3. CASE LastIsAnnounced /\ AtRest /\ UNCHANGED <<lastPublished, announced>>
  BY <1>1, <1>3, AtRestMeans DEF FollowsOwner, LastIsAnnounced
<1>4. QED
  BY <1>2, <1>3

LEMMA FollowsOwnerStep ==
    ASSUME ReplicationTypes, Carried, FollowsOwner, PromptStep
    PROVE  FollowsOwner'
<1>0. /\ PublisherTypes /\ Counted /\ due \in BOOLEAN
      /\ Busy /\ Samples /\ OwnerIsPublished /\ LastIsAnnounced
  BY DEF ReplicationTypes, Carried, FollowsOwner, PublisherTypes
<1>1. CASE ConsumerStep
  BY <1>1, ConsumerLeavesPublisher, FollowsOwnerStays
<1>2. CASE ChangeOwner
  <2>1. /\ AtRest /\ due' = TRUE /\ UNCHANGED <<lastPublished, announced, call>>
    BY <1>2, ChangeOwnerDoes DEF SameSlot
  <2>2. \A t \in Thread : call'[t].step = "idle"
    BY <2>1, AtRestMeans
  <2>3. QED
    BY <1>0, <2>1, <2>2, FollowsOwnerAnew
<1>3. CASE RestartOrigin
  <2>1. /\ call' = [t \in Thread |-> Publisher!NoCall] /\ due' = TRUE /\ lastPublished' = {}
    BY <1>3, RestartOriginDoes
  <2>2. \A t \in Thread : call'[t].step = "idle"
    BY <2>1 DEF Publisher!NoCall
  <2>3. QED
    BY <2>1, <2>2, FollowsOwnerAnew
<1>4. ASSUME NEW t \in Thread, RegisterSource(t) PROVE FollowsOwner'
  <2>1. AtRest /\ due' = TRUE /\ lastPublished' = {} /\ call' = call
    BY <1>4, RegisterSourceDoes
  <2>2. \A u \in Thread : call'[u].step = "idle"
    BY <2>1, AtRestMeans
  <2>3. QED
    BY <2>1, <2>2, FollowsOwnerAnew
<1>5. ASSUME NEW t \in Thread, NEW op \in {"publish", "snapshot"}, AtRest, source # 0,
             GoesTo(t, Publisher!Pinned(op, source)), SameSlot,
             UNCHANGED <<owner, announced>>, due' = FALSE, op = "snapshot" => ~due
      PROVE  FollowsOwner'
  <2>1. \A u \in Thread : call[u] = Publisher!NoCall /\ ~Committing(u) /\ ~Taking(u, "publish")
    BY <1>5, AtRestMeans
  <2>2. Publisher!Pinned(op, source) \in Calls
    BY <1>0, NewCalls
  <2>3. /\ call'[t] = Publisher!Pinned(op, source)
        /\ \A u \in Thread : u # t => call'[u].step = "idle"
    BY <1>0, <1>5, <2>1, <2>2, OneCallAfter
  <2>4. call'[t].step = "pinned" /\ call'[t].op = op /\ call'[t].source = source
    BY <2>3 DEF Publisher!Pinned
  <2>5. UNCHANGED <<source, lastPublished>>
    BY <1>5 DEF SameSlot
  <2>6. Busy' /\ Samples'
    BY <1>5, <2>3, <2>4, <2>5 DEF Busy, Samples
  <2>7. OwnerIsPublished'
    <3>1. CASE op = "publish"
      BY <2>4, <3>1 DEF OwnerIsPublished, Taking
    <3>2. CASE op = "snapshot"
      <4>1. Near(owner)
        BY <1>0, <1>5, <2>1, <3>2 DEF OwnerIsPublished
      <4>2. Near(owner)'
        BY <1>5, <2>5, <4>1 DEF Near, Publisher!StateValueChanged
      <4>3. QED
        BY <4>2 DEF OwnerIsPublished
    <3>3. QED
      BY <3>1, <3>2
  <2>8. LastIsAnnounced'
    BY <1>0, <1>5, <2>1, <2>5 DEF LastIsAnnounced
  <2>9. QED
    BY <2>6, <2>7, <2>8 DEF FollowsOwner
<1>6. ASSUME NEW t \in Thread, StartPublish(t) PROVE FollowsOwner'
  BY <1>5, <1>6, StartPublishDoes
<1>7. ASSUME NEW t \in Thread, Serve(t), ~due \/ source = 0 PROVE FollowsOwner'
  <2>1. /\ AtRest /\ SameSlot /\ UNCHANGED <<owner, due, announced>>
        /\ \/ source # 0 /\ GoesTo(t, Publisher!Pinned("snapshot", source))
           \/ UNCHANGED call
    BY <1>0, <1>7, ServeDoes
  <2>2. CASE UNCHANGED call
    BY <2>1, <2>2, FollowsOwnerStays DEF SamePublisher
  <2>3. CASE source # 0 /\ GoesTo(t, Publisher!Pinned("snapshot", source))
    <3>1. ~due /\ due' = FALSE
      BY <1>0, <1>7, <2>1, <2>3
    <3>2. QED
      BY <1>5, <2>1, <2>3, <3>1
  <2>4. QED
    BY <2>1, <2>2, <2>3
<1>8. ASSUME NEW t \in Thread, CallSource(t) PROVE FollowsOwner'
  <2>1. /\ call[t].step = "pinned"
        /\ GoesTo(t, Publisher!Sampled(call[t].op, call[t].source, owner))
        /\ UNCHANGED <<source, lastPublished, owner, due, announced>>
    BY <1>8, CallSourceDoes DEF SameSlot
  <2>2. \A u \in Thread : u # t => call[u] = Publisher!NoCall /\ ~Taking(u, "publish") /\ ~Committing(u)
    BY <1>0, <2>1, OnlyCall, OthersAreIdle
  <2>3. /\ call'[t] = Publisher!Sampled(call[t].op, call[t].source, owner)
        /\ \A u \in Thread : u # t => call'[u].step = "idle"
    BY <1>0, <2>1, <2>2, NewCalls, OneCallAfter
  <2>4. /\ call'[t].step = "sampled" /\ call'[t].op = call[t].op
        /\ call'[t].source = call[t].source /\ call'[t].value = owner
    BY <2>3 DEF Publisher!Sampled
  <2>5. Busy' /\ Samples'
    BY <1>0, <2>1, <2>3, <2>4 DEF Busy, Samples
  <2>6. OwnerIsPublished'
    <3>1. SUFFICES ASSUME ~due', source' # 0, ~Taking(t, "publish")' PROVE Near(owner)'
      BY DEF OwnerIsPublished
    <3>2. ~Taking(t, "publish")
      BY <2>1, <2>4, <3>1 DEF Taking
    <3>3. Near(owner)
      BY <1>0, <2>1, <2>2, <3>1, <3>2 DEF OwnerIsPublished
    <3>4. QED
      BY <2>1, <3>3 DEF Near, Publisher!StateValueChanged
  <2>7. LastIsAnnounced'
    BY <1>0, <2>1, <2>2 DEF LastIsAnnounced, Committing
  <2>8. QED
    BY <2>5, <2>6, <2>7 DEF FollowsOwner
(* A call ends with nothing to be told.                                    *)
<1>9. ASSUME NEW t \in Thread, call[t].step = "sampled", GoesTo(t, Publisher!NoCall),
             UNCHANGED <<source, lastPublished, owner, due, announced>>, Near(owner)
      PROVE  FollowsOwner'
  <2>1. \A u \in Thread : u # t => call[u] = Publisher!NoCall /\ ~Committing(u)
    BY <1>0, <1>9, OnlyCall, OthersAreIdle
  <2>2. /\ call'[t] = Publisher!NoCall
        /\ \A u \in Thread : u # t => call'[u].step = "idle"
    BY <1>0, <1>9, <2>1, NewCalls, OneCallAfter
  <2>3. \A u \in Thread : call'[u].step = "idle"
    BY <2>2 DEF Publisher!NoCall
  <2>4. Near(owner)'
    BY <1>9 DEF Near, Publisher!StateValueChanged
  <2>5. ~Committing(t)
    BY <1>9 DEF Committing
  <2>6. LastIsAnnounced'
    BY <1>0, <1>9, <2>1, <2>5 DEF LastIsAnnounced
  <2>7. QED
    BY <2>3, <2>4, <2>6 DEF FollowsOwner, Busy, Samples, OwnerIsPublished
<1>10. ASSUME NEW t \in Thread, CommitPublish(t) PROVE FollowsOwner'
  <2>1. /\ call[t].step = "sampled" /\ call[t].op # "snapshot"
        /\ UNCHANGED <<source, owner, due, announced>>
    BY <1>10, CommitPublishDoes
  <2>2. /\ call[t].value = owner /\ call[t].source = source /\ ~due /\ source # 0
        /\ owner \in Value
    BY <1>0, <2>1 DEF Busy, Samples, PublisherTypes
  <2>3. \A u \in Thread : u # t => call[u] = Publisher!NoCall
    BY <1>0, <2>1, OnlyCall
  <2>4. CASE lastPublished' = {call[t].value} /\ GoesTo(t, Publisher!Committed(Update(t)))
    <3>1. /\ call'[t].step = "committed"
          /\ \A u \in Thread : u # t => call'[u].step = "idle"
      BY <1>0, <2>1, <2>3, <2>4, UpdateIsTyped, OneCallAfter
    <3>2. lastPublished' = {owner'} /\ owner' \in Value
      BY <2>1, <2>2, <2>4
    <3>3. Near(owner)'
      BY <3>2, NoDistance DEF Near, Publisher!StateValueChanged
    <3>4. Committing(t)'
      BY <3>1 DEF Committing
    <3>5. Busy' /\ Samples'
      BY <2>1, <2>2, <3>1 DEF Busy, Samples
    <3>6. QED
      BY <3>3, <3>4, <3>5 DEF FollowsOwner, OwnerIsPublished, LastIsAnnounced
  <2>5. CASE /\ ~Publisher!StillRegistered(t) \/ ~Publisher!IsMeaningfulChange(call[t].value)
             /\ lastPublished' = lastPublished /\ GoesTo(t, Publisher!NoCall)
    <3>1. ~Publisher!IsMeaningfulChange(owner)
      BY <2>2, <2>5 DEF Publisher!StillRegistered
    <3>2. Near(owner)
      BY <3>1 DEF Near, Publisher!IsMeaningfulChange
    <3>3. QED
      BY <1>9, <2>1, <2>5, <3>2
  <2>6. QED
    BY <1>10, <2>4, <2>5, CommitPublishDoes
<1>11. ASSUME NEW t \in Thread, HandOverSnapshot(t) PROVE FollowsOwner'
  <2>1. /\ call[t].step = "sampled" /\ call[t].op = "snapshot" /\ GoesTo(t, Publisher!NoCall)
        /\ UNCHANGED <<source, lastPublished, owner, due, announced>>
    BY <1>11, HandOverSnapshotDoes
  <2>2. \A u \in Thread : ~Taking(u, "publish")
    BY <1>0, <2>1, OthersAreIdle DEF Taking
  <2>3. Near(owner)
    BY <1>0, <2>1, <2>2 DEF OwnerIsPublished, Busy
  <2>4. QED
    BY <1>9, <2>1, <2>3
<1>12. ASSUME NEW t \in Thread, Notify(t) PROVE FollowsOwner'
  <2>1. /\ call[t].step = "committed" /\ announced' = {call[t].update}
        /\ GoesTo(t, Publisher!NoCall)
        /\ UNCHANGED <<source, lastPublished, owner, due>>
    BY <1>12, NotifyDoes DEF SameSlot
  <2>2. \A u \in Thread : u # t => call[u] = Publisher!NoCall
    BY <1>0, <2>1, OnlyCall
  <2>3. /\ call'[t] = Publisher!NoCall
        /\ \A u \in Thread : u # t => call'[u].step = "idle"
    BY <1>0, <2>1, <2>2, NewCalls, OneCallAfter
  <2>4. \A u \in Thread : call'[u].step = "idle"
    BY <2>3 DEF Publisher!NoCall
  <2>5. \A u \in Thread : ~Taking(u, "publish")
    BY <1>0, <2>1, OthersAreIdle DEF Taking
  <2>6. Near(owner)'
    <3>1. Near(owner)
      BY <1>0, <2>1, <2>5 DEF OwnerIsPublished, Busy
    <3>2. QED
      BY <2>1, <3>1 DEF Near, Publisher!StateValueChanged
  <2>7. lastPublished = {call[t].update.value}
    BY <1>0, <2>1 DEF Counted, Committing
  <2>8. LastIsAnnounced'
    BY <2>1, <2>7 DEF LastIsAnnounced
  <2>9. QED
    BY <2>4, <2>6, <2>8 DEF FollowsOwner, Busy, Samples, OwnerIsPublished
<1>13. QED
  BY <1>1, <1>2, <1>3, <1>4, <1>6, <1>7, <1>8, <1>10, <1>11, <1>12, PromptSteps
     DEF PromptPublisherStep

(***************************************************************************)
(* The consumer follows the publisher.  Once the consumer has subscribed,  *)
(* what the tracker retains is the publisher's version; whatever carries   *)
(* that version carries a value close to the one published; and when       *)
(* nothing is pending and nothing was asked for, the consumer holds what   *)
(* is retained.  A consumer that restarts loses it, but then it asks.      *)
(***************************************************************************)
ValueNear(e, r, v) == e = epoch /\ r = revision /\ lastPublished # {} => Near(v)

ValuesAreNear ==
    /\ \A f \in wire : ValueNear(f.epoch, f.revision, f.value)
    /\ ValueNear(pendingUpdate.epoch, pendingUpdate.revision, retained)
    /\ Held.hasValue => ValueNear(Held.epoch, Held.revision, Held.value)

NoSnapshot == \A t \in Thread : ~Taking(t, "snapshot")

RetainsPublished ==
    lastPublished # {} /\ subscribed /\ NoSnapshot /\ (\A t \in Thread : ~Committing(t)) =>
        Retained = At(epoch, revision)

Delivered ==
    handed # {} /\ ~pendingUpdate.pending /\ ~wanted /\ NoSnapshot =>
        Held.hasValue /\ ~Older(HeldVersion, Retained)

ConsumerFollows == ValuesAreNear /\ RetainsPublished /\ Delivered

(* What is handed over last is retained from then on, and pending.         *)
LEMMA HandOverRetains ==
    ASSUME TrackerTypes, RetainsNewest, NEW r \in Nat \ {0}, NEW v, HandOver(r, v),
           \A x \in handed : x.revision <= r
    PROVE  /\ pendingUpdate'.pending = TRUE
           /\ pendingUpdate'.epoch = epoch /\ pendingUpdate'.revision = r
           /\ \/ retained' = v
              \/ /\ retained' = retained
                 /\ pendingUpdate.epoch = epoch /\ pendingUpdate.revision = r
<1>1. TypeOK /\ epoch \in Nat
  BY DEF TrackerTypes
<1>2. CASE /\ pendingUpdate'.pending = TRUE /\ pendingUpdate'.epoch = epoch
           /\ pendingUpdate'.revision = r /\ retained' = v
  BY <1>2
<1>3. CASE /\ pendingUpdate.pending /\ UNCHANGED <<pendingUpdate, retained>>
           /\ \/ epoch < pendingUpdate.epoch
              \/ epoch = pendingUpdate.epoch /\ r <= pendingUpdate.revision
  <2>1. Retained \in handed
    BY <1>3 DEF RetainsNewest, NeverReplaced
  <2>2. pendingUpdate.epoch = epoch /\ pendingUpdate.revision <= r
    BY <1>1, <2>1, RetainedIs DEF RetainsNewest
  <2>3. pendingUpdate.revision = r
    BY <1>1, <1>3, <2>2 DEF TypeOK, PendingStateUpdate
  <2>4. pendingUpdate.pending = TRUE
    BY <1>1, <1>3 DEF TypeOK, PendingStateUpdate
  <2>5. QED
    BY <1>3, <2>2, <2>3, <2>4
<1>4. QED
  BY <1>1, <1>2, <1>3, HandOverDoes

LEMMA ConsumerKeepsRetained ==
    ASSUME ReplicationTypes, ConsumerStep
    PROVE  /\ retained' = retained
           /\ pendingUpdate'.epoch = pendingUpdate.epoch
           /\ pendingUpdate'.revision = pendingUpdate.revision
           /\ \/ pendingUpdate'.pending = pendingUpdate.pending
              \/ \E a \in acks : a.epoch = pendingUpdate.epoch /\ a.revision >= pendingUpdate.revision
<1>0. /\ TypeOK /\ ConsumerTypes /\ acks \subseteq Version /\ wire \subseteq Frames
  BY DEF ReplicationTypes, TrackerTypes, NetworkTypes
<1>1. ASSUME NEW a \in acks, AckArrives(a)
      PROVE  /\ retained' = retained
             /\ pendingUpdate'.epoch = pendingUpdate.epoch
             /\ pendingUpdate'.revision = pendingUpdate.revision
             /\ \/ pendingUpdate'.pending = pendingUpdate.pending
                \/ a.epoch = pendingUpdate.epoch /\ a.revision >= pendingUpdate.revision
  <2>1. a.epoch \in Nat /\ a.revision \in Nat
    BY <1>0 DEF Version
  <2>2. Acknowledge(a.epoch, a.revision) /\ retained' = retained
    BY <1>1, AckArrivesDoes
  <2>3. QED
    BY <1>0, <2>1, <2>2, AcknowledgeDoes
<1>2. ObserveTracker => UNCHANGED <<pendingUpdate, retained>>
  BY DEF ObserveTracker, RegisterObserver
<1>3. ASSUME NEW f \in wire, Receive(f) PROVE SameTracker
  BY <1>0, <1>3, ReceiveDoes
<1>4. RestartConsumer => SameTracker
  BY <1>0, RestartConsumerDoes
<1>5. SameTracker \/ ObserveTracker \/ \E a \in acks : AckArrives(a)
  BY <1>3, <1>4, SmallStepsDo DEF ConsumerStep, SameOthers
<1>6. QED
  BY <1>1, <1>2, <1>5 DEF SameTracker

(* Whatever carries a version of this life does not carry a newer one than *)
(* the publisher's.                                                        *)
LEMMA VersionsUpToRevision ==
    ASSUME ReplicationTypes, Carried
    PROVE  /\ \A f \in wire : f.epoch = epoch => f.revision <= revision
           /\ pendingUpdate.epoch = epoch => pendingUpdate.revision <= revision
           /\ Held.hasValue /\ Held.epoch = epoch => Held.revision <= revision
<1>0. TypeOK /\ slot \in Slots /\ wire \subseteq Frames /\ epoch # 0
  BY DEF ReplicationTypes, TrackerTypes, ConsumerTypes, NetworkTypes
<1>1. \A x : Sent(x) /\ x.epoch = epoch => x.revision <= revision
  BY DEF Sent, Carried, HandedUpTo
<1>2. ASSUME NEW f \in wire, f.epoch = epoch PROVE f.revision <= revision
  <2>1. VersionOf(f).epoch = f.epoch /\ VersionOf(f).revision = f.revision
    BY <1>0, VersionsOfFrames
  <2>2. Sent(VersionOf(f))
    BY DEF Carried, OnlySent
  <2>3. QED
    BY <1>1, <1>2, <2>1, <2>2
<1>3. ASSUME pendingUpdate.epoch = epoch PROVE pendingUpdate.revision <= revision
  <2>1. Retained \in handed
    BY <1>0, <1>3 DEF Carried, RetainsNewest, NeverReplaced
  <2>2. QED
    BY <1>0, <2>1, RetainedIs DEF Carried, HandedUpTo
<1>4. Held.hasValue /\ Held.epoch = epoch => Held.revision <= revision
  BY <1>0, <1>1, HeldIsASlot DEF Carried, OnlySent
<1>5. QED
  BY <1>2, <1>3, <1>4

(* A publisher that stands still, begins anew or goes on to another        *)
(* revision leaves values near.                                            *)
PublisherMoves ==
    /\ epoch' = epoch
    /\ \/ lastPublished' = {}
       \/ lastPublished' = lastPublished /\ (revision' = revision \/ lastPublished = {})
       \/ revision' = revision + 1

LEMMA ValueNearStays ==
    ASSUME PublisherMoves, revision \in Nat, NEW e, NEW r \in Nat, NEW v,
           ValueNear(e, r, v), e = epoch => r <= revision
    PROVE  ValueNear(e, r, v)'
BY DEF PublisherMoves, ValueNear, Near, Publisher!StateValueChanged

LEMMA WireStaysNear ==
    ASSUME ReplicationTypes, Carried, ValuesAreNear, PublisherMoves, NEW f \in wire
    PROVE  ValueNear(f.epoch, f.revision, f.value)'
<1>1. /\ f.revision \in Nat /\ revision \in Nat
      /\ f.epoch = epoch => f.revision <= revision
      /\ ValueNear(f.epoch, f.revision, f.value)
  BY VersionsUpToRevision
     DEF ReplicationTypes, PublisherTypes, NetworkTypes, Frames, ValuesAreNear
<1>2. QED
  BY <1>1, ValueNearStays

LEMMA RetainedStaysNear ==
    ASSUME ReplicationTypes, Carried, ValuesAreNear, PublisherMoves
    PROVE  \A e, r, v : e = pendingUpdate.epoch /\ r = pendingUpdate.revision /\ v = retained
              => ValueNear(e, r, v)'
<1> SUFFICES ASSUME NEW e, NEW r, NEW v, e = pendingUpdate.epoch,
                    r = pendingUpdate.revision, v = retained
             PROVE  ValueNear(e, r, v)'
  OBVIOUS
<1>1. /\ r \in Nat /\ revision \in Nat
      /\ e = epoch => r <= revision
      /\ ValueNear(e, r, v)
  BY VersionsUpToRevision
     DEF ReplicationTypes, PublisherTypes, TrackerTypes, TypeOK, PendingStateUpdate,
         ValuesAreNear, ValueNear
<1>2. QED
  BY <1>1, ValueNearStays

LEMMA HeldStaysNear ==
    ASSUME ReplicationTypes, Carried, ValuesAreNear, PublisherMoves, Held.hasValue
    PROVE  \A e, r, v : e = Held.epoch /\ r = Held.revision /\ v = Held.value
              => ValueNear(e, r, v)'
<1> SUFFICES ASSUME NEW e, NEW r, NEW v, e = Held.epoch, r = Held.revision, v = Held.value
             PROVE  ValueNear(e, r, v)'
  OBVIOUS
<1>1. /\ r \in Nat /\ revision \in Nat
      /\ e = epoch => r <= revision
      /\ ValueNear(e, r, v)
  BY VersionsUpToRevision, HeldIsASlot
     DEF ReplicationTypes, PublisherTypes, ConsumerTypes, ValuesAreNear, ValueNear
<1>2. QED
  BY <1>1, ValueNearStays

(* What is retained is kept, or it is replaced by a value that is near.    *)
LEMMA ValuesStayNear ==
    ASSUME ReplicationTypes, Carried, ValuesAreNear, PublisherMoves,
           [EagerNext]_replicationVars,
           \/ /\ retained' = retained
              /\ pendingUpdate'.epoch = pendingUpdate.epoch
              /\ pendingUpdate'.revision = pendingUpdate.revision
           \/ ValueNear(pendingUpdate.epoch, pendingUpdate.revision, retained)'
    PROVE  ValuesAreNear'
<1>1. ValueNear(pendingUpdate.epoch, pendingUpdate.revision, retained)'
  <2>1. CASE /\ retained' = retained
             /\ pendingUpdate'.epoch = pendingUpdate.epoch
             /\ pendingUpdate'.revision = pendingUpdate.revision
    BY <2>1, RetainedStaysNear DEF ValueNear
  <2>2. QED
    BY <2>1
<1>2. ASSUME NEW f \in wire' PROVE ValueNear(f.epoch, f.revision, f.value)'
  <2>1. CASE f \in wire
    BY <2>1, WireStaysNear
  <2>2. CASE f = Frame
    BY <2>2, RetainedStaysNear DEF Frame
  <2>3. QED
    BY <2>1, <2>2, WhatIsNew
<1>3. ASSUME Held'.hasValue PROVE ValueNear(Held.epoch, Held.revision, Held.value)'
  <2>1. CASE Held' = Held
    BY <1>3, <2>1, HeldStaysNear DEF ValueNear
  <2>2. ASSUME NEW f \in wire, Held'.epoch = f.epoch, Held'.revision = f.revision,
               Held'.value = f.value
        PROVE  ValueNear(Held.epoch, Held.revision, Held.value)'
    BY <2>2, WireStaysNear DEF ValueNear
  <2>3. QED
    BY <1>3, <2>1, <2>2, WhatIsNew
<1>4. QED
  BY <1>1, <1>2, <1>3 DEF ValuesAreNear

LEMMA ValuesAreNearStep ==
    ASSUME NoWrap, ReplicationTypes, Carried, FollowsOwner, ValuesAreNear, PromptStep
    PROVE  ValuesAreNear'
<1>0. /\ PublisherTypes /\ TrackerTypes /\ Counted /\ RetainsNewest /\ HandedUpTo
      /\ due \in BOOLEAN /\ revision \in Nat /\ epoch \in Nat \ {0}
      /\ [EagerNext]_replicationVars
  BY PromptSteps DEF ReplicationTypes, Carried, PublisherTypes, TrackerTypes
<1>a. SameTracker => /\ retained' = retained
                     /\ pendingUpdate'.epoch = pendingUpdate.epoch
                     /\ pendingUpdate'.revision = pendingUpdate.revision
  BY DEF SameTracker
<1>1. CASE ConsumerStep
  <2>1. PublisherMoves
    BY <1>1, ConsumerLeavesPublisher DEF SamePublisher, SameSlot, SameLife, PublisherMoves
  <2>2. QED
    BY <1>0, <1>1, <2>1, ConsumerKeepsRetained, ValuesStayNear
<1>2. CASE ChangeOwner
  <2>1. PublisherMoves /\ SameTracker
    BY <1>2, ChangeOwnerDoes DEF SameSlot, SameOthers, SameLife, PublisherMoves
  <2>2. QED
    BY <1>0, <1>a, <2>1, ValuesStayNear
<1>3. CASE RestartOrigin
  BY <1>3, RestartOriginDoes DEF ValuesAreNear, ValueNear
<1>4. ASSUME NEW t \in Thread,
             \/ RegisterSource(t) \/ StartPublish(t) \/ CallSource(t) \/ CommitPublish(t)
             \/ Serve(t)
      PROVE  ValuesAreNear'
  <2>1. ASSUME CommitPublish(t) PROVE PublisherMoves /\ SameTracker
    <3>1. call[t].step = "sampled" /\ call[t].op # "snapshot" /\ SameTracker /\ epoch' = epoch
      BY <2>1, CommitPublishDoes DEF SameOthers, SameLife
    <3>2. Taking(t, "publish")
      BY <1>0, <3>1, CallKinds DEF Taking, SampledCalls
    <3>3. Len(published) \in Nat /\ CommitLimit \in Nat /\ RevisionModulus \in Nat
      BY <1>0, ReplicationAssumption DEF PublisherTypes
    <3>4. revision + 1 < RevisionModulus
      BY <1>0, <3>2, <3>3 DEF Counted, NoWrap
    <3>5. \/ revision' = revision + 1
          \/ lastPublished' = lastPublished /\ revision' = revision
      BY <1>0, <2>1, <3>4, CommitPublishDoes, RevisionAfterIs
    <3>6. QED
      BY <3>1, <3>5 DEF PublisherMoves
  <2>2. PublisherMoves /\ SameTracker
    BY <1>0, <1>4, <2>1, RegisterSourceDoes, StartPublishDoes, CallSourceDoes, ServeDoes
       DEF SameSlot, SameOthers, SameLife, PublisherMoves
  <2>3. QED
    BY <1>0, <1>a, <2>2, ValuesStayNear
(* The value that is handed over with the publisher's revision is near.    *)
<1>5. ASSUME NEW r \in Nat \ {0}, NEW v, HandOver(r, v), epoch' = epoch,
             lastPublished' = lastPublished, revision' = r,
             revision = r \/ lastPublished = {},
             \A x \in handed : x.revision <= r,
             lastPublished # {} => Near(v)
      PROVE  ValuesAreNear'
  <2>1. PublisherMoves
    BY <1>5 DEF PublisherMoves
  <2>2. /\ pendingUpdate'.epoch = epoch /\ pendingUpdate'.revision = r
        /\ \/ retained' = v
           \/ /\ retained' = retained
              /\ pendingUpdate.epoch = epoch /\ pendingUpdate.revision = r
    BY <1>0, <1>5, HandOverRetains
  <2>3. CASE retained' = v
    BY <1>5, <2>2, <2>3, <1>0, <2>1, ValuesStayNear
       DEF ValueNear, Near, Publisher!StateValueChanged
  <2>4. CASE retained' = retained /\ pendingUpdate.epoch = epoch /\ pendingUpdate.revision = r
    BY <1>0, <2>1, <2>2, <2>4, ValuesStayNear
  <2>5. QED
    BY <2>2, <2>3, <2>4
<1>6. ASSUME NEW t \in Thread, Notify(t) PROVE ValuesAreNear'
  <2>1. /\ call[t].step = "committed" /\ SameSlot /\ epoch' = epoch
        /\ \/ HandOver(call[t].update.revision, call[t].update.value)
           \/ SameTracker
    BY <1>6, NotifyDoes DEF SameLife
  <2>2. /\ call[t].update.revision = revision /\ revision # 0
        /\ lastPublished = {call[t].update.value}
        /\ call[t].update.value \in Value
    BY <1>0, <2>1, CallKinds DEF Counted, Committing, CommittedCalls, Publisher!Update
  <2>3. Near(call[t].update.value)
    BY <2>2, NoDistance DEF Near
  <2>4. CASE SameTracker
    BY <1>0, <1>a, <2>1, <2>4, ValuesStayNear DEF SameSlot, PublisherMoves
  <2>5. CASE HandOver(call[t].update.revision, call[t].update.value)
    <3>1. PICK r \in Nat \ {0} : r = revision
      BY <1>0, <2>2
    <3>2. \A x \in handed : x.revision <= r
      BY <1>0, <3>1 DEF HandedUpTo
    <3>3. QED
      BY <1>5, <2>1, <2>2, <2>3, <2>5, <3>1, <3>2 DEF SameSlot
  <2>6. QED
    BY <2>1, <2>4, <2>5
<1>7. ASSUME NEW t \in Thread, HandOverSnapshot(t) PROVE ValuesAreNear'
  <2>1. /\ call[t].step = "sampled" /\ call[t].op = "snapshot" /\ epoch' = epoch
        /\ lastPublished' = lastPublished
        /\ HandOver(revision', call[t].value) /\ revision' = Publisher!RevisionAfter(FALSE)
    BY <1>7, HandOverSnapshotDoes DEF SameLife
  <2>2. /\ revision' \in Nat \ {0} /\ (revision # 0 => revision' = revision)
    BY <1>0, <2>1, RevisionAfterIs
  <2>3. PICK r \in Nat \ {0} : r = revision'
    BY <2>2
  <2>4. revision = r \/ lastPublished = {}
    BY <1>0, <2>2, <2>3 DEF Counted
  <2>5. \A x \in handed : x.revision <= r
    <3>1. \A x \in handed : x.revision \in Nat
      BY <1>0 DEF TrackerTypes, TypeOK, Version
    <3>2. QED
      BY <1>0, <2>2, <2>3, <3>1 DEF HandedUpTo
  <2>6. call[t].value = owner /\ Near(owner)
    <3>1. \A u \in Thread : ~Taking(u, "publish")
      BY <1>0, <2>1, OthersAreIdle DEF Taking
    <3>2. QED
      BY <2>1, <3>1 DEF FollowsOwner, Busy, Samples, OwnerIsPublished
  <2>7. QED
    BY <1>5, <2>1, <2>3, <2>4, <2>5, <2>6
<1>8. QED
  BY <1>1, <1>2, <1>3, <1>4, <1>6, <1>7, PromptSteps DEF PromptPublisherStep

LEMMA RetainsPublishedStep ==
    ASSUME NoWrap, ReplicationTypes, Carried, RetainsPublished, PromptStep
    PROVE  RetainsPublished'
<1>0. /\ PublisherTypes /\ TrackerTypes /\ Counted /\ RetainsNewest /\ HandedUpTo
      /\ due \in BOOLEAN /\ revision \in Nat
  BY DEF ReplicationTypes, Carried, PublisherTypes
<1> DEFINE unsaid == \A t \in Thread : ~Committing(t)
           unsaidNext == \A t \in Thread : ~Committing(t)'
<1> SUFFICES ASSUME lastPublished' # {}, subscribed', NoSnapshot', unsaidNext
             PROVE  Retained' = At(epoch', revision')
  BY DEF RetainsPublished, At
<1>1. ASSUME UNCHANGED <<lastPublished, revision, epoch, subscribed>>,
             pendingUpdate'.epoch = pendingUpdate.epoch,
             pendingUpdate'.revision = pendingUpdate.revision,
             NoSnapshot, unsaid
      PROVE  Retained' = At(epoch', revision')
  BY <1>1 DEF RetainsPublished, Retained
<1>2. CASE ConsumerStep
  <2>1. UNCHANGED <<lastPublished, revision, epoch, subscribed, call>>
    BY <1>2, ConsumerLeavesPublisher DEF SamePublisher, SameSlot, SameLife
  <2>2. NoSnapshot /\ unsaid
    BY <2>1 DEF NoSnapshot, Taking, Committing
  <2>3. QED
    BY <1>1, <1>2, <2>1, <2>2, ConsumerKeepsRetained
<1>3. ASSUME AtRest, UNCHANGED <<lastPublished, revision, epoch, subscribed, pendingUpdate>>
      PROVE  Retained' = At(epoch', revision')
  BY <1>1, <1>3, AtRestMeans DEF NoSnapshot
<1>4. CASE ChangeOwner
  BY <1>3, <1>4, ChangeOwnerDoes DEF SameSlot, SameOthers, SameLife, SameTracker
<1>5. CASE RestartOrigin
  BY <1>5, RestartOriginDoes
<1>6. ASSUME NEW t \in Thread, RegisterSource(t) \/ StartPublish(t)
      PROVE  Retained' = At(epoch', revision')
  BY <1>3, <1>6, RegisterSourceDoes, StartPublishDoes
     DEF SameSlot, SameOthers, SameLife, SameTracker
<1>7. ASSUME NEW t \in Thread, Serve(t) PROVE Retained' = At(epoch', revision')
  <2>1. /\ AtRest /\ lastPublished' = lastPublished
        /\ \/ GoesTo(t, Publisher!Pinned("snapshot", source))
           \/ source = 0
    BY <1>0, <1>7, ServeDoes DEF SameSlot
  <2>2. CASE source = 0
    BY <1>0, <2>1, <2>2 DEF Counted
  <2>3. CASE GoesTo(t, Publisher!Pinned("snapshot", source))
    <3>1. call'[t] = Publisher!Pinned("snapshot", source)
      BY <1>0, <2>3, NewCalls, CallsGoOn
    <3>2. Taking(t, "snapshot")'
      BY <3>1 DEF Publisher!Pinned, Taking
    <3>3. QED
      BY <3>2 DEF NoSnapshot
  <2>4. QED
    BY <2>1, <2>2, <2>3
(* The thread that goes on is not about to tell anything.                  *)
<1>8. ASSUME NEW t \in Thread, call[t].step \in {"pinned", "sampled"}, ~Taking(t, "snapshot")
      PROVE  NoSnapshot /\ unsaid
  BY <1>0, <1>8, OthersAreIdle DEF NoSnapshot, Taking, Committing
<1>9. ASSUME NEW t \in Thread, CallSource(t) PROVE Retained' = At(epoch', revision')
  <2>1. /\ call[t].step = "pinned"
        /\ GoesTo(t, Publisher!Sampled(call[t].op, call[t].source, owner))
        /\ UNCHANGED <<lastPublished, revision, epoch, subscribed, pendingUpdate>>
    BY <1>9, CallSourceDoes DEF SameSlot, SameOthers, SameLife, SameTracker
  <2>2. call'[t] = Publisher!Sampled(call[t].op, call[t].source, owner)
    BY <1>0, <2>1, NewCalls, CallsGoOn
  <2>3. ~Taking(t, "snapshot")
    BY <2>2 DEF NoSnapshot, Taking, Publisher!Sampled
  <2>4. NoSnapshot /\ unsaid
    BY <1>8, <2>1, <2>3
  <2>5. QED
    BY <1>1, <2>1, <2>4
<1>10. ASSUME NEW t \in Thread, CommitPublish(t) PROVE Retained' = At(epoch', revision')
  <2>1. /\ call[t].step = "sampled" /\ call[t].op # "snapshot"
        /\ UNCHANGED <<epoch, subscribed, pendingUpdate>>
    BY <1>10, CommitPublishDoes DEF SameOthers, SameLife, SameTracker
  <2>2. CASE GoesTo(t, Publisher!Committed(Update(t)))
    <3>1. call'[t] = Publisher!Committed(Update(t))
      BY <1>0, <2>1, <2>2, UpdateIsTyped, CallsGoOn
    <3>2. Committing(t)'
      BY <1>0, <2>1, <3>1, UpdateIsTyped DEF Committing
    <3>3. QED
      BY <3>2
  <2>3. CASE UNCHANGED <<lastPublished, revision>>
    <3>1. NoSnapshot /\ unsaid
      BY <1>8, <2>1 DEF Taking
    <3>2. QED
      BY <1>1, <2>1, <2>3, <3>1
  <2>4. QED
    BY <1>10, <2>2, <2>3, CommitPublishDoes
<1>11. ASSUME NEW r \in Nat \ {0}, NEW v, HandOver(r, v), revision' = r, epoch' = epoch,
              \A x \in handed : x.revision <= r
       PROVE  Retained' = At(epoch', revision')
  BY <1>0, <1>11, HandOverRetains DEF Retained
<1>12. ASSUME NEW t \in Thread, Notify(t) PROVE Retained' = At(epoch', revision')
  <2>1. /\ call[t].step = "committed" /\ UNCHANGED <<epoch, revision>>
        /\ HandOver(call[t].update.revision, call[t].update.value)
    BY <1>12, NotifyDoes DEF SameLife, SameSlot
  <2>2. call[t].update.revision = revision /\ revision # 0
    BY <1>0, <2>1 DEF Counted, Committing
  <2>3. PICK r \in Nat \ {0} : r = revision
    BY <1>0, <2>2
  <2>4. \A x \in handed : x.revision <= r
    BY <1>0, <2>3 DEF HandedUpTo
  <2>5. QED
    BY <1>11, <2>1, <2>2, <2>3, <2>4
<1>13. ASSUME NEW t \in Thread, HandOverSnapshot(t) PROVE Retained' = At(epoch', revision')
  <2>1. /\ epoch' = epoch /\ revision' = Publisher!RevisionAfter(FALSE)
        /\ HandOver(Publisher!RevisionAfter(FALSE), call[t].value)
    BY <1>13, HandOverSnapshotDoes DEF SameLife
  <2>2. /\ revision' \in Nat \ {0}
        /\ revision # 0 => revision' = revision
        /\ revision = 0 => revision' = 1
    BY <1>0, <2>1, RevisionAfterIs
  <2>3. PICK r \in Nat \ {0} : r = revision'
    BY <2>2
  <2>4. \A x \in handed : x.revision <= r
    <3>1. \A x \in handed : x.revision \in Nat
      BY <1>0 DEF TrackerTypes, TypeOK, Version
    <3>2. QED
      BY <1>0, <2>2, <2>3, <3>1 DEF HandedUpTo
  <2>5. QED
    BY <1>11, <2>1, <2>3, <2>4
<1>14. QED
  BY <1>2, <1>4, <1>5, <1>6, <1>7, <1>9, <1>10, <1>12, <1>13, PromptSteps
     DEF PromptPublisherStep

(* What the consumer holds only becomes newer, unless it restarts.         *)
LEMMA HoldsOn ==
    ASSUME ReplicationTypes, [EagerNext]_replicationVars, ~wanted',
           NEW x \in Version, Held.hasValue, ~Older(HeldVersion, x)
    PROVE  Held'.hasValue /\ ~Older(HeldVersion', x)
<1>0. slot \in Slots /\ wire \subseteq Frames
  BY DEF ReplicationTypes, ConsumerTypes, NetworkTypes
<1>1. CASE Held' = Held
  BY <1>1 DEF HeldVersion, VersionOf
<1>2. ASSUME NEW f \in wire, Held'.hasValue = TRUE, HeldVersion' = VersionOf(f),
             Older(HeldVersion, VersionOf(f))
      PROVE  Held'.hasValue /\ ~Older(HeldVersion', x)
  <2>1. /\ VersionOf(f).epoch \in Nat /\ VersionOf(f).revision \in Nat
        /\ HeldVersion.epoch \in Nat /\ HeldVersion.revision \in Nat
        /\ x.epoch \in Nat /\ x.revision \in Nat
    BY <1>0, VersionsOfFrames, HeldIsASlot DEF Frames, Version
  <2>2. QED
    BY <1>2, <2>1 DEF Older
<1>3. QED
  BY <1>1, <1>2, WhatIsNew

LEMMA DeliveredStep ==
    ASSUME NoWrap, ReplicationTypes, Carried, Delivered, PromptStep
    PROVE  Delivered'
<1>0. /\ PublisherTypes /\ TrackerTypes /\ ConsumerTypes /\ NetworkTypes
      /\ TypeOK /\ Counted /\ RetainsNewest /\ HandedUpTo /\ AcksAreHeld
      /\ due \in BOOLEAN /\ [EagerNext]_replicationVars
  BY PromptSteps DEF ReplicationTypes, Carried, PublisherTypes, TrackerTypes
<1> SUFFICES ASSUME handed' # {}, ~pendingUpdate'.pending, ~wanted', NoSnapshot'
             PROVE  Held'.hasValue /\ ~Older(HeldVersion', Retained')
  BY DEF Delivered, Older
<1>1. ASSUME Retained' = Retained, Held.hasValue, ~Older(HeldVersion, Retained)
      PROVE  Held'.hasValue /\ ~Older(HeldVersion', Retained')
  BY <1>0, <1>1, RetainedIs, HoldsOn
<1>2. ASSUME SameTracker, ~wanted, NoSnapshot
      PROVE  Held'.hasValue /\ ~Older(HeldVersion', Retained')
  <2>1. handed' = handed /\ pendingUpdate' = pendingUpdate /\ Retained' = Retained
    BY <1>2 DEF SameTracker, Retained
  <2>2. Held.hasValue /\ ~Older(HeldVersion, Retained)
    BY <1>2, <2>1 DEF Delivered
  <2>3. QED
    BY <1>1, <2>1, <2>2
<1>3. CASE ConsumerStep
  <2>1. handed' = handed /\ call' = call /\ Retained' = Retained
    BY <1>3, ConsumerKeepsHanded, ConsumerLeavesPublisher, ConsumerKeepsRetained
       DEF SamePublisher, Retained
  <2>2. NoSnapshot
    BY <2>1 DEF NoSnapshot, Taking
  <2>3. ~wanted
    <3>1. ASSUME NEW f \in wire, Receive(f) PROVE wanted' = wanted
      BY <1>0, <3>1, ReceiveDoes DEF NetworkTypes
    <3>2. QED
      BY <1>0, <1>3, <3>1, SmallStepsDo, AckArrivesDoes, RestartConsumerDoes
         DEF ConsumerStep, SameOthers
  <2>4. CASE pendingUpdate'.pending = pendingUpdate.pending
    BY <1>1, <2>1, <2>2, <2>3, <2>4 DEF Delivered
  <2>5. ASSUME NEW a \in acks, a.epoch = pendingUpdate.epoch,
               a.revision >= pendingUpdate.revision
        PROVE  Held'.hasValue /\ ~Older(HeldVersion', Retained')
    <3>1. Held.hasValue /\ ~Older(HeldVersion, a)
      BY <1>0 DEF AcksAreHeld
    <3>2. /\ a.epoch \in Nat /\ a.revision \in Nat
          /\ HeldVersion.epoch \in Nat /\ HeldVersion.revision \in Nat
          /\ pendingUpdate.epoch \in Nat /\ pendingUpdate.revision \in Nat
      BY <1>0, HeldIsASlot DEF NetworkTypes, ConsumerTypes, Version, TypeOK, PendingStateUpdate
    <3>3. ~Older(HeldVersion, Retained)
      BY <1>0, <2>5, <3>1, <3>2, RetainedIs DEF Older
    <3>4. QED
      BY <1>1, <2>1, <3>1, <3>3
  <2>6. QED
    BY <1>3, <2>4, <2>5, ConsumerKeepsRetained
<1>4. ASSUME SameTracker, wanted' = wanted, UNCHANGED call
      PROVE  Held'.hasValue /\ ~Older(HeldVersion', Retained')
  BY <1>2, <1>4 DEF NoSnapshot, Taking
<1>5. CASE ChangeOwner
  BY <1>4, <1>5, ChangeOwnerDoes DEF SameOthers
<1>6. CASE RestartOrigin
  BY <1>6, RestartOriginDoes
<1>7. ASSUME NEW t \in Thread, RegisterSource(t)
      PROVE  Held'.hasValue /\ ~Older(HeldVersion', Retained')
  BY <1>4, <1>7, RegisterSourceDoes DEF SameOthers
<1>8. ASSUME NEW t \in Thread, Serve(t)
      PROVE  Held'.hasValue /\ ~Older(HeldVersion', Retained')
  <2>1. /\ SameTracker
        /\ \/ GoesTo(t, Publisher!Pinned("snapshot", source))
           \/ source = 0
    BY <1>0, <1>8, ServeDoes
  <2>2. CASE source = 0
    BY <1>0, <2>1, <2>2 DEF Counted, SameTracker
  <2>3. CASE GoesTo(t, Publisher!Pinned("snapshot", source))
    <3>1. call'[t] = Publisher!Pinned("snapshot", source)
      BY <1>0, <2>3, NewCalls, CallsGoOn
    <3>2. Taking(t, "snapshot")'
      BY <3>1 DEF Publisher!Pinned, Taking
    <3>3. QED
      BY <3>2 DEF NoSnapshot
  <2>4. QED
    BY <2>1, <2>2, <2>3
<1>9. ASSUME NEW t \in Thread, StartPublish(t) \/ CallSource(t) \/ CommitPublish(t)
      PROVE  Held'.hasValue /\ ~Older(HeldVersion', Retained')
  <2>1. SameTracker /\ wanted' = wanted
    BY <1>9, StartPublishDoes, CallSourceDoes, CommitPublishDoes DEF SameOthers
  <2>2. CASE StartPublish(t)
    BY <1>2, <2>1, <2>2, StartPublishDoes, AtRestMeans DEF NoSnapshot
  <2>3. CASE CallSource(t)
    <3>1. /\ call[t].step = "pinned"
          /\ GoesTo(t, Publisher!Sampled(call[t].op, call[t].source, owner))
      BY <2>3, CallSourceDoes
    <3>2. call'[t] = Publisher!Sampled(call[t].op, call[t].source, owner)
      BY <1>0, <3>1, NewCalls, CallsGoOn
    <3>3. ~Taking(t, "snapshot")
      BY <3>2 DEF NoSnapshot, Taking, Publisher!Sampled
    <3>4. NoSnapshot
      BY <1>0, <3>1, <3>3, OthersAreIdle DEF NoSnapshot
    <3>5. QED
      BY <1>2, <2>1, <3>4
  <2>4. CASE CommitPublish(t)
    <3>1. call[t].step = "sampled" /\ call[t].op # "snapshot"
      BY <2>4, CommitPublishDoes
    <3>2. NoSnapshot
      BY <1>0, <3>1, OthersAreIdle DEF NoSnapshot, Taking
    <3>3. QED
      BY <1>2, <2>1, <3>2
  <2>5. QED
    BY <1>9, <2>2, <2>3, <2>4
(* What is handed over is pending, until it is acknowledged.               *)
<1>10. ASSUME NEW t \in Thread, Notify(t) \/ HandOverSnapshot(t)
       PROVE  Held'.hasValue /\ ~Older(HeldVersion', Retained')
  <2>1. CASE Notify(t) /\ SameTracker
    <3>1. call[t].step = "committed" /\ wanted' = wanted
      BY <2>1, NotifyDoes
    <3>2. NoSnapshot
      BY <1>0, <3>1, OthersAreIdle DEF NoSnapshot, Taking
    <3>3. QED
      BY <1>2, <2>1, <3>1, <3>2
  <2>2. ASSUME NEW r \in Nat \ {0}, NEW v, HandOver(r, v), \A x \in handed : x.revision <= r
        PROVE  FALSE
    BY <1>0, <2>2, HandOverRetains
  <2>3. CASE HandOverSnapshot(t) /\ SameTracker
    <3>1. /\ revision' = Publisher!RevisionAfter(FALSE)
          /\ HandOver(revision', call[t].value)
      BY <2>3, HandOverSnapshotDoes
    <3>2. revision \in Nat /\ \A x \in handed : x.revision \in Nat /\ x.revision <= revision
      BY <1>0 DEF PublisherTypes, TypeOK, Version, HandedUpTo
    <3>3. /\ revision' \in Nat \ {0}
          /\ revision # 0 => revision' = revision
      BY <3>1, <3>2, RevisionAfterIs
    <3>4. PICK r \in Nat \ {0} : r = revision'
      BY <3>3
    <3>5. \A x \in handed : x.revision <= r
      BY <3>2, <3>3, <3>4
    <3>6. QED
      BY <2>2, <3>1, <3>4, <3>5
  <2>4. QED
    BY <1>0, <1>10, <2>1, <2>2, <2>3, HandsOverRevision
<1>11. QED
  BY <1>3, <1>5, <1>6, <1>7, <1>8, <1>9, <1>10, PromptSteps DEF PromptPublisherStep

LEMMA FollowsInit == ReplicationInit => FollowsOwner /\ ConsumerFollows
<1> SUFFICES ASSUME ReplicationInit PROVE FollowsOwner /\ ConsumerFollows
  OBVIOUS
<1>1. /\ call = [t \in Thread |-> Publisher!NoCall]
      /\ lastPublished = {} /\ source = 0 /\ due = TRUE
  BY DEF ReplicationInit, Publisher!Init
<1>2. handed = {} /\ wire = {}
  BY DEF ReplicationInit, Init
<1>3. Held.hasValue = FALSE
  BY EmptySlotIsTyped DEF ReplicationInit, Manager!ManagerInit, Held
<1>4. \A t \in Thread : call[t].step = "idle"
  BY <1>1 DEF Publisher!NoCall
<1>5. FollowsOwner
  BY <1>1, <1>4 DEF FollowsOwner, Busy, Samples, OwnerIsPublished, LastIsAnnounced
<1>6. ConsumerFollows
  BY <1>1, <1>2, <1>3
     DEF ConsumerFollows, ValuesAreNear, ValueNear, RetainsPublished, Delivered
<1>7. QED
  BY <1>5, <1>6

(* The publisher follows its owner and the consumer follows the publisher, *)
(* when requests are answered after the owner's last change is published.  *)
THEOREM FollowsAlways ==
    ASSUME NoWrap
    PROVE  PromptSpec => [](ReplicationTypes /\ Carried /\ FollowsOwner /\ ConsumerFollows)
<1> DEFINE I == FollowsOwner /\ ConsumerFollows
<1>1. ReplicationTypes /\ Carried /\ I /\ [PromptNext]_replicationVars => I'
  BY FollowsOwnerStep, ValuesAreNearStep, RetainsPublishedStep, DeliveredStep
     DEF ConsumerFollows, PromptStep
<1>2. ReplicationInit => I
  BY FollowsInit
<1>3. PromptSpec => ReplicationInit /\ [][PromptNext]_replicationVars
  BY PTL DEF PromptSpec
<1>4. PromptSpec => [](ReplicationTypes /\ Carried)
  BY ReplicationTypeCorrect, CarriedAlways, PromptIsEager, PTL
<1>5. PromptSpec => []I
  <2> HIDE DEF I
  <2>1. QED
    BY <1>1, <1>2, <1>3, <1>4, PTL
<1>6. QED
  BY <1>4, <1>5, PTL

(* Once the owner has published after its last change, what observers of   *)
(* the publisher were told last is the owner's value, within the           *)
(* definition's tolerance: no drift, and no change left behind.            *)
THEOREM AnnouncedIsOwners == ASSUME NoWrap PROVE PromptSpec => []AnnouncedIsCurrent
<1>1. FollowsOwner => AnnouncedIsCurrent
  <2> SUFFICES ASSUME FollowsOwner, ~due, AtRest, source # 0
               PROVE  \E u \in announced : ~Publisher!StateValueChanged(u.value, owner)
    BY DEF AnnouncedIsCurrent, Publisher!AnnouncedIsCurrent, Publisher!Quiescent,
           Publisher!IsCurrent, AtRest
  <2>1. Near(owner)
    BY AtRestMeans DEF FollowsOwner, OwnerIsPublished
  <2>2. PICK u \in announced : lastPublished = {u.value}
    BY <2>1, AtRestMeans DEF FollowsOwner, LastIsAnnounced, Near
  <2>3. QED
    BY <2>1, <2>2 DEF Near
<1>2. QED
  BY <1>1, FollowsAlways, PTL

(* When the owner has published its last change, requests are answered and *)
(* nothing is pending, the consumer holds the publisher's version, with a  *)
(* value the definition cannot tell from the published one: whatever the   *)
(* network lost, repeated or reordered, and whoever restarted.             *)
THEOREM ConsumerEndsInSync == ASSUME NoWrap PROVE PromptSpec => []SettledInSync
<1>1. ReplicationTypes /\ Carried /\ FollowsOwner /\ ConsumerFollows => SettledInSync
  <2> SUFFICES ASSUME ReplicationTypes, Carried, FollowsOwner, ConsumerFollows, Settled
               PROVE  InSync
    BY DEF SettledInSync
  <2>1. /\ TypeOK /\ slot \in Slots /\ epoch \in Nat \ {0} /\ revision \in Nat
        /\ RetainsNewest /\ OnlySent /\ Counted
    BY DEF ReplicationTypes, TrackerTypes, ConsumerTypes, PublisherTypes, Carried
  <2>2. /\ AtRest /\ ~due /\ source # 0 /\ subscribed /\ ~wanted /\ ~pendingUpdate.pending
        /\ NoSnapshot /\ \A t \in Thread : ~Committing(t) /\ ~Taking(t, "publish")
    BY AtRestMeans DEF Settled, NoSnapshot
  <2>3. lastPublished # {}
    BY <2>2 DEF FollowsOwner, OwnerIsPublished, Near
  <2>4. pendingUpdate.epoch = epoch /\ pendingUpdate.revision = revision
    <3>1. Retained = At(epoch, revision)
      BY <2>2, <2>3 DEF ConsumerFollows, RetainsPublished
    <3>2. QED
      BY <3>1 DEF Retained, At
  <2>5. handed # {}
    BY <2>1, <2>4 DEF RetainsNewest, NeverReplaced
  <2>6. Held.hasValue /\ ~Older(HeldVersion, Retained)
    BY <2>2, <2>5 DEF ConsumerFollows, Delivered
  <2>7. /\ Held.epoch \in Nat /\ Held.revision \in Nat
        /\ HeldVersion.epoch = Held.epoch /\ HeldVersion.revision = Held.revision
    BY <2>1, HeldIsASlot
  <2>8. Held.epoch <= epoch
    BY <2>1, <2>6, <2>7 DEF OnlySent, Sent
  <2>9. Held.epoch = epoch /\ Held.revision >= revision
    BY <2>1, <2>4, <2>6, <2>7, <2>8, RetainedIs DEF Older
  <2>10. Held.revision = revision
    BY <2>1, <2>6, <2>7, <2>9, VersionsUpToRevision
  <2>11. Near(Held.value)
    BY <2>3, <2>6, <2>9, <2>10 DEF ConsumerFollows, ValuesAreNear, ValueNear
  <2>12. QED
    BY <2>6, <2>9, <2>10, <2>11 DEF InSync, Near
<1>2. QED
  BY <1>1, FollowsAlways, PTL
===================================================================================
