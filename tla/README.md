# ESPressio-State: specifications and proofs

ESPressio-State replicates the *latest* value of typed states between devices.
The owner of a value gives it revisions, a transport carries updates, and every
receiver keeps the newest version it has seen. There is no history and no
queue: obsolete values are dropped on purpose. What must never happen is that a
value that is *not* obsolete gets lost, that an obsolete one stays, or that two
values pass for the same version. The code is small, but it is called from
several contexts (transport receive callbacks, application tasks, a worker
thread), it releases its mutexes before it calls anybody, and its observers may
call back. That is what these modules are about.

Paths below are relative to the repository; headers are `src/ESPressio_*.hpp`.

## 1. The system

| Part | State it keeps | Operations | What is hard |
|---|---|---|---|
| `StatePublisher` | per definition: source, last published value, revision | `RegisterSource`, `UnregisterSource`, `Publish`, `Snapshot` | the source is called without the mutex and its result committed later; notification after the mutex |
| `StateComparison` | none | `StateValueChanged` | what counts as a change (deadbands) |
| `StatePublicationTracker`, `PendingStateUpdate` (`StateTransport`) | the one unacknowledged update of a state for one destination | `Replace`, `Acknowledge`, `SetDestination` | late, repeated and reordered updates and acknowledgements; new epochs |
| `RemoteStateManager` | bounded records per remote device: availability, newest version of each state | `Apply`, `SetAvailability`, `Read`, `ForEachDevice` | concurrent `Apply`; notifications after the mutex; capacity |
| `RemoteStateObserverThread` | marks of what changed, what was delivered last | manager callbacks, `Drain`, `NotifyState`, prepare and shutdown | marks set by other threads while the worker swaps, reads and delivers; bounded vectors |
| `StateSubscriptionRegistry` | bounded set of local interests | `Subscribe`, `Unsubscribe`, `IsSubscribed`, `Count`, `ForEach` | duplicates, capacity, order of notifications |
| `StateSubscriberRegistry` | bounded records of remote consumers | `Subscribe`, `Unsubscribe`, `Remove`, queries, `ForEachSubscriber` | reuse of records, capacity, traversals that are re-entered |
| `StateProtocol`, `StateCodec` | none | encode and decode frames | agreement of both sides at the edges |
| `StateContract`, `DeviceIdentifier`, `StateSerialization`, `StateIntrospection`, `StateObservers` | none | compile-time sets, value types, adaptors, read-only traversal, interfaces | (introspection) no single instant |
| Observable, System, Threads, transports | (other repositories) | | assumed: mutexes, synchronous notification in the calling thread, a periodic worker, a lossy network |

How they interact: the owner calls `Publish`; the publisher calls the source,
gives a revision and notifies; a transport, asking the subscriber registry whom
to send to, hands the update to a tracker per subscriber and sends it until it is
acknowledged. On the other side the transport asks the subscription registry
whether the update was wanted and calls `Apply`; the manager stores it and
notifies the observer thread, in the caller's thread; that only marks what
changed, and the worker later reads the manager and tells the application.

## 2. Modules and how they correspond to the code

Every mutex section is one step; every notification made after it, every call of
a source and every callback of a traversal is another. Between them all other
threads run; a callback that re-enters a component interleaves like another
thread. An allocation that fails makes an operation return before it has touched
anything, a stuttering step. Values, devices and definitions are model values
(integers where they have a distance).

| Module | Models | Correspondence |
|---|---|---|
| `RemoteStateManager` | `RemoteStateManager` | `Apply`, `SetAvailability` are the sections of the same name (including `FindOrCreateLocked` and what `ApplyValue` decides); `notes[t]` is what thread `t` has still to notify, in order; `Announce` makes one notification; `Read` is the lookup under the mutex |
| `ManagerHistory` | the same with history | adds what was offered and what observers heard; states the manager's properties |
| `LatestState` | (abstract) | a copy per key that only moves on to newer known updates |
| `RemoteStateObserverThread` | `RemoteStateObserverThread` while it is prepared | extends the manager: `OnRemoteState...` happen when the manager announces; `MarkAllStatesDirty` is one section per definition; `Drain` is the swap; then the worker delivers availability, and for each mark `ReadState` (the manager's `Read`) and `NotifyState` |
| `ObserverLifecycle` | its life, and `StateIntrospection` | extends it: `Prepare` and `ShutdownObserverThread` write `_prepared`, `ClearBookkeeping` is the section that clears the vectors, `CheckPrepared` the read of the flag at the head of a callback, without a mutex and so possibly stale; `ForEachDevice` and `VisitDeviceStates` are the sections of a traversal with which the application reads what was there before |
| `PublicationTracker` | `StatePublicationTracker`, `PendingStateUpdate` | `Replace`, `Acknowledge`, `RegisterObserver`; `OrderedSpec` is the same under a publisher that is called from one thread |
| `StatePublisher` | `StatePublisher`, `StateComparison` | a call is idle, pinned, sampled or committed; `Pin`, `CallSource`, `CommitPublish`/`CommitSnapshot` and `Notify` are its steps; `ChangeOwner` is the outside |
| `StateReplication` | publisher, tracker, network and manager composed | its actions are those of the component modules (`INSTANCE`), joined by what the documents ask of a transport; `RestartOrigin`, `RestartConsumer` give a device its initial state again |
| `StateProtocol` | `StateProtocol`, `StateCodec` | one encoder and one decoder per kind of message, over frames of bytes, that is numbers, from which any number can be read; `Cut`, `Extend` and `DamageByte` (any byte, that of the type included, becomes any other) are the network |
| `SubscriptionRegistry` | `StateSubscriptionRegistry` | the record array; `returned[t]` is what the last call of `t` answered |
| `SubscriptionSet` | (abstract) | one bounded set, answers given at one instant |
| `SubscriberRegistry` | `StateSubscriberRegistry` | the record array; `call[t]` is a notification to make or a traversal and the devices left |
| `MC...` | | constants for TLC |
| `ManagerTypes`, `ManagerProofs`, `ObserverThreadProofs`, `PublisherProofs`, `ReplicationProofs`, `SubscriptionProofs`, `SubscriberProofs`, `ProtocolProofs` | | lemmas and theorems, section 5 |

How they compose: `ManagerHistory` and `RemoteStateObserverThread` extend the
manager, `ObserverLifecycle` extends the worker. `StateReplication` extends the
tracker and instantiates the publisher and the manager; its actions add only who
may do what when. Two decisions about the transport, which is not in this
repository, matter there. Its acknowledgements follow
`wiki/Subscriptions-and-Reliability.md`: it acknowledges what the manager accepted
*or already contains*. And acknowledgements of a consumer's former life do not
get through to the origin: an acknowledgement names a version only, so the tracker
cannot tell, and would drop the very update that the restarted consumer lacks.

## 3. What is checked

| Run | Instance | Shows |
|---|---|---|
| `manager_race` | 2 threads, 2 devices (and the zero one) for 1 record, 1 definition, epochs 1-2, revisions 0-2, 2 values, at most 3 distinct updates per state | `StoredIsNewest`: a slot holds the newest version offered, whatever the order. `StoredIsAnnounced`: its acceptance was or will be announced. `RegisteredOnce`. `KeepsLatest`: refines `LatestState` |
| `observer_changes` | 2 threads, one of which reports availability, 1 state, 2 revisions, prepare - shut down - prepare again, fairness | `ShownOrOnItsWay`: an application that prepares and then visits what is there misses nothing, before, during or after; `AvailabilityKnown`; `DeliveredAdvances`; `ChangesAreShown` (liveness) |
| `observer_availability` | 1 thread, 3 availabilities, 2 devices, 2 definitions, 1 record | `MarksFit`: no bounded vector is full when it is needed; `AvailabilitySettles`, `TransitionsChain` |
| `publisher_race` | 2 threads, 3 values with tolerance 1, 2 updates (one more for each thread in flight), snapshots, 2 changes of the source, revisions of two bits | `OneValuePerRevision`, `NoRedundantRevision`, `NothingAfterRetirement`, `SnapshotIsSuperseded`, and `NeverRevisionZero` at the wrap |
| `replication` | one origin, one consumer, 3 values with tolerance 1, 2 updates, one restart (of either) or request to resynchronise, fairness | once nothing is due, asked for or pending the consumer is in sync (`SettledInSync`), and it gets there (`CatchesUp`, `PendingIsResolved`); the tracker's `NothingDroppedUnacknowledged`, `MirrorAgrees`, `SettledMeansNewestAcknowledged`, `AckOfPendingCounts` in every life; `AnnouncedIsCurrent`, drift below the tolerance included |
| `protocol` | every kind of message, bytes of ten values, payloads of 2, 99 and 100 bytes (two such bytes count to 99), identifiers that differ in one byte and in two, buffers one byte too small, right and too large; any one byte damaged | `RoundTrip`; `OnlyWholeFrames`: parts are read as nothing; `KindsStayApart`; `OnlyNeighboursAreConfused`: which definitions a damaged identifier can reach; `FitsTheBuffer` |
| `subscriptions_shared` | 2 threads, 6 descriptors, 2 records | `CountIsExact`; `ImplementsSet`: refines `SubscriptionSet` |
| `subscribers_shared` | 2 threads, 3 devices and the zero one, 2 definitions, 2 records | `QueriesAgree`, `VisitedOnce`, `SubscribedAsAsked`, `RefusedOnlyWhenFull` |

`manager_race`, `observer_availability`, `publisher_race`, `replication` and
`subscriptions_shared` also check the `TypeOK` of their component.

Why these bounds are enough to be interesting: two threads give every
inversion of two notifications; three versions give an older, an equal and a
newer one around what is stored, two epochs the case where epoch and revision
disagree; registries and repositories have fewer places than there is demand
for; a tolerance of 1 over three values has a change that is none and a drift
that adds up to one. Revisions of two bits wrap after three updates and a
snapshot; the properties about the order of revisions hold until then
(`NotWrapped`), `NeverRevisionZero` beyond. The buffers of `protocol` stand on
both sides of each size the code compares with; ten values of a byte are enough for
the eight types of message, and bring the largest payload down to 99 bytes.

Bounds that are not sizes of sets: `OfferLimit` (updates offered per state),
`CommitLimit` (updates published; in `StateReplication` one less in each further
life of the origin), `ResetLimit` (changes of the source), `WriteLimit` (calls of
`Prepare` and `ShutdownObserverThread`), `IncidentLimit` (restarts and requests).
They stop counting, not interleaving. A message of `protocol` meets one incident
(carried, cut, extended, or a byte damaged). `publisher_race`, `manager_race` and
`subscribers_shared` use symmetry of threads (devices, definitions), with safety
properties only. No run turns the deadlock check off: callers may always call
again, and a stopped publisher can still change its owner.

### Where code and documentation disagree

Four runs have one property that a document states and the code does not keep.

| Run | What happens |
|---|---|
| `publisher_stale_sample` | Two threads in `Publish()`: the one that sampled the source first commits last. The obsolete value has the newest revision and is what everybody keeps (`README.md:5`, `README.md:81`) |
| `replication_resync` | A snapshot is taken between a change of the owner and its `Publish()`: it carries the new value under the old revision. If the owner goes back to the published value, there is nothing to publish, and the consumer that resynchronised keeps the value given up, under the publisher's own version, so that another snapshot is rejected too (`wiki/Availability-and-Resynchronisation.md:23`, `wiki/Subscriptions-and-Reliability.md:38`) |
| `tracker_new_epoch` | The last acknowledged revision survives a new epoch, and acknowledgements of the new, smaller revisions are dropped (`StateTransport.hpp:63`, `:105`) |
| `observer_availability_race` | The worker tells the availability of the last notification it got instead of the manager's (`wiki/Extending-State.md:21`) |

They show what an application has to do meanwhile: publish each state from one
thread, publish a change before a snapshot of it is taken, never raise the epoch
over a tracker that lives, report the availability of a device from one context.
`replication` is the composition under these rules: its requests are answered
once the last change has been published (`PromptSpec`), and a restarted origin
has a new tracker.

Smaller disagreements, visible in the modules without a run of their own:

* `CommitSnapshot` gives a fresh value the revision of the last update, so the
  two may differ under one revision until the next `Publish()`, although
  `StateTransport.hpp:19` says that the header uniquely identifies a revision.
  With a tolerance the consumer of a snapshot may be up to twice the tolerance
  away from the owner's value, which is why `InSync` compares what it holds with
  what was published.
* `Replaces` compares versions only while something is pending, so after an
  acknowledgement a late, older update is retained and sent again
  (`StateTransport.hpp:87` says "when ... newer"). A receiver neither accepts nor
  contains that version, so nothing acknowledges it: the notifications of two
  publishing threads, the wrong way round, leave it pending until the next update.
* `CapacityExhausted` of the subscriber registry also happens for the all-zero
  device with every record free (`StateSubscriberRegistry.hpp:155`), and
  `Unsubscribe` keeps the record of a device that wants nothing any more, which
  counts against "subscriber devices retained" (line 132) until `Remove`.
* The notifications of two threads in a registry may arrive the wrong way round,
  so an observer that keeps its own copy by them needs one calling thread.
* A value that the manager got before `Prepare()` is not told by the worker until
  it changes; `ObserverLifecycle` has the application visit it, after `Prepare()`.
  The other order leaves a gap.

## 4. Fairness

`ObserverLifecycle!LifecycleSpec`: weak fairness of the worker (the
`PrecisionThread` runs `Iterate()` every 1000 ms whether or not it was woken)
and of a thread that is already inside a call (nothing in it waits for more than
a mutex section). Nobody is obliged to call the manager, to prepare or to visit.

`StateReplication!PromptSpec`: weak fairness of a call of the publisher that was
begun, of answering a request, of sending what is pending and of the manager's
notifications; strong fairness of receiving the pending frame and of the arrival
of its acknowledgement: its owner sends the retained update again and again, the
consumer acknowledges each copy, and a network that is not cut off for ever lets
one of infinitely many through. The owner is not obliged to publish, nor anybody
to restart or to ask again. The other modules have safety properties only.

## 5. What is proved

Every safety property and action property of a passing run is also a theorem.
Each holds for every value of the constants that the named assumptions of the
modules allow: finite sets of definitions, epochs and revisions in `Nat`, any
capacity, any threads, values and devices. Three theorems need one thread where
the code needs it, those about the composition a counter that does not wrap,
`DistantIdentifiersAreSafe` identifiers that are far enough apart;
what they need stands in them as an `ASSUME` and is discussed below.

**Manager** (`ManagerTypes`, `ManagerProofs`)

* `TypeCorrect`. `Cardinality(devices) <= MaximumDevices` needs that `devices` is
  finite; both are in `ManagerTypeOK`, which is inductive. The lemmas on slots
  and notes are in `ManagerTypes`.
* `NewestSurvives`. `StoredIsNewest` is inductive with `TypeOK`. The core is one
  lemma: an accepted version is newer than the stored one, which by induction is
  not older than any other offered, and "newer" is transitive.
* `ManagerKeepsLatest`. Initial states map to initial states; `Apply` maps to
  `Learn`, or to a stutter when the version was known or is not comparable;
  everything else to a stutter.
* `StoredVersionsAreAnnounced`. `StoredIsAnnounced` is inductive with `TypeOK`:
  the call that fills a slot owes the note, and a note leaves its thread only by
  being announced.
* `DevicesRegisterOnce`. `RegisteredOnce` does not say where in its notes a thread
  has a registration, and so not that announcing it leaves no second one behind.
  `RegInv` does: a thread makes its registration first and never another.

**Observer thread and its life** (`ObserverThreadProofs`)

* `TypeCorrect`, `NoMarkIsDropped`, and for the life `NoMarkIsDroppedEver`.
  `MarksFit` talks of cardinalities and is not inductive. `NamesRecords` is:
  whatever is announced, marked or delivered names a device that has a record,
  and no device has two availability marks. So the marks are a subset of
  `devices \X Definition`, and the sizes follow from the manager's capacity.
* `TransitionsFormAChain`, `AvailabilityArrives`. `ChainInv`: per device, what
  observers were told, what the worker is delivering, what is marked, what a
  thread still owes and what the manager holds are a chain of transitions, each
  beginning where the one before it ended. Both assume `OneThread`: with two
  threads the chain breaks, which is the violation run `observer_availability_race`.
* `DeliveredNeverGoesBack`. `VersionsOK`: what was delivered is not newer than
  the copy the worker holds, nor that than the slot. There is one worker, so the
  copy it delivers was read after everything it delivered before.
* `NothingIsMissed`. `Accounted(d, s)` lists where the value of a slot may be
  after the application prepared and visited: shown, yet to be visited, in a
  thread's marks or in a note whose thread will find the worker prepared, among
  the dirty marks, among the marks being processed, or in the copy being
  delivered. The last case must name the value that will be shown *after* the
  copy is delivered: "a copy is held" is not inductive, because an older copy may
  be delivered after a visit that showed the newer value. Two revisions do not
  tell the two apart, three do.
* `AvailabilityIsKnown`, the same for availability with the chain of links above,
  assuming `OneReporter`: one thread, of any number, reports availability. It is
  needed for the same reason as `OneThread`, and it is how `observer_changes` is set up.

**Tracker and composition** (`ReplicationProofs`)

* `TypeCorrect`, `NeverDropped`, `NotificationsTell` for the tracker alone, by two
  small strengthenings: what is pending was handed over (`Tracked`), and there are
  no notifications before an observer is registered (`Mirrored`).
* `TrackerSteps`: every step of `StateReplication` is a step of the tracker, or
  keeps its variables, or restarts the origin. So `ReplicationTracks` has the
  tracker's theorems in every life of the origin, and `ReplicationTypeCorrect` the
  types of all three components together.
* `SettledIsNewest`, `PendingIsAcknowledgeable` from `Carried`:
  `Counted` (one call at a time is under way, and the counter is at most one
  ahead of what was published), `RetainsNewest` (the tracker retains the newest
  of what it was handed and, if nothing is pending, that was acknowledged),
  `HandedUpTo`, `OnlySent` (network and consumer have of this life only what was
  handed over) and `AcksAreHeld` (what was acknowledged since the consumer
  restarted, it holds or has surpassed).
* `AnnouncedIsOwners` from `FollowsOwner`: a call goes on only while the owner
  stands still, so what it sampled is the owner's value; what was published last
  is close to that and was announced last. That gives `AnnouncedIsCurrent`, the
  absence of drift, for every tolerance.
* `ConsumerEndsInSync` from all of these and `ConsumerFollows`: wherever the
  newest version is carried, its value is close to the published one; with
  nothing pending and nothing asked for, the consumer holds what is retained.

`Carried` is proved for `EagerSpec`, what needs `FollowsOwner` for `PromptSpec`;
the run `replication_resync` shows that without the promptness `SettledInSync`
fails. All assume `NoWrap`: `CommitLimit`, any bound on what is published, is
below the number of revisions (2^64 in the code, where no counter reaches it).
Beyond that the proofs hold for any loss, repetition and order, and for any
number of restarts.

**Publisher** (`PublisherProofs`)

* Every step of every call is one of four kinds (`StepKinds`): it commits an
  update, hands out a snapshot, changes the source, or keeps all that counts.
  Each theorem then has one small strengthening and four cases. `RetiredIsSilent`:
  a registered source bears the number of the last reset. `RevisionsAreUnique`
  and `SnapshotsAreSuperseded`: until it wraps, the counter is the number of
  updates, or one more if a snapshot came first, and the updates' revisions rise
  below it. `OnlyChangesAdvance`: what is remembered is the value of the last
  update unless the source changed since. `NeverZero` needs no such limit: it
  follows from the arithmetic of `RevisionAfter`.

**Registries** (`SubscriptionProofs`, `SubscriberProofs`)

* Subscriptions: `TypeCorrect`, `CountsMembers`, `RegistryImplementsSet`. The
  strengthening is `Distinct`: no two records in use hold the same subscription.
  With it the records in use and the members are in bijection, which gives
  `CountIsExact`, "a free record" for "fewer than `Capacity` members" and "no free
  record" for "exactly `Capacity`", so every call of the array is a call of
  `SubscriptionSet` and a notification is a stutter.
* Subscribers: `TypeCorrect`, `QueriesNeverDisagree`, `TraversalsVisitOnce`,
  `SubscriptionsAreAsAsked`, `RefusesOnlyWhenFull` from `SubInv`: no two records in
  use bear one device, none bears the zero device, the bits of a device's record
  are what was asked for and not taken back, and what a traversal has left to
  visit has no device twice. The order in which a traversal copies the devices
  (`InOrder`) is given by a function that the index determines, not by recursion,
  so it can be reasoned about.

**Protocol** (`ProtocolProofs`)

* `WhatIsSentIsRead`, `PartsAreRefused`, `KindsAreNotConfused`,
  `OnlyANeighbourIsReached`, `DistantIdentifiersAreSafe`, `FramesFit`, for every
  number of values of a byte above eight, every size of payload and every identifier. `ProtocolInv` says that the frame is that of the message, that it
  was encodable, and that what arrived is the frame with at most one byte damaged
  (`Whole`), or another number of bytes that agree with it as far as both go
  (`Partial`). A part keeps its kind and, if it is an update, its size field, and
  is therefore of the wrong size for its decoder (`PartialIsNothing`); a whole
  frame has the size of one kind only (`WholeKeepsTheSize`).
* Frames have no checksum, so a damaged byte can turn the identifier of one
  definition into another's: `README.md:102` and `README.md:107` give `0x1001`
  and `0x1002` to two gyroscopes with values of one type, and if byte 20 of an
  update changes from 1 to 2, `DecodeValue` of the rear one takes the front one's
  value. `Front` and `Rear` of `MCProtocol` are such a pair, and the confusion
  happens in the run. `OnlyANeighbourIsReached` says that nothing else does: the two
  sizes are equal, the identifiers differ in the damaged byte only, and the value
  is the one that was sent. `DistantIdentifiersAreSafe` draws the conclusion for who
  chooses identifiers: with two bytes between those of definitions with values of
  one size, no single damaged byte gives a value to another definition. A damaged
  value, origin, epoch or revision is delivered as it is.

Only model-checked: liveness under fairness (`ChangesAreShown`,
`PendingIsResolved`, `CatchesUp`), which is beyond the prover, as is `ENABLED`,
and the four violation runs. The publisher's and the manager's theorems are about
these components on their own: that their actions inside `StateReplication` are steps of
theirs is plain from its text (each action has one of theirs as a conjunct, or
restarts the device), and only for the tracker a lemma.

## 6. Faulty variants

A property earns its place by what breaks it. These definitions stand before
the one they are a faulty version of and are used by no action; with one of
them in its place TLC finds the property violated.

| Property | Definition | Variant | The bug |
|---|---|---|---|
| `TypeOK` (manager, observer) | `HasRecord` | `ZeroIsADevice`, `NoCapacityCheck` | a guard of `FindOrCreateLocked` is dropped |
| `StoredIsNewest` | `NotNewer` | `RevisionOnly` | epochs are not compared |
| `KeepsLatest` | `NotNewer` | `SameRevisionIsNewer` | `<` for `<=` |
| `DeliveredAdvances` | `NotNewer` | `EpochOnly` | revisions are not compared |
| `StoredIsAnnounced` | `AcceptanceNotes` | `OnlyChangesAreAnnounced` | acceptance announced only if the value changed |
| `RegisteredOnce` | `Creates` | `CreatedFlagAlwaysSet` | the created flag is not reset for existing records |
| `ShownOrOnItsWay` | `RemoteStates` | `ConnectedStates` | a traversal leaves out devices that are not connected |
| `AvailabilityKnown` | `MarkAvailabilityDirty` | `KeepsOnePlaceFree` | the vector counts as full one mark early, and drops the mark |
| `ChangesAreShown` | `MarkStateDirty` | `SkipWhatIsBeingProcessed` | a mark is not made for what the worker is dealing with |
| `MarksFit` | `MaximumDirtyStates` | `OneMarkPerDevice` | definitions forgotten in the bound |
| `AvailabilitySettles`, `TransitionsChain` | `MarkAvailabilityDirty` | `KeepFirstTransition`, `KeepLastTransition` | coalescing keeps one transition whole |
| `TypeOK` (tracker) | `Replaced` | `KeepsTheRevision` | the revision is not taken over |
| `NothingDroppedUnacknowledged` | `Settles` | `AnyRevisionOfTheEpoch` | an older acknowledgement clears |
| `MirrorAgrees` | `AnnouncesAcknowledged` | `EveryAcceptedAck` | acknowledged is announced for older revisions too |
| `SettledMeansNewestAcknowledged` | `Replaced` | `KeepsThePendingFlag` | pending is not set again |
| `AckOfPendingCounts` | `Accepts` | `AcknowledgedInSequence` | only the next revision is accepted |
| `PendingIsResolved` | `Acknowledges` | `OnlyWhatIsNew` | what is already there is not acknowledged |
| `CatchesUp` | `Replaces` | `ComparesWithWhatWasSettled` | a snapshot of the acknowledged revision is not sent again, to a consumer that restarted |
| `SettledInSync` | `NextEpoch` | `SameEpochAgain` | an origin that restarts keeps its epoch |
| `AnnouncedIsCurrent` | `Remembered` | `RemembersEverySample` | the comparison value drifts |
| `TypeOK`, `OneValuePerRevision` (publisher) | `RegisterSource` | `ForgetsTheRevisionOnly`, `ResetsTheWholeSlot` | the revision is reset with the source |
| `NoRedundantRevision` | `IsMeaningfulChange` | `ChangesAtAll` | the deadband is ignored |
| `NothingAfterRetirement` | `StillRegistered` | `AnySourceWillDo` | the recheck does not compare the registration |
| `SnapshotIsSuperseded` | `CommitSnapshot` | `HandsOutTheNextRevision` | the revision of a first snapshot is not kept |
| `NeverRevisionZero` | `RevisionAfter` | `ForgetsToSkipZero` | 0 is not skipped at the wrap |
| `RoundTrip` | `ReadStateHeader` | `ReadsTheEpochAsWide` | a field is read with another width |
| `OnlyWholeFrames` | `DecodesUpdate` | `IgnoresWhatFollows` | the size is a lower bound |
| `KindsStayApart` | `DecodesAcknowledgement` | `AtLeastAnAcknowledgement` | the same |
| `OnlyNeighboursAreConfused` | `DecodesValue` | `AnyTypeOfThatSize` | the type is not compared |
| `FitsTheBuffer` | `CodecEncodes` | `CodecForgetsTheHeader` | the room for the value counts the header |
| `SubscribedAsAsked` (subscribers), `TypeOK` (subscriptions) | `Released` | `ClearsTheFlagOnly` | the record is not reset |
| `CountIsExact` | `Subscribed` | `TakesARecordInAnyCase` | no search for the descriptor |
| `ImplementsSet` | `Find` | `IgnoresTheDevice` | the device is not compared |
| `QueriesAgree`, `VisitedOnce` | `FindOrCreateLocked` | `AlwaysTakesAFreeRecord` | no search for the device |
| `RefusedOnlyWhenFull` | `FindOrCreateLocked` | `TriesTheFirstRecordOnly` | the search for a free record ends early |

## 7. Not modelled

* `StateContract` is resolved by the compiler (its set of definitions is the
  constant `Definition`); `StateSerialization` adapts to another library, and the
  lookup of definitions by name in `StateIntrospection` and the formatting of
  `DeviceIdentifier` are pure functions of strings.
* The observable of each component is created lazily, in the two registries and
  the tracker without a mutex: two threads registering observers at once race.
  The registries here have one observer from the start, the tracker one that
  comes late.
* `RegisterSource()` and `UnregisterSource()` notify observers of the publisher
  after the mutex was released (`StatePublisher.hpp:251`, `:267`). That changes
  nothing the publisher keeps and no property depends on it: there is no step for it.
* The composition calls the publisher from one thread; what two threads do to each
  other there is the subject of `publisher_race` and `publisher_stale_sample`.
* More than one damaged byte in a frame.
* `SetDestination()`: the destination labels notifications and decides nothing.
* What two threads inside one vector may do to each other while
  `ShutdownObserverThread()` clears it is undefined behaviour; `ClearBookkeeping`
  allows that the worker goes on with the old elements or finds none. Starting
  and stopping the worker belongs to the thread library: a worker that is stopped
  takes no step.
* More than one consumer per origin and more than one state: they share nothing
  but mutexes. A revision counter that wraps while receivers hold high revisions
  (they reject what follows until the epoch changes) is not part of `replication`.

## 8. Plan

Done: the manager and the observer thread with its life (most important: what
receivers believe and what applications are told), the tracker, the publisher,
the registries, their composition over a network with restarts, the protocol;
proofs of all their safety properties.

1. Proofs: the steps of `StateReplication` as steps of the publisher and of the
   manager between restarts, so that their theorems carry over as the tracker's do.
2. `StateReplication` as a refinement of `LatestState` for the consumer.
3. `SetDestination`, and observers that are registered by two threads at once.
