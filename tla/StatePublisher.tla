----------------------------- MODULE StatePublisher -----------------------------
(***************************************************************************)
(* StatePublisher<TContract>: gives the values of one local state their    *)
(* revisions.  The states of a contract share nothing but the mutex, so    *)
(* one of them is modelled.                                                *)
(*                                                                         *)
(* The value belongs to an owner outside the publisher.  A registered      *)
(* source reads it; Publish() and Snapshot() pin the source under the      *)
(* mutex, call it without the mutex, and commit its result under the mutex *)
(* if the source is still registered; Publish() then notifies, again       *)
(* without the mutex.  A call that a source or an observer makes back into *)
(* the publisher interleaves like the call of another thread.              *)
(*                                                                         *)
(* Definitions that no action uses are faulty variants of the definition   *)
(* below them; README.md says which property each of them would break.     *)
(***************************************************************************)
EXTENDS Integers, FiniteSets, Sequences

CONSTANTS
    Thread,           \* Threads that call the publisher.
    Value,            \* Values of the owner: integers, so that they have a distance.
    Tolerance,        \* StateComparison: values this close are semantically equal.
    RevisionModulus,  \* 2^w for revisions of w bits.
    CommitLimit,      \* Bound: no Publish() starts after this many updates.
    ResetLimit        \* Bound: how often the source is registered or removed.

ASSUME PublisherAssumption ==
    /\ Value \subseteq Int
    /\ Tolerance \in Nat
    /\ RevisionModulus \in Nat \ {0, 1}
    /\ CommitLimit \in Nat
    /\ ResetLimit \in Nat

VARIABLES
    owner,          \* The authoritative value (outside the publisher).
    due,            \* The owner changed and has not called Publish() since.
    source,         \* StateSourceSlot::Source: a registration, 0 for none.
    lastPublished,  \* StateSourceSlot::LastPublished: at most one value.
    revision,       \* StateSourceSlot::Revision.
    resets,         \* How often the source was registered or removed.
    call,           \* Per thread, the call it is in and how far it has got.
    published,      \* History: the updates committed, in commit order.
    announced,      \* History: the last update observers were told of, if any.
    snapshots       \* History: the last update Snapshot() returned, if any,
                    \* and how many had been published before.

slotVars == <<source, lastPublished, revision>>
historyVars == <<published, announced, snapshots>>
vars == <<owner, due, source, lastPublished, revision, resets, call, published,
          announced, snapshots>>

NoCall == [step |-> "idle"]
Pinned(op, s) == [step |-> "pinned", op |-> op, source |-> s]
Sampled(op, s, v) == [step |-> "sampled", op |-> op, source |-> s, value |-> v]
Committed(u) == [step |-> "committed", update |-> u]

Idle(t) == call[t] = NoCall

Goto(t, c) == call' = [call EXCEPT ![t] = c]

(***************************************************************************)
(* The comparison of a definition: here a deadband.                        *)
(***************************************************************************)
StateValueChanged(v, w) == v - w > Tolerance \/ w - v > Tolerance

ChangesAtAll(v) == \A w \in lastPublished : v # w

IsMeaningfulChange(v) == \A w \in lastPublished : StateValueChanged(w, v)

(***************************************************************************)
(* MakeUpdateLocked: the revision it leaves behind.  0 is skipped, also    *)
(* when the counter wraps.                                                 *)
(***************************************************************************)
ForgetsToSkipZero(advance) ==
    IF advance \/ revision = 0 THEN (revision + 1) % RevisionModulus ELSE revision

RevisionAfter(advance) ==
    LET next == (revision + 1) % RevisionModulus
    IN IF advance \/ revision = 0 THEN IF next = 0 THEN 1 ELSE next ELSE revision

(***************************************************************************)
(* The owner, and the calls of the publisher.                              *)
(***************************************************************************)
ChangeOwner(v) ==
    /\ v # owner
    /\ owner' = v
    /\ due' = TRUE
    /\ UNCHANGED <<slotVars, resets, call, historyVars>>

ResetsTheWholeSlot(t) ==
    /\ Idle(t)
    /\ resets < ResetLimit
    /\ resets' = resets + 1
    /\ source' = resets + 1
    /\ revision' = 0
    /\ lastPublished' = {}
    /\ due' = TRUE
    /\ UNCHANGED <<owner, call, historyVars>>

ForgetsTheRevisionOnly(t) ==
    /\ Idle(t)
    /\ resets < ResetLimit
    /\ resets' = resets + 1
    /\ source' = resets + 1
    /\ revision' = 0
    /\ due' = TRUE
    /\ UNCHANGED <<owner, lastPublished, call, historyVars>>

(* The notifications that a source was registered or unregistered, made    *)
(* after the mutex was released, change nothing the publisher keeps.       *)
RegisterSource(t) ==
    /\ Idle(t)
    /\ resets < ResetLimit
    /\ resets' = resets + 1
    /\ source' = resets + 1
    /\ lastPublished' = {}
    /\ due' = TRUE
    /\ UNCHANGED <<owner, revision, call, historyVars>>

UnregisterSource(t) ==
    /\ Idle(t)
    /\ resets < ResetLimit
    /\ resets' = resets + 1
    /\ source' = 0
    /\ lastPublished' = {}
    /\ UNCHANGED <<owner, due, revision, call, historyVars>>

(* Publish() and Snapshot() find a source to pin, or return.               *)
Pin(t, op) ==
    /\ Idle(t)
    /\ source # 0
    /\ op = "publish" => Len(published) < CommitLimit
    /\ Goto(t, Pinned(op, source))
    /\ due' = (due /\ op # "publish")
    /\ UNCHANGED <<owner, slotVars, resets, historyVars>>

CallSource(t) ==
    /\ call[t].step = "pinned"
    /\ Goto(t, Sampled(call[t].op, call[t].source, owner))
    /\ UNCHANGED <<owner, due, slotVars, resets, historyVars>>

(* Publish(value): the caller reads its value, then makes the call.        *)
PublishValue(t) ==
    /\ Idle(t)
    /\ Len(published) < CommitLimit
    /\ Goto(t, Sampled("direct", 0, owner))
    /\ due' = FALSE
    /\ UNCHANGED <<owner, slotVars, resets, historyVars>>

AnySourceWillDo(t) == call[t].source = 0 \/ source # 0

StillRegistered(t) == call[t].op = "direct" \/ call[t].source = source

(* RememberPublishedLocked: a value too close to the last published one is *)
(* not remembered, or a slow drift would never be published.               *)
RemembersEverySample(v) == {v}

Remembered(v) == IF IsMeaningfulChange(v) THEN {v} ELSE lastPublished

(* Both forms of Publish() under the mutex.                                *)
CommitPublish(t) ==
    /\ call[t].step = "sampled" /\ call[t].op # "snapshot"
    /\ LET v == call[t].value
           u == [revision |-> RevisionAfter(TRUE), value |-> v,
                 source |-> call[t].source, reset |-> resets]
       IN \/ /\ StillRegistered(t) /\ IsMeaningfulChange(v)
             /\ lastPublished' = Remembered(v)
             /\ revision' = u.revision
             /\ published' = Append(published, u)
             /\ Goto(t, Committed(u))
          \/ /\ StillRegistered(t) /\ ~IsMeaningfulChange(v)
             /\ lastPublished' = Remembered(v)
             /\ Goto(t, NoCall)
             /\ UNCHANGED <<revision, published>>
          \/ /\ ~StillRegistered(t)
             /\ Goto(t, NoCall)
             /\ UNCHANGED <<lastPublished, revision, published>>
    /\ UNCHANGED <<owner, due, source, resets, announced, snapshots>>

HandsOutTheNextRevision(t) ==
    /\ call[t].step = "sampled" /\ call[t].op = "snapshot"
    /\ \/ /\ StillRegistered(t)
          /\ snapshots' = {[revision |-> RevisionAfter(FALSE),
                            value |-> call[t].value, after |-> Len(published)]}
       \/ ~StillRegistered(t) /\ UNCHANGED snapshots
    /\ Goto(t, NoCall)
    /\ UNCHANGED <<owner, due, slotVars, resets, published, announced>>

CommitSnapshot(t) ==
    /\ call[t].step = "sampled" /\ call[t].op = "snapshot"
    /\ \/ /\ StillRegistered(t)
          /\ revision' = RevisionAfter(FALSE)
          /\ snapshots' =
                {[revision |-> RevisionAfter(FALSE), value |-> call[t].value,
                  after |-> Len(published)]}
       \/ ~StillRegistered(t) /\ UNCHANGED <<revision, snapshots>>
    /\ Goto(t, NoCall)
    /\ UNCHANGED <<owner, due, source, lastPublished, resets, published, announced>>

Notify(t) ==
    /\ call[t].step = "committed"
    /\ announced' = {call[t].update}
    /\ Goto(t, NoCall)
    /\ UNCHANGED <<owner, due, slotVars, resets, published, snapshots>>

Init ==
    /\ owner \in Value
    /\ due = TRUE
    /\ source = 0
    /\ lastPublished = {}
    /\ revision = 0
    /\ resets = 0
    /\ call = [t \in Thread |-> NoCall]
    /\ published = <<>>
    /\ announced = {} /\ snapshots = {}

SourceCalls(t) ==
    \/ RegisterSource(t)
    \/ UnregisterSource(t)
    \/ Pin(t, "publish") \/ CallSource(t)
    \/ CommitPublish(t)
    \/ Notify(t)

OwnerChanges == \E v \in Value : ChangeOwner(v)

Next ==
    \/ OwnerChanges
    \/ \E t \in Thread :
          SourceCalls(t) \/ PublishValue(t) \/ Pin(t, "snapshot") \/ CommitSnapshot(t)

Spec == Init /\ [][Next]_vars

(* An owner that only ever uses Publish() and its source.                  *)
SourceNext == OwnerChanges \/ \E t \in Thread : SourceCalls(t)

SourceSpec == Init /\ [][SourceNext]_vars

(***************************************************************************)
(* Types.  A value that was published has a revision.                      *)
(***************************************************************************)
Update ==
    [revision : Nat, value : Value, source : Nat, reset : Nat]

TypeOK ==
    /\ owner \in Value
    /\ due \in BOOLEAN
    /\ source \in Nat /\ source <= resets
    /\ lastPublished \subseteq Value
    /\ lastPublished # {} => revision # 0
    /\ revision \in 0 .. RevisionModulus - 1
    /\ resets \in Nat
    /\ DOMAIN call = Thread
    /\ published \in Seq(Update)
    /\ announced \subseteq Update
    /\ snapshots \subseteq [revision : Nat, value : Value, after : Nat]

(***************************************************************************)
(* Properties.                                                             *)
(***************************************************************************)

(* No update has a revision that wrapped: one revision for each, and one   *)
(* for a snapshot that came before all of them.                            *)
NotWrapped == Len(published) + 1 < RevisionModulus

(* As long as the counter has not wrapped, no revision is given to two     *)
(* published values, whatever sources come and go and however the threads' *)
(* calls interleave.                                                       *)
OneValuePerRevision ==
    NotWrapped => \A i, j \in DOMAIN published :
        published[i].revision = published[j].revision => i = j

(* "Only semantic changes advance revisions": two updates that follow each *)
(* other with no change of the source between them differ by more than the *)
(* definition's tolerance.                                                 *)
NoRedundantRevision ==
    \A i \in DOMAIN published \ {1} :
        published[i - 1].reset = published[i].reset =>
            StateValueChanged(published[i - 1].value, published[i].value)

(* A value that a source delivered is never published once the source was  *)
(* removed or replaced, not even when the source was called before and     *)
(* another one has been registered since.  (A source bears the number of   *)
(* the reset that registered it.)                                          *)
NothingAfterRetirement ==
    \A i \in DOMAIN published :
        published[i].source # 0 => published[i].source = published[i].reset

(* Revision 0, which receivers reject, is never published or handed out,   *)
(* also when the counter wraps.                                            *)
NeverRevisionZero ==
    /\ \A i \in DOMAIN published : published[i].revision # 0
    /\ \A x \in snapshots : x.revision # 0

(* No call is in progress and the owner published after its last change.   *)
Quiescent == ~due /\ \A t \in Thread : Idle(t)

IsCurrent(u) == ~StateValueChanged(u.value, owner)

(* Once the owner has called Publish() after its last change, with fewer   *)
(* updates than the bound, the observers' last update is the owner's value *)
(* within the definition's tolerance: no drift, nothing left behind.       *)
AnnouncedIsCurrent ==
    Quiescent /\ source # 0 => \E u \in announced : IsCurrent(u)

(* The same of the last update committed: "the latest authoritative value  *)
(* matters".                                                               *)
CommittedIsCurrent ==
    Quiescent /\ source # 0 => published # <<>> /\ IsCurrent(published[Len(published)])

(* As long as the counter has not wrapped, what is published after a       *)
(* snapshot was taken has a higher revision, so receivers that hold the    *)
(* snapshot accept it; also when the snapshot came before all updates and  *)
(* had to have a revision of its own.                                      *)
SnapshotIsSuperseded ==
    NotWrapped => \A x \in snapshots : \A i \in DOMAIN published :
        i > x.after => published[i].revision > x.revision
================================================================================
