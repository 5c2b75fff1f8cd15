----------------------------- MODULE PublisherProofs -----------------------------
(***************************************************************************)
(* What the StatePublisher promises for any number of threads, values,     *)
(* tolerance and width of the revisions: every step of every call is one   *)
(* of four kinds, and each promise is kept by all four.                    *)
(***************************************************************************)
EXTENDS StatePublisher, TLAPS

(* The calls that threads can be in.                                       *)
PinnedCalls == [step : {"pinned"}, op : {"publish", "snapshot"}, source : Nat]

SampledCalls ==
    [step : {"sampled"}, op : {"publish", "snapshot", "direct"}, source : Nat,
     value : Value]

CommittedCalls == [step : {"committed"}, update : Update]

CallsOK ==
    /\ call \in [Thread -> {NoCall} \cup PinnedCalls \cup SampledCalls \cup CommittedCalls]
    /\ \A t \in Thread :
          call[t].step = "sampled" /\ call[t].op = "direct" => call[t].source = 0

TypeInv == TypeOK /\ CallsOK

(***************************************************************************)
(* The kinds of steps.                                                     *)
(***************************************************************************)
Commits(v, s) ==
    /\ IsMeaningfulChange(v)
    /\ published' = Append(published, [revision |-> RevisionAfter(TRUE), value |-> v,
                                       source |-> s, reset |-> resets])
    /\ revision' = RevisionAfter(TRUE)
    /\ lastPublished' = {v}
    /\ UNCHANGED <<source, resets, snapshots>>

HandsOut(v) ==
    /\ revision' = RevisionAfter(FALSE)
    /\ snapshots' = {[revision |-> RevisionAfter(FALSE), value |-> v,
                      after |-> Len(published)]}
    /\ UNCHANGED <<source, lastPublished, resets, published>>

Resets ==
    /\ resets' = resets + 1
    /\ source' \in {0, resets + 1}
    /\ lastPublished' = {}
    /\ UNCHANGED <<revision, published, snapshots>>

KeepsAll == UNCHANGED <<slotVars, resets, published, snapshots>>

LEMMA RevisionAfterType ==
    ASSUME revision \in 0 .. RevisionModulus - 1, NEW advance \in BOOLEAN
    PROVE  /\ RevisionAfter(advance) \in 0 .. RevisionModulus - 1
           /\ RevisionAfter(advance) \in Nat
           /\ RevisionAfter(advance) # 0
           /\ revision + 1 < RevisionModulus =>
                 RevisionAfter(advance) = IF advance \/ revision = 0
                                          THEN revision + 1 ELSE revision
<1>1. RevisionModulus \in Nat /\ RevisionModulus > 1
  BY PublisherAssumption
<1>2. /\ (revision + 1) % RevisionModulus \in 0 .. RevisionModulus - 1
      /\ revision + 1 < RevisionModulus => (revision + 1) % RevisionModulus = revision + 1
  BY <1>1
<1> DEFINE next == (revision + 1) % RevisionModulus
<1>3. RevisionAfter(advance) =
        IF advance \/ revision = 0 THEN IF next = 0 THEN 1 ELSE next ELSE revision
  BY DEF RevisionAfter
<1>4. /\ next \in 0 .. RevisionModulus - 1
      /\ revision + 1 < RevisionModulus => next = revision + 1
  BY <1>2
<1> HIDE DEF next
<1>5. QED
  BY <1>1, <1>3, <1>4

(***************************************************************************)
(* Types.                                                                  *)
(***************************************************************************)
LEMMA TypeInit == Init => TypeInv
<1> SUFFICES ASSUME Init PROVE TypeInv
  OBVIOUS
<1>1. TypeOK
  BY PublisherAssumption DEF Init, TypeOK
<1>2. CallsOK
  BY DEF Init, CallsOK, NoCall
<1>3. QED
  BY <1>1, <1>2 DEF TypeInv

(* Thread t goes on to another call or step.                               *)
LEMMA CallsGoOn ==
    ASSUME CallsOK, NEW t \in Thread,
           NEW c \in {NoCall} \cup PinnedCalls \cup SampledCalls \cup CommittedCalls,
           c.step = "sampled" /\ c.op = "direct" => c.source = 0,
           Goto(t, c)
    PROVE  CallsOK' /\ DOMAIN call' = Thread
BY DEF CallsOK, Goto

LEMMA CallKinds ==
    ASSUME CallsOK, NEW t \in Thread
    PROVE  /\ call[t].step = "pinned" => call[t] \in PinnedCalls
           /\ call[t].step = "sampled" => call[t] \in SampledCalls
           /\ call[t].step = "committed" => call[t] \in CommittedCalls
BY DEF CallsOK, NoCall, PinnedCalls, SampledCalls, CommittedCalls

LEMMA NoCallIsACall ==
    /\ NoCall \in {NoCall} \cup PinnedCalls \cup SampledCalls \cup CommittedCalls
    /\ NoCall.step # "sampled"
BY DEF NoCall

LEMMA CommitStep ==
    ASSUME TypeInv, NEW t \in Thread, CommitPublish(t)
    PROVE  /\ TypeInv'
           /\ KeepsAll \/ \E v \in Value, s \in {0, source} : Commits(v, s)
<1> DEFINE v == call[t].value
           u == [revision |-> RevisionAfter(TRUE), value |-> v,
                 source |-> call[t].source, reset |-> resets]
<1>1. call[t] \in SampledCalls
  BY CallKinds DEF TypeInv, CommitPublish
<1>2. v \in Value /\ call[t].source \in Nat
  BY <1>1 DEF SampledCalls
<1>3. RevisionAfter(TRUE) \in 0 .. RevisionModulus - 1 /\ RevisionAfter(TRUE) # 0
  BY RevisionAfterType DEF TypeInv, TypeOK
<1>4. u \in Update
  <2>1. resets \in Nat
    BY DEF TypeInv, TypeOK
  <2>2. RevisionAfter(TRUE) \in Nat
    BY RevisionAfterType DEF TypeInv, TypeOK
  <2>3. QED
    BY <1>2, <2>1, <2>2 DEF Update
<1>5. UNCHANGED <<owner, due, source, resets, announced, snapshots>>
  BY DEF CommitPublish
<1>6. CASE StillRegistered(t) /\ IsMeaningfulChange(v)
  <2>1. /\ lastPublished' = {v} /\ revision' = u.revision
        /\ published' = Append(published, u) /\ Goto(t, Committed(u))
    BY <1>6 DEF CommitPublish, Remembered
  <2>2. Committed(u) \in CommittedCalls /\ Committed(u).step # "sampled"
    BY <1>4 DEF Committed, CommittedCalls
  <2>3. CallsOK' /\ DOMAIN call' = Thread
    BY <2>1, <2>2, CallsGoOn DEF TypeInv
  <2>4. TypeOK'
    <3>1. published' \in Seq(Update)
      BY <1>4, <2>1 DEF TypeInv, TypeOK
    <3>2. lastPublished' \subseteq Value
      BY <1>2, <2>1
    <3>3. revision' \in 0 .. RevisionModulus - 1 /\ revision' # 0
      BY <1>3, <2>1
    <3>4. QED
      BY <1>5, <2>3, <3>1, <3>2, <3>3 DEF TypeInv, TypeOK
  <2>5. call[t].source \in {0, source}
    BY <1>1, <1>6 DEF StillRegistered, TypeInv, CallsOK, SampledCalls
  <2>6. Commits(v, call[t].source)
    BY <1>5, <1>6, <2>1 DEF Commits
  <2>7. QED
    BY <1>2, <2>3, <2>4, <2>5, <2>6 DEF TypeInv
<1>7. CASE ~(StillRegistered(t) /\ IsMeaningfulChange(v))
  <2>1. UNCHANGED <<lastPublished, revision, published>> /\ Goto(t, NoCall)
    BY <1>7 DEF CommitPublish, Remembered
  <2>2. CallsOK' /\ DOMAIN call' = Thread
    BY <2>1, CallsGoOn, NoCallIsACall DEF TypeInv
  <2>3. TypeOK'
    BY <1>5, <2>1, <2>2 DEF TypeInv, TypeOK
  <2>4. KeepsAll
    BY <1>5, <2>1 DEF KeepsAll, slotVars
  <2>5. QED
    BY <2>2, <2>3, <2>4 DEF TypeInv
<1>8. QED
  BY <1>6, <1>7

LEMMA SnapshotStep ==
    ASSUME TypeInv, NEW t \in Thread, CommitSnapshot(t)
    PROVE  TypeInv' /\ (KeepsAll \/ \E v \in Value : HandsOut(v))
<1>1. call[t] \in SampledCalls
  BY CallKinds DEF TypeInv, CommitSnapshot
<1>2. call[t].value \in Value
  BY <1>1 DEF SampledCalls
<1>3. RevisionAfter(FALSE) \in 0 .. RevisionModulus - 1 /\ RevisionAfter(FALSE) # 0
  BY RevisionAfterType DEF TypeInv, TypeOK
<1>4. /\ Goto(t, NoCall)
      /\ UNCHANGED <<owner, due, source, lastPublished, resets, published, announced>>
  BY DEF CommitSnapshot
<1>5. CallsOK' /\ DOMAIN call' = Thread
  BY <1>4, CallsGoOn, NoCallIsACall DEF TypeInv
<1>6. CASE StillRegistered(t)
  <2>1. HandsOut(call[t].value)
    BY <1>4, <1>6 DEF CommitSnapshot, HandsOut
  <2>2. Len(published) \in Nat /\ RevisionModulus \in Nat
    BY PublisherAssumption DEF TypeInv, TypeOK
  <2>3. revision' \in 0 .. RevisionModulus - 1 /\ revision' # 0
    BY <1>3, <2>1 DEF HandsOut
  <2>4. snapshots' \subseteq [revision : Nat, value : Value, after : Nat]
    <3> DEFINE r == RevisionAfter(FALSE)
               n == Len(published)
    <3>1. r \in Nat
      BY RevisionAfterType DEF TypeInv, TypeOK
    <3>2. snapshots' = {[revision |-> r, value |-> call[t].value, after |-> n]}
      BY <2>1 DEF HandsOut
    <3> HIDE DEF r
    <3>3. QED
      BY <1>2, <2>2, <3>1, <3>2
  <2>5. TypeOK'
    BY <1>4, <1>5, <2>3, <2>4 DEF TypeInv, TypeOK
  <2>6. QED
    BY <1>2, <1>5, <2>1, <2>5 DEF TypeInv
<1>7. CASE ~StillRegistered(t)
  <2>1. UNCHANGED <<revision, snapshots>>
    BY <1>7 DEF CommitSnapshot
  <2>2. TypeOK'
    BY <1>4, <1>5, <2>1 DEF TypeInv, TypeOK
  <2>3. QED
    BY <1>4, <1>5, <2>1, <2>2 DEF TypeInv, KeepsAll, slotVars
<1>8. QED
  BY <1>6, <1>7

(* Registering and removing a source.                                      *)
LEMMA ResetStep ==
    ASSUME TypeInv, NEW t \in Thread, RegisterSource(t) \/ UnregisterSource(t)
    PROVE  TypeInv' /\ Resets
<1>1. Resets
  BY DEF RegisterSource, UnregisterSource, Resets, historyVars
<1>2. UNCHANGED <<owner, call, announced>> /\ due' \in BOOLEAN
  BY DEF RegisterSource, UnregisterSource, historyVars, TypeInv, TypeOK
<1>3. TypeOK'
  BY <1>1, <1>2 DEF Resets, TypeInv, TypeOK
<1>4. CallsOK'
  BY <1>2 DEF CallsOK, TypeInv
<1>5. QED
  BY <1>1, <1>3, <1>4 DEF TypeInv

(* The steps of a call before and after its commit.                        *)
LEMMA CallStep ==
    ASSUME TypeInv, NEW t \in Thread,
           \/ Pin(t, "publish") \/ Pin(t, "snapshot") \/ CallSource(t)
           \/ PublishValue(t) \/ Notify(t)
    PROVE  TypeInv' /\ KeepsAll
<1>1. KeepsAll /\ owner' = owner
  BY DEF Pin, CallSource, PublishValue, Notify, KeepsAll, historyVars, slotVars
<1>2. ASSUME NEW op \in {"publish", "snapshot"}, Pin(t, op)
      PROVE  CallsOK' /\ DOMAIN call' = Thread /\ due' \in BOOLEAN /\ announced' = announced
  <2>1. Pinned(op, source) \in PinnedCalls /\ Pinned(op, source).step # "sampled"
    BY DEF Pinned, PinnedCalls, TypeInv, TypeOK
  <2>2. QED
    BY <1>2, <2>1, CallsGoOn DEF Pin, TypeInv, TypeOK, historyVars
<1>3. ASSUME CallSource(t)
      PROVE  CallsOK' /\ DOMAIN call' = Thread /\ due' = due /\ announced' = announced
  <2>1. call[t] \in PinnedCalls
    BY <1>3, CallKinds DEF CallSource, TypeInv
  <2>2. /\ Sampled(call[t].op, call[t].source, owner) \in SampledCalls
        /\ Sampled(call[t].op, call[t].source, owner).op # "direct"
    BY <2>1 DEF PinnedCalls, Sampled, SampledCalls, TypeInv, TypeOK
  <2>3. QED
    BY <1>3, <2>2, CallsGoOn DEF CallSource, TypeInv, historyVars
<1>4. ASSUME PublishValue(t)
      PROVE  CallsOK' /\ DOMAIN call' = Thread /\ due' = FALSE /\ announced' = announced
  <2>1. /\ Sampled("direct", 0, owner) \in SampledCalls
        /\ Sampled("direct", 0, owner).source = 0
    BY DEF Sampled, SampledCalls, TypeInv, TypeOK
  <2>2. QED
    BY <1>4, <2>1, CallsGoOn DEF PublishValue, TypeInv, historyVars
<1>5. ASSUME Notify(t)
      PROVE  CallsOK' /\ DOMAIN call' = Thread /\ due' = due /\ announced' \subseteq Update
  <2>1. call[t] \in CommittedCalls
    BY <1>5, CallKinds DEF Notify, TypeInv
  <2>2. QED
    BY <1>5, <2>1, CallsGoOn, NoCallIsACall DEF Notify, CommittedCalls, TypeInv
<1>6. /\ CallsOK' /\ DOMAIN call' = Thread /\ due' \in BOOLEAN /\ announced' \subseteq Update
  BY <1>2, <1>3, <1>4, <1>5 DEF TypeInv, TypeOK
<1>7. TypeOK'
  BY <1>1, <1>6 DEF KeepsAll, slotVars, TypeInv, TypeOK
<1>8. QED
  BY <1>1, <1>6, <1>7 DEF TypeInv

LEMMA StepKinds ==
    ASSUME TypeInv, [Next]_vars
    PROVE  /\ TypeInv'
           /\ \/ KeepsAll
              \/ \E v \in Value, s \in {0, source} : Commits(v, s)
              \/ \E v \in Value : HandsOut(v)
              \/ Resets
<1>1. CASE OwnerChanges
  <2>1. PICK v \in Value : ChangeOwner(v)
    BY <1>1 DEF OwnerChanges
  <2>2. KeepsAll /\ UNCHANGED <<call, announced>> /\ owner' \in Value /\ due' = TRUE
    BY <2>1 DEF ChangeOwner, KeepsAll, slotVars, historyVars
  <2>3. TypeOK'
    BY <2>2 DEF KeepsAll, slotVars, TypeInv, TypeOK
  <2>4. CallsOK'
    BY <2>2 DEF TypeInv, CallsOK
  <2>5. QED
    BY <2>2, <2>3, <2>4 DEF TypeInv
<1>2. ASSUME NEW t \in Thread,
             SourceCalls(t) \/ PublishValue(t) \/ Pin(t, "snapshot") \/ CommitSnapshot(t)
      PROVE  /\ TypeInv'
             /\ \/ KeepsAll
                \/ \E v \in Value, s \in {0, source} : Commits(v, s)
                \/ \E v \in Value : HandsOut(v)
                \/ Resets
  BY <1>2, CommitStep, SnapshotStep, ResetStep, CallStep DEF SourceCalls
<1>3. CASE UNCHANGED vars
  <2>1. KeepsAll /\ UNCHANGED <<call, announced, owner, due>>
    BY <1>3 DEF vars, KeepsAll, slotVars
  <2>2. TypeOK'
    BY <2>1 DEF KeepsAll, slotVars, TypeInv, TypeOK
  <2>3. CallsOK'
    BY <2>1 DEF TypeInv, CallsOK
  <2>4. QED
    BY <2>1, <2>2, <2>3 DEF TypeInv
<1>4. QED
  BY <1>1, <1>2, <1>3 DEF Next

THEOREM TypeInvariant == Spec => []TypeInv
<1>1. TypeInv /\ [Next]_vars => TypeInv'
  BY StepKinds
<1>2. QED
  BY TypeInit, <1>1, PTL DEF Spec

(* What is registered, remembered, counted and published has its type: a   *)
(* revision always fits its width, and a value that was published has one. *)
THEOREM TypeCorrect == Spec => []TypeOK
<1>1. TypeInv => TypeOK
  BY DEF TypeInv
<1>2. QED
  BY TypeInvariant, <1>1, PTL

(***************************************************************************)
(* Retirement.  A registered source bears the number of the last reset, so *)
(* what it delivers is published before the next one.                      *)
(***************************************************************************)
SourceIsLatest == source # 0 => source = resets

RetiredInv == TypeInv /\ SourceIsLatest /\ NothingAfterRetirement

(* What an update appended to what is published.                           *)
LEMMA AppendOne ==
    ASSUME NEW S, NEW s \in Seq(S), NEW e \in S
    PROVE  /\ Len(s) \in Nat /\ Len(Append(s, e)) = Len(s) + 1
           /\ DOMAIN Append(s, e) = 1 .. Len(s) + 1
           /\ DOMAIN s = 1 .. Len(s)
           /\ \A i \in 1 .. Len(s) : Append(s, e)[i] = s[i] /\ s[i] \in S
           /\ Append(s, e)[Len(s) + 1] = e
OBVIOUS

(* Committing appends one update, of the value, with the next revision.    *)
LEMMA CommitAppends ==
    ASSUME TypeInv, NEW v \in Value, NEW s \in {0, source}, Commits(v, s)
    PROVE  LET n == Len(published)
           IN /\ n \in Nat /\ Len(published') = n + 1
              /\ DOMAIN published = 1 .. n /\ DOMAIN published' = 1 .. n + 1
              /\ \A i \in 1 .. n : published'[i] = published[i] /\ published[i] \in Update
              /\ published'[n + 1].revision = revision'
              /\ published'[n + 1].value = v
              /\ published'[n + 1].source = s
              /\ published'[n + 1].reset = resets
<1> DEFINE r == RevisionAfter(TRUE)
           u == [revision |-> r, value |-> v, source |-> s, reset |-> resets]
<1>1. r \in Nat
  BY RevisionAfterType DEF TypeInv, TypeOK
<1>2. resets \in Nat /\ s \in Nat
  BY DEF TypeInv, TypeOK
<1> HIDE DEF r
<1>3. u \in Update
  BY <1>1, <1>2 DEF Update
<1>4. published' = Append(published, u) /\ revision' = r
  BY DEF Commits, r
<1>5. published \in Seq(Update)
  BY DEF TypeInv, TypeOK
<1>6. u.revision = r /\ u.value = v /\ u.source = s /\ u.reset = resets
  OBVIOUS
<1> HIDE DEF u
<1>7. QED
  BY <1>3, <1>4, <1>5, <1>6, AppendOne

(* A snapshot has the revision that it leaves behind.                      *)
LEMMA HandsOutOne ==
    ASSUME TypeInv, NEW v \in Value, HandsOut(v)
    PROVE  \A x \in snapshots' : x.revision = revision' /\ x.after = Len(published')
<1> DEFINE r == RevisionAfter(FALSE)
<1>1. /\ revision' = r /\ published' = published
      /\ snapshots' = {[revision |-> r, value |-> v, after |-> Len(published)]}
  BY DEF HandsOut
<1> HIDE DEF r
<1>2. QED
  BY <1>1

LEMMA RetiredStep == RetiredInv /\ [Next]_vars => RetiredInv'
<1> SUFFICES ASSUME RetiredInv, [Next]_vars PROVE RetiredInv'
  OBVIOUS
<1>1. TypeInv /\ TypeInv'
  BY StepKinds DEF RetiredInv
<1>2. CASE KeepsAll
  BY <1>1, <1>2 DEF KeepsAll, slotVars, RetiredInv, SourceIsLatest, NothingAfterRetirement
<1>3. ASSUME NEW v \in Value, NEW s \in {0, source}, Commits(v, s) PROVE RetiredInv'
  <2>1. SourceIsLatest'
    BY <1>3 DEF Commits, RetiredInv, SourceIsLatest
  <2>2. s # 0 => s = resets
    BY DEF RetiredInv, SourceIsLatest
  <2>3. NothingAfterRetirement'
    <3> SUFFICES ASSUME NEW i \in DOMAIN published', published'[i].source # 0
                 PROVE  published'[i].source = published'[i].reset
      BY DEF NothingAfterRetirement
    <3>1. CASE i = Len(published) + 1
      BY <1>1, <1>3, <2>2, <3>1, CommitAppends
    <3>2. CASE i # Len(published) + 1
      <4>1. i \in DOMAIN published /\ published'[i] = published[i]
        BY <1>1, <1>3, <3>2, CommitAppends
      <4>2. QED
        BY <4>1 DEF RetiredInv, NothingAfterRetirement
    <3>3. QED
      BY <3>1, <3>2
  <2>4. QED
    BY <1>1, <2>1, <2>3 DEF RetiredInv
<1>4. ASSUME NEW v \in Value, HandsOut(v) PROVE RetiredInv'
  BY <1>1, <1>4 DEF HandsOut, RetiredInv, SourceIsLatest, NothingAfterRetirement
<1>5. CASE Resets
  BY <1>1, <1>5 DEF Resets, RetiredInv, SourceIsLatest, NothingAfterRetirement
<1>6. QED
  BY <1>2, <1>3, <1>4, <1>5, StepKinds DEF RetiredInv

(* Nothing that a source delivered is published once that source was       *)
(* removed or replaced, however long ago it was called.                    *)
THEOREM RetiredIsSilent == Spec => []NothingAfterRetirement
<1>1. Init => RetiredInv
  BY TypeInit DEF Init, RetiredInv, SourceIsLatest, NothingAfterRetirement
<1>2. RetiredInv => NothingAfterRetirement
  BY DEF RetiredInv
<1>3. QED
  BY <1>1, <1>2, RetiredStep, PTL DEF Spec

(***************************************************************************)
(* Revisions.                                                              *)
(***************************************************************************)
NeverZeroInv == TypeInv /\ NeverRevisionZero

LEMMA NeverZeroStep == NeverZeroInv /\ [Next]_vars => NeverZeroInv'
<1> SUFFICES ASSUME NeverZeroInv, [Next]_vars PROVE NeverZeroInv'
  OBVIOUS
<1>1. TypeInv /\ TypeInv'
  BY StepKinds DEF NeverZeroInv
<1>2. RevisionAfter(TRUE) # 0 /\ RevisionAfter(FALSE) # 0
  BY <1>1, RevisionAfterType DEF TypeInv, TypeOK
<1>3. CASE KeepsAll
  BY <1>1, <1>3 DEF KeepsAll, slotVars, NeverZeroInv, NeverRevisionZero
<1>4. ASSUME NEW v \in Value, NEW s \in {0, source}, Commits(v, s) PROVE NeverZeroInv'
  <2>1. revision' # 0 /\ snapshots' = snapshots
    BY <1>2, <1>4 DEF Commits
  <2>2. \A i \in DOMAIN published' : published'[i].revision # 0
    <3> SUFFICES ASSUME NEW i \in DOMAIN published' PROVE published'[i].revision # 0
      OBVIOUS
    <3>1. CASE i = Len(published) + 1
      BY <1>1, <1>4, <2>1, <3>1, CommitAppends
    <3>2. CASE i # Len(published) + 1
      <4>1. i \in DOMAIN published /\ published'[i] = published[i]
        BY <1>1, <1>4, <3>2, CommitAppends
      <4>2. QED
        BY <4>1 DEF NeverZeroInv, NeverRevisionZero
    <3>3. QED
      BY <3>1, <3>2
  <2>3. QED
    BY <1>1, <2>1, <2>2 DEF NeverZeroInv, NeverRevisionZero
<1>5. ASSUME NEW v \in Value, HandsOut(v) PROVE NeverZeroInv'
  <2>1. \A x \in snapshots' : x.revision # 0
    <3>1. revision' # 0
      BY <1>2, <1>5 DEF HandsOut
    <3>2. QED
      BY <1>1, <1>5, <3>1, HandsOutOne
  <2>2. QED
    BY <1>1, <1>5, <2>1 DEF HandsOut, NeverZeroInv, NeverRevisionZero
<1>6. CASE Resets
  BY <1>1, <1>6 DEF Resets, NeverZeroInv, NeverRevisionZero
<1>7. QED
  BY <1>3, <1>4, <1>5, <1>6, StepKinds DEF NeverZeroInv

(* No update and no snapshot has revision 0, which every receiver rejects, *)
(* however often the counter wraps.                                        *)
THEOREM NeverZero == Spec => []NeverRevisionZero
<1>1. Init => NeverZeroInv
  BY TypeInit DEF Init, NeverZeroInv, NeverRevisionZero
<1>2. NeverZeroInv => NeverRevisionZero
  BY DEF NeverZeroInv
<1>3. QED
  BY <1>1, <1>2, NeverZeroStep, PTL DEF Spec

(* As long as the counter has not wrapped, it is ahead of the number of    *)
(* updates by at most the one revision of a snapshot before all of them,   *)
(* and what is published has the revisions below it in rising order.       *)
Counted == revision \in {Len(published), Len(published) + 1}

Rising ==
    /\ \A i \in DOMAIN published : published[i].revision <= revision
    /\ \A i, j \in DOMAIN published :
          i < j => published[i].revision < published[j].revision

SnapshotsCounted ==
    \A x \in snapshots : x.revision <= revision /\ x.after <= Len(published)

RevisionInv ==
    /\ TypeInv
    /\ NotWrapped => Counted /\ Rising /\ SnapshotsCounted /\ SnapshotIsSuperseded

LEMMA RevisionInvInit == Init => RevisionInv
<1> SUFFICES ASSUME Init PROVE RevisionInv
  OBVIOUS
<1>1. revision = 0 /\ Len(published) = 0 /\ DOMAIN published = {} /\ snapshots = {}
  BY DEF Init
<1>2. QED
  BY <1>1, TypeInit
     DEF RevisionInv, Counted, Rising, SnapshotsCounted, SnapshotIsSuperseded

(* A commit counts on: the new update is above all others and above what   *)
(* was handed out.                                                         *)
LEMMA RevisionInvCommit ==
    ASSUME RevisionInv, TypeInv', NEW v \in Value, NEW s \in {0, source}, Commits(v, s)
    PROVE  RevisionInv'
<1> DEFINE n == Len(published)
<1>1. TypeInv
  BY DEF RevisionInv
<1>2. SUFFICES ASSUME NotWrapped'
               PROVE  (Counted /\ Rising /\ SnapshotsCounted /\ SnapshotIsSuperseded)'
  BY DEF RevisionInv
<1>3. /\ n \in Nat /\ Len(published') = n + 1
      /\ DOMAIN published = 1 .. n /\ DOMAIN published' = 1 .. n + 1
      /\ \A i \in 1 .. n : published'[i] = published[i] /\ published[i] \in Update
      /\ published'[n + 1].revision = revision'
  BY <1>1, CommitAppends
<1>4. RevisionModulus \in Nat /\ revision \in Nat
  BY <1>1, PublisherAssumption DEF TypeInv, TypeOK
<1> HIDE DEF n
<1>5. NotWrapped /\ n + 2 < RevisionModulus
  <2>1. n + 1 + 1 < RevisionModulus
    BY <1>2, <1>3 DEF NotWrapped
  <2>2. QED
    BY <1>3, <1>4, <2>1 DEF NotWrapped, n
<1>6. revision \in {n, n + 1} /\ Rising /\ SnapshotsCounted /\ SnapshotIsSuperseded
  BY <1>5 DEF RevisionInv, Counted, n
<1>7. revision' = revision + 1
  <2>1. revision + 1 < RevisionModulus
    BY <1>3, <1>4, <1>5, <1>6
  <2>2. revision' = RevisionAfter(TRUE)
    BY DEF Commits
  <2>3. QED
    BY <1>1, <2>1, <2>2, RevisionAfterType DEF TypeInv, TypeOK
<1>8. \A i \in 1 .. n : published[i].revision \in Nat
  BY <1>3 DEF Update
<1>9. snapshots' = snapshots /\ \A x \in snapshots : x.revision \in Nat /\ x.after \in Nat
  BY <1>1 DEF Commits, TypeInv, TypeOK
<1>10. Counted'
  BY <1>3, <1>6, <1>7 DEF Counted
<1>11. Rising'
  <2>1. \A i \in 1 .. n : published'[i].revision <= revision
    BY <1>3, <1>6 DEF Rising
  <2>2. \A i, j \in 1 .. n : i < j => published'[i].revision < published'[j].revision
    BY <1>3, <1>6 DEF Rising
  <2>3. \A i \in 1 .. n : published'[i].revision \in Nat
    BY <1>3, <1>8
  <2>4. \A i \in 1 .. n + 1 : published'[i].revision <= revision'
    BY <1>3, <1>4, <1>7, <2>1, <2>3
  <2>5. ASSUME NEW i \in 1 .. n + 1, NEW j \in 1 .. n + 1, i < j
        PROVE  published'[i].revision < published'[j].revision
    <3>1. i \in 1 .. n
      BY <1>3, <2>5
    <3>2. CASE j = n + 1
      BY <1>3, <1>4, <1>7, <2>1, <2>3, <3>1, <3>2
    <3>3. CASE j # n + 1
      BY <1>3, <2>2, <2>5, <3>1, <3>3
    <3>4. QED
      BY <3>2, <3>3
  <2>6. QED
    BY <1>3, <2>4, <2>5 DEF Rising
<1>12. SnapshotsCounted'
  <2>1. ASSUME NEW x \in snapshots PROVE x.revision <= revision' /\ x.after <= n + 1
    <3>1. x.revision <= revision /\ x.after <= n
      BY <1>6 DEF SnapshotsCounted, n
    <3>2. QED
      BY <1>3, <1>4, <1>7, <1>9, <3>1
  <2>2. QED
    BY <1>3, <1>9, <2>1 DEF SnapshotsCounted
<1>13. SnapshotIsSuperseded'
  <2>1. ASSUME NEW x \in snapshots, NEW i \in 1 .. n + 1, i > x.after
        PROVE  published'[i].revision > x.revision
    <3>1. CASE i = n + 1
      <4>1. x.revision <= revision
        BY <1>6 DEF SnapshotsCounted
      <4>2. QED
        BY <1>3, <1>4, <1>7, <1>9, <3>1, <4>1
    <3>2. CASE i # n + 1
      <4>1. i \in 1 .. n /\ published'[i] = published[i]
        BY <1>3, <3>2
      <4>2. QED
        BY <1>3, <1>5, <1>6, <2>1, <4>1 DEF SnapshotIsSuperseded
    <3>3. QED
      BY <3>1, <3>2
  <2>2. QED
    BY <1>3, <1>9, <2>1 DEF SnapshotIsSuperseded
<1>14. QED
  BY <1>10, <1>11, <1>12, <1>13

LEMMA RevisionInvHandsOut ==
    ASSUME RevisionInv, TypeInv', NEW v \in Value, HandsOut(v)
    PROVE  RevisionInv'
<1> DEFINE n == Len(published)
<1>1. TypeInv
  BY DEF RevisionInv
<1>2. published' = published /\ revision' = RevisionAfter(FALSE)
  BY DEF HandsOut
<1>3. SUFFICES ASSUME NotWrapped
               PROVE  (Counted /\ Rising /\ SnapshotsCounted /\ SnapshotIsSuperseded)'
  BY <1>2 DEF RevisionInv, NotWrapped
<1>4. Counted /\ Rising
  BY <1>3 DEF RevisionInv
<1>5. /\ RevisionModulus \in Nat /\ 1 < RevisionModulus /\ revision \in Nat
      /\ n \in Nat /\ DOMAIN published = 1 .. n
  BY <1>1, PublisherAssumption DEF TypeInv, TypeOK
<1>6. revision' = IF revision = 0 THEN 1 ELSE revision
  <2> DEFINE r == RevisionAfter(FALSE)
  <2>1. revision = 0 => r = 1
    <3>1. revision + 1 < RevisionModulus =>
            r = IF FALSE \/ revision = 0 THEN revision + 1 ELSE revision
      BY <1>1, RevisionAfterType DEF TypeInv, TypeOK
    <3> HIDE DEF r
    <3>2. QED
      BY <1>5, <3>1
  <2>2. revision # 0 => r = revision
    BY DEF RevisionAfter
  <2>3. revision' = r
    BY <1>2
  <2> HIDE DEF r
  <2>4. QED
    BY <2>1, <2>2, <2>3
<1>7. revision' \in Nat /\ revision <= revision'
  BY <1>5, <1>6
<1> HIDE DEF n
<1>8. Counted'
  <2>1. revision \in {n, n + 1}
    BY <1>4 DEF Counted, n
  <2>2. revision' \in {n, n + 1}
    BY <1>5, <1>6, <2>1
  <2>3. QED
    BY <1>2, <2>2 DEF Counted, n
<1>9. Rising'
  <2>1. \A i \in 1 .. n : published[i].revision \in Nat
    <3>1. published \in Seq(Update)
      BY <1>1 DEF TypeInv, TypeOK
    <3>2. \A i \in 1 .. n : published[i] \in Update
      BY <3>1 DEF n
    <3>3. QED
      BY <3>2 DEF Update
  <2>2. \A i \in 1 .. n : published[i].revision <= revision
    BY <1>4, <1>5 DEF Rising
  <2>3. \A i \in 1 .. n : published[i].revision <= revision'
    BY <1>5, <1>7, <2>1, <2>2
  <2>4. QED
    BY <1>2, <1>4, <1>5, <2>3 DEF Rising
<1>10. SnapshotsCounted' /\ SnapshotIsSuperseded'
  <2>1. \A x \in snapshots' : x.revision = revision' /\ x.after = n
    BY <1>1, <1>2, HandsOutOne DEF n
  <2>2. SnapshotsCounted'
    <3>1. n <= Len(published')
      BY <1>2, <1>5 DEF n
    <3>2. revision' <= revision'
      BY <1>7
    <3>3. QED
      BY <2>1, <3>1, <3>2 DEF SnapshotsCounted
  <2>3. SnapshotIsSuperseded'
    <3> SUFFICES ASSUME NEW x \in snapshots', NEW i \in 1 .. n, i > n PROVE FALSE
      BY <1>2, <1>5, <2>1 DEF SnapshotIsSuperseded
    <3>1. QED
      BY <1>5
  <2>4. QED
    BY <2>2, <2>3
<1>11. QED
  BY <1>8, <1>9, <1>10

LEMMA RevisionInvStep == RevisionInv /\ [Next]_vars => RevisionInv'
<1> SUFFICES ASSUME RevisionInv, [Next]_vars PROVE RevisionInv'
  OBVIOUS
<1>1. TypeInv /\ TypeInv'
  BY StepKinds DEF RevisionInv
<1>2. ASSUME UNCHANGED <<revision, published, snapshots>> PROVE RevisionInv'
  BY <1>1, <1>2 DEF RevisionInv, NotWrapped, Counted, Rising, SnapshotsCounted,
                    SnapshotIsSuperseded
<1>3. KeepsAll \/ Resets => UNCHANGED <<revision, published, snapshots>>
  BY DEF KeepsAll, Resets, slotVars
<1>4. QED
  BY <1>1, <1>2, <1>3, RevisionInvCommit, RevisionInvHandsOut, StepKinds DEF RevisionInv

(* A revision that has not wrapped belongs to one published value only.    *)
THEOREM RevisionsAreUnique == Spec => []OneValuePerRevision
<1>1. RevisionInv => OneValuePerRevision
  <2> SUFFICES ASSUME RevisionInv, NotWrapped,
                      NEW i \in DOMAIN published, NEW j \in DOMAIN published,
                      published[i].revision = published[j].revision, i # j
               PROVE  FALSE
    BY DEF OneValuePerRevision
  <2>1. published \in Seq(Update)
    BY DEF RevisionInv, TypeInv, TypeOK
  <2>2. i \in Int /\ j \in Int /\ published[i] \in Update /\ published[j] \in Update
    BY <2>1
  <2>3. /\ i < j => published[i].revision < published[j].revision
        /\ j < i => published[j].revision < published[i].revision
    BY DEF RevisionInv, Rising
  <2>4. published[i].revision \in Nat /\ published[j].revision \in Nat
    BY <2>2 DEF Update
  <2>5. QED
    BY <2>2, <2>3, <2>4
<1>2. QED
  BY <1>1, RevisionInvInit, RevisionInvStep, PTL DEF Spec

(* What is published after a snapshot was taken supersedes it.             *)
THEOREM SnapshotsAreSuperseded == Spec => []SnapshotIsSuperseded
<1>1. RevisionInv => SnapshotIsSuperseded
  BY DEF RevisionInv, SnapshotIsSuperseded
<1>2. QED
  BY <1>1, RevisionInvInit, RevisionInvStep, PTL DEF Spec

(***************************************************************************)
(* Redundancy.  What is remembered is the value of the last update, unless *)
(* the source changed since; so the next update is compared with it.       *)
(***************************************************************************)
RemembersTheLast ==
    /\ \A i \in DOMAIN published : published[i].reset <= resets
    /\ published # <<>> /\ published[Len(published)].reset = resets =>
          lastPublished = {published[Len(published)].value}

RedundancyInv == TypeInv /\ RemembersTheLast /\ NoRedundantRevision

LEMMA RedundancyCommit ==
    ASSUME RedundancyInv, TypeInv', NEW v \in Value, NEW s \in {0, source}, Commits(v, s)
    PROVE  RedundancyInv'
<1> DEFINE n == Len(published)
<1>1. TypeInv
  BY DEF RedundancyInv
<1>2. /\ n \in Nat /\ Len(published') = n + 1
      /\ DOMAIN published = 1 .. n /\ DOMAIN published' = 1 .. n + 1
      /\ \A i \in 1 .. n : published'[i] = published[i] /\ published[i] \in Update
      /\ published'[n + 1].value = v /\ published'[n + 1].reset = resets
  BY <1>1, CommitAppends
<1>3. lastPublished' = {v} /\ resets' = resets /\ resets \in Nat /\ IsMeaningfulChange(v)
  BY <1>1 DEF Commits, TypeInv, TypeOK
<1>4. n # 0 => published # <<>>
  BY <1>2
<1>5. published \in Seq(Update) /\ published' \in Seq(Update)
  BY <1>1 DEF TypeInv, TypeOK
<1> DEFINE last == published[n]
<1>6. n # 0 /\ last.reset = resets => lastPublished = {last.value}
  BY <1>4 DEF RedundancyInv, RemembersTheLast
<1>7. \A i \in 1 .. n : published[i].reset <= resets
  BY <1>2 DEF RedundancyInv, RemembersTheLast
<1> HIDE DEF n
<1>8. RemembersTheLast'
  <2>1. \A i \in 1 .. n + 1 : published'[i].reset <= resets
    BY <1>2, <1>3, <1>7
  <2>2. published'[Len(published')].value = v
    BY <1>2
  <2>3. QED
    BY <1>2, <1>3, <2>1, <2>2 DEF RemembersTheLast
<1>9. NoRedundantRevision'
  <2> SUFFICES ASSUME NEW i \in DOMAIN published' \ {1},
                      published'[i - 1].reset = published'[i].reset
               PROVE  StateValueChanged(published'[i - 1].value, published'[i].value)
    BY DEF NoRedundantRevision, StateValueChanged
  <2>1. i - 1 \in 1 .. n
    BY <1>2
  <2>2. CASE i = n + 1
    <3>1. published'[i - 1] = last /\ published'[i].reset = resets /\ n # 0
      BY <1>2, <2>1, <2>2
    <3>2. lastPublished = {last.value}
      BY <1>6, <3>1
    <3>3. StateValueChanged(last.value, v)
      BY <1>3, <3>2 DEF IsMeaningfulChange
    <3>4. QED
      BY <1>2, <2>2, <3>1, <3>3
  <2>3. CASE i # n + 1
    <3>1. /\ i \in DOMAIN published \ {1}
          /\ published'[i] = published[i] /\ published'[i - 1] = published[i - 1]
      BY <1>2, <2>1, <2>3
    <3>2. QED
      BY <3>1 DEF RedundancyInv, NoRedundantRevision
  <2>4. QED
    BY <2>2, <2>3
<1>10. QED
  BY <1>8, <1>9 DEF RedundancyInv

LEMMA RedundancyStep == RedundancyInv /\ [Next]_vars => RedundancyInv'
<1> SUFFICES ASSUME RedundancyInv, [Next]_vars PROVE RedundancyInv'
  OBVIOUS
<1>1. TypeInv /\ TypeInv'
  BY StepKinds DEF RedundancyInv
<1>2. ASSUME published' = published PROVE NoRedundantRevision'
  BY <1>2 DEF RedundancyInv, NoRedundantRevision, StateValueChanged
<1>3. ASSUME UNCHANGED <<published, resets, lastPublished>> PROVE RedundancyInv'
  BY <1>1, <1>2, <1>3 DEF RedundancyInv, RemembersTheLast
<1>4. CASE Resets
  <2>1. published' = published /\ resets' = resets + 1 /\ resets \in Nat
    BY <1>1, <1>4 DEF Resets, TypeInv, TypeOK
  <2>2. \A i \in DOMAIN published : published[i].reset \in Nat /\ published[i].reset <= resets
    <3>1. published \in Seq(Update)
      BY <1>1 DEF TypeInv, TypeOK
    <3>2. \A i \in DOMAIN published : published[i] \in Update
      BY <3>1
    <3>3. QED
      BY <3>2 DEF Update, RedundancyInv, RemembersTheLast
  <2>3. \A i \in DOMAIN published : published[i].reset < resets'
    BY <2>1, <2>2
  <2>4. published # <<>> => Len(published) \in DOMAIN published
    BY <1>1 DEF TypeInv, TypeOK
  <2>5. RemembersTheLast'
    BY <2>1, <2>2, <2>3, <2>4 DEF RemembersTheLast
  <2>6. QED
    BY <1>1, <1>2, <2>1, <2>5 DEF RedundancyInv
<1>5. KeepsAll \/ (\E v \in Value : HandsOut(v)) =>
        UNCHANGED <<published, resets, lastPublished>>
  BY DEF KeepsAll, HandsOut, slotVars
<1>6. QED
  BY <1>1, <1>3, <1>4, <1>5, RedundancyCommit, StepKinds DEF RedundancyInv

(* Two updates in a row differ by more than the tolerance, unless the      *)
(* source was registered or removed between them.                          *)
THEOREM OnlyChangesAdvance == Spec => []NoRedundantRevision
<1>1. Init => RedundancyInv
  <2>1. Init => published = <<>> /\ DOMAIN published = {}
    BY DEF Init
  <2>2. QED
    BY <2>1, TypeInit DEF RedundancyInv, RemembersTheLast, NoRedundantRevision
<1>2. RedundancyInv => NoRedundantRevision
  BY DEF RedundancyInv
<1>3. QED
  BY <1>1, <1>2, RedundancyStep, PTL DEF Spec
================================================================================
