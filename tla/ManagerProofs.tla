------------------------------ MODULE ManagerProofs ------------------------------
(***************************************************************************)
(* What the RemoteStateManager promises, for any number of devices,        *)
(* definitions, values and threads and for every capacity.                 *)
(***************************************************************************)
EXTENDS ManagerHistory, ManagerTypes

LEMMA TypeInit == HInit => TypeOK
BY ManagerTypeInit DEF HInit, TypeOK

LEMMA TypeStep == TypeOK /\ [HNext]_vars => TypeOK'
<1> SUFFICES ASSUME TypeOK, [HNext]_vars PROVE TypeOK'
  OBVIOUS
<1>1. ASSUME NEW t \in Thread, NEW d \in Device, NEW s \in Definition,
             NEW e \in Epoch, NEW r \in Revision, NEW v \in Value,
             HApply(t, d, s, e, r, v)
      PROVE  TypeOK'
  <2>1. ManagerTypeOK'
    BY <1>1, ManagerTypeApply DEF HApply, TypeOK
  <2>2. UpdateOf(e, r, v) \in Update
    BY DEF UpdateOf, Update
  <2>3. QED
    BY <1>1, <2>1, <2>2 DEF HApply, TypeOK
<1>2. ASSUME NEW t \in Thread, NEW d \in Device, NEW a \in Reported,
             HSetAvailability(t, d, a)
      PROVE  TypeOK'
  BY <1>2, ManagerTypeSetAvailability DEF HSetAvailability, historyVars, TypeOK
<1>3. ASSUME NEW t \in Thread, HAnnounce(t) PROVE TypeOK'
  BY <1>3, ManagerTypeAnnounce DEF HAnnounce, TypeOK
<1>4. CASE UNCHANGED vars
  BY <1>4 DEF vars, TypeOK, ManagerTypeOK
<1>5. QED
  BY <1>1, <1>2, <1>3, <1>4 DEF HNext

(* The types hold, and the records never outgrow the reserved storage.     *)
THEOREM TypeCorrect == HSpec => []TypeOK
BY TypeInit, TypeStep, PTL DEF HSpec

(***************************************************************************)
(* A slot holds the newest update that was offered for it.                 *)
(***************************************************************************)

(* The part of StoredIsNewest that is about one state.                     *)
HoldsNewest(x, us) ==
    /\ x.hasValue <=> us # {}
    /\ x.hasValue => /\ UpdateOf(x.epoch, x.revision, x.value) \in us
                     /\ \A u \in us : ~Precedes(x, u)

LEMMA StoredIsNewestByState ==
    StoredIsNewest <=>
        \A d \in Device, s \in Definition : HoldsNewest(slot[d][s], offered[d][s])
BY DEF StoredIsNewest, HoldsNewest

(* Storing an update that is newer than what a slot holds, and offering    *)
(* one that is not, both leave the slot with the newest of the offered.    *)
LEMMA NewestOfOneMore ==
    ASSUME NEW x \in Slot, NEW us \in SUBSET Update, HoldsNewest(x, us),
           NEW e \in Epoch, NEW r \in Revision, NEW v \in Value
    PROVE  LET more == us \cup {UpdateOf(e, r, v)}
               new == [hasValue |-> TRUE, epoch |-> e, revision |-> r, value |-> v]
           IN IF x.hasValue /\ NotNewer(e, r, x)
              THEN HoldsNewest(x, more) ELSE HoldsNewest(new, more)
<1> DEFINE u0 == UpdateOf(e, r, v)
           more == us \cup {u0}
           new == [hasValue |-> TRUE, epoch |-> e, revision |-> r, value |-> v]
<1>1. /\ u0.epoch = e /\ u0.revision = r
      /\ e \in Nat /\ r \in Nat
      /\ x.epoch \in Nat /\ x.revision \in Nat
      /\ \A u \in us : u.epoch \in Nat /\ u.revision \in Nat
  BY ManagerAssumption DEF UpdateOf, Update, Slot
<1>2. CASE x.hasValue /\ NotNewer(e, r, x)
  BY <1>1, <1>2 DEF HoldsNewest, NotNewer, Precedes
<1>3. CASE ~(x.hasValue /\ NotNewer(e, r, x))
  <2>1. new.hasValue /\ new.epoch = e /\ new.revision = r /\ new.value = v
    OBVIOUS
  <2>2. \A u \in us : ~Precedes(new, u)
    BY <1>1, <1>3, <2>1 DEF HoldsNewest, NotNewer, Precedes
  <2>3. ~Precedes(new, u0)
    BY <1>1, <2>1 DEF Precedes
  <2>4. HoldsNewest(new, more)
    BY <2>1, <2>2, <2>3 DEF HoldsNewest
  <2>5. QED
    BY <1>3, <2>4
<1>4. QED
  BY <1>2, <1>3

(* What Apply() does to the slots and to the offered updates: nothing, or  *)
(* it offers one update and stores it unless the slot's is as new.         *)
LEMMA ApplyOffersAndStores ==
    ASSUME TypeOK, NEW t \in Thread, NEW d \in Device, NEW s \in Definition,
           NEW e \in Epoch, NEW r \in Revision, NEW v \in Value,
           HApply(t, d, s, e, r, v)
    PROVE  \/ UNCHANGED <<slot, offered>>
           \/ /\ offered' = [offered EXCEPT ![d][s] = @ \cup {UpdateOf(e, r, v)}]
              /\ IF slot[d][s].hasValue /\ NotNewer(e, r, slot[d][s])
                 THEN UNCHANGED slot
                 ELSE slot' = [slot EXCEPT ![d][s] =
                        [hasValue |-> TRUE, epoch |-> e, revision |-> r, value |-> v]]
<1>1. CASE Comparable(d, r)
  BY <1>1 DEF HApply, Apply, Accepts, Comparable
<1>2. CASE ~Comparable(d, r)
  BY <1>2 DEF HApply, Apply, Accepts, Comparable
<1>3. QED
  BY <1>1, <1>2

LEMMA NewestInit == HInit => StoredIsNewest
BY DEF HInit, ManagerInit, EmptySlot, StoredIsNewest

LEMMA NewestApply ==
    ASSUME TypeOK, StoredIsNewest, NEW t \in Thread, NEW d \in Device,
           NEW s \in Definition, NEW e \in Epoch, NEW r \in Revision, NEW v \in Value,
           HApply(t, d, s, e, r, v)
    PROVE  StoredIsNewest'
<1> DEFINE new == [hasValue |-> TRUE, epoch |-> e, revision |-> r, value |-> v]
           more == offered[d][s] \cup {UpdateOf(e, r, v)}
           stays == slot[d][s].hasValue /\ NotNewer(e, r, slot[d][s])
<1>1. \A d2 \in Device, s2 \in Definition : HoldsNewest(slot[d2][s2], offered[d2][s2])
  BY StoredIsNewestByState
<1>2. /\ slot \in [Device -> [Definition -> Slot]]
      /\ offered \in [Device -> [Definition -> SUBSET Update]]
  BY DEF TypeOK, ManagerTypeOK
<1>3. CASE UNCHANGED <<slot, offered>>
  BY <1>3 DEF StoredIsNewest
<1>4. CASE /\ offered' = [offered EXCEPT ![d][s] = more]
           /\ IF stays THEN UNCHANGED slot ELSE slot' = [slot EXCEPT ![d][s] = new]
  <2>1. offered'[d][s] = more /\ slot'[d][s] = IF stays THEN slot[d][s] ELSE new
    BY <1>2, <1>4
  <2>2. IF stays THEN HoldsNewest(slot[d][s], more) ELSE HoldsNewest(new, more)
    BY <1>1, <1>2, NewestOfOneMore
  <2>3. HoldsNewest(slot'[d][s], offered'[d][s])
    BY <2>1, <2>2
  <2>4. ASSUME NEW d2 \in Device, NEW s2 \in Definition, d2 # d \/ s2 # s
        PROVE  slot'[d2][s2] = slot[d2][s2] /\ offered'[d2][s2] = offered[d2][s2]
    BY <1>2, <1>4, <2>4
  <2>5. \A d2 \in Device, s2 \in Definition :
            HoldsNewest(slot'[d2][s2], offered'[d2][s2])
    BY <1>1, <2>3, <2>4
  <2>6. QED
    BY <2>5 DEF StoredIsNewest, HoldsNewest
<1>5. QED
  BY <1>3, <1>4, ApplyOffersAndStores

LEMMA NewestStep == TypeOK /\ StoredIsNewest /\ [HNext]_vars => StoredIsNewest'
<1> SUFFICES ASSUME TypeOK, StoredIsNewest, [HNext]_vars PROVE StoredIsNewest'
  OBVIOUS
<1>1. ASSUME NEW t \in Thread, NEW d \in Device, NEW a \in Reported,
             HSetAvailability(t, d, a)
      PROVE  StoredIsNewest'
  BY <1>1 DEF HSetAvailability, SetAvailability, historyVars, StoredIsNewest
<1>2. ASSUME NEW t \in Thread, HAnnounce(t) PROVE StoredIsNewest'
  BY <1>2 DEF HAnnounce, Announce, StoredIsNewest
<1>3. CASE UNCHANGED vars
  BY <1>3 DEF vars, StoredIsNewest
<1>4. QED
  BY <1>1, <1>2, <1>3, NewestApply DEF HNext

(* Whatever the order, repetition and interleaving of the Apply() calls of *)
(* any number of threads, a slot holds the newest update offered for it.   *)
THEOREM NewestSurvives == HSpec => []StoredIsNewest
BY TypeCorrect, NewestInit, NewestStep, PTL DEF HSpec

(***************************************************************************)
(* The manager implements LatestState.                                     *)
(***************************************************************************)

LEMMA LatestInit == HInit => Latest!Init
BY DEF HInit, ManagerInit, EmptySlot, Latest!Init, known, shown

LEMMA LatestApply ==
    ASSUME TypeOK, NEW t \in Thread, NEW d \in Device, NEW s \in Definition,
           NEW e \in Epoch, NEW r \in Revision, NEW v \in Value,
           HApply(t, d, s, e, r, v)
    PROVE  Latest!Next \/ UNCHANGED <<known, shown>>
<1> DEFINE u0 == UpdateOf(e, r, v)
           k == <<d, s>>
           new == [hasValue |-> TRUE, epoch |-> e, revision |-> r, value |-> v]
           stays == slot[d][s].hasValue /\ NotNewer(e, r, slot[d][s])
<1>1. /\ slot \in [Device -> [Definition -> Slot]]
      /\ offered \in [Device -> [Definition -> SUBSET Update]]
      /\ u0 \in Update
      /\ k \in Device \X Definition /\ k[1] = d /\ k[2] = s
  BY DEF TypeOK, ManagerTypeOK, UpdateOf, Update
<1>2. CASE UNCHANGED <<slot, offered>>
  BY <1>2 DEF known, shown
<1>3. CASE /\ offered' = [offered EXCEPT ![d][s] = @ \cup {u0}]
           /\ IF stays THEN UNCHANGED slot ELSE slot' = [slot EXCEPT ![d][s] = new]
  <2>1. known' = [known EXCEPT ![k] = @ \cup {u0}]
    <3>1. \A j \in Device \X Definition :
             offered'[j[1]][j[2]] =
                IF j = k THEN offered[d][s] \cup {u0} ELSE offered[j[1]][j[2]]
      BY <1>1, <1>3
    <3>2. QED
      BY <1>1, <3>1 DEF known
  <2>2. CASE stays
    <3>1. UNCHANGED shown
      BY <1>3, <2>2 DEF shown
    <3>2. QED
      BY <1>1, <2>1, <3>1 DEF Latest!Next, Latest!Learn
  <2>3. CASE ~stays
    <3>1. slot' = [slot EXCEPT ![d][s] = new]
      BY <1>3, <2>3
    <3>2. shown' = [shown EXCEPT ![k] = {u0}]
      <4>1. \A j \in Device \X Definition :
               slot'[j[1]][j[2]] = IF j = k THEN new ELSE slot[j[1]][j[2]]
        BY <1>1, <3>1
      <4>2. new.hasValue /\ UpdateOf(new.epoch, new.revision, new.value) = u0
        BY DEF UpdateOf
      <4>3. QED
        BY <1>1, <4>1, <4>2 DEF shown
    <3>3. \A w \in shown[k] : Latest!Newer(u0, w)
      <4>1. SUFFICES ASSUME slot[d][s].hasValue,
                            NEW w, w = UpdateOf(slot[d][s].epoch, slot[d][s].revision,
                                                slot[d][s].value)
                     PROVE  Latest!Newer(u0, w)
        BY <1>1 DEF shown
      <4>2. /\ w.epoch = slot[d][s].epoch /\ w.revision = slot[d][s].revision
            /\ w.epoch \in Nat /\ w.revision \in Nat
            /\ u0.epoch = e /\ u0.revision = r /\ e \in Nat /\ r \in Nat
        BY <1>1, <4>1, ManagerAssumption DEF UpdateOf, Slot
      <4>3. QED
        BY <2>3, <4>1, <4>2 DEF NotNewer, Latest!Newer
    <3>4. QED
      BY <1>1, <2>1, <3>2, <3>3 DEF Latest!Next, Latest!Learn
  <2>4. QED
    BY <2>2, <2>3
<1>4. QED
  BY <1>2, <1>3, ApplyOffersAndStores

LEMMA LatestStep ==
    TypeOK /\ [HNext]_vars => [Latest!Next]_<<known, shown>>
<1> SUFFICES ASSUME TypeOK, [HNext]_vars
             PROVE  Latest!Next \/ UNCHANGED <<known, shown>>
  OBVIOUS
<1>1. ASSUME NEW t \in Thread, NEW d \in Device, NEW a \in Reported,
             HSetAvailability(t, d, a)
      PROVE  UNCHANGED <<known, shown>>
  BY <1>1 DEF HSetAvailability, SetAvailability, historyVars, known, shown
<1>2. ASSUME NEW t \in Thread, HAnnounce(t) PROVE UNCHANGED <<known, shown>>
  BY <1>2 DEF HAnnounce, Announce, known, shown
<1>3. CASE UNCHANGED vars
  BY <1>3 DEF vars, known, shown
<1>4. QED
  BY <1>1, <1>2, <1>3, LatestApply DEF HNext

(* The manager implements LatestState: what Read() returns for a state     *)
(* only ever moves on to a newer version of it.                            *)
THEOREM ManagerKeepsLatest == HSpec => KeepsLatest
BY TypeCorrect, LatestInit, LatestStep, PTL DEF HSpec, KeepsLatest, Latest!Spec

(***************************************************************************)
(* Notes get to the observers.                                             *)
(***************************************************************************)

(* What the observers have been told, or a thread has still to tell them.  *)
Told(n) == n \in heard \/ \E t \in Thread : n \in Due(notes[t])

(* The calls of HNext, as calls of the manager.                            *)
LEMMA ApplyTellsNothing ==
    ASSUME TypeOK, NEW t \in Thread, NEW d \in Device, NEW s \in Definition,
           NEW e \in Epoch, NEW r \in Revision, NEW v \in Value,
           HApply(t, d, s, e, r, v)
    PROVE  heard' = heard /\ \E n : AppliesAs(t, d, s, e, r, v, n)
BY ApplyIsACall DEF HApply, TypeOK

LEMMA SetAvailabilityTellsNothing ==
    ASSUME TypeOK, NEW t \in Thread, NEW d \in Device, NEW a \in Reported,
           HSetAvailability(t, d, a)
    PROVE  /\ heard' = heard /\ slot' = slot
           /\ \E n, y : CallOf(t, d, n, y)
BY SetAvailabilityIsACall DEF HSetAvailability, historyVars, TypeOK, SetsAs

(* Nothing that the observers were told, or were about to be told, is      *)
(* forgotten by a step.                                                    *)
LEMMA NothingIsForgotten ==
    ASSUME TypeOK, [HNext]_vars, NEW n \in AcceptedNotes \cup RegisteredNotes, Told(n)
    PROVE  Told(n)'
<1>1. ASSUME NEW t \in Thread, NEW d \in Device, NEW m, NEW y, CallOf(t, d, m, y),
             heard' = heard
      PROVE  Told(n)'
  <2>1. Due(notes[t]) = {} /\ \A u \in Thread \ {t} : notes'[u] = notes[u]
    BY <1>1, CallTells DEF TypeOK
  <2>2. QED
    BY <1>1, <2>1 DEF Told
<1>2. ASSUME NEW t \in Thread, HAnnounce(t) PROVE Told(n)'
  <2>1. /\ Due(notes[t]) = {Head(notes[t])} \cup Due(notes'[t])
        /\ \A u \in Thread \ {t} : notes'[u] = notes[u]
    BY <1>2, DueOfAnnounce DEF HAnnounce, TypeOK
  <2>2. heard' = heard \cup ({Head(notes[t])} \cap (RegisteredNotes \cup AcceptedNotes))
    BY <1>2 DEF HAnnounce
  <2>3. CASE n = Head(notes[t])
    BY <2>2, <2>3 DEF Told
  <2>4. CASE n # Head(notes[t])
    BY <2>1, <2>2, <2>4 DEF Told
  <2>5. QED
    BY <2>3, <2>4
<1>3. CASE UNCHANGED vars
  BY <1>3 DEF vars, Told
<1>4. QED
  <2>1. ASSUME NEW t \in Thread, NEW d \in Device, NEW s \in Definition, NEW e \in Epoch,
               NEW r \in Revision, NEW v \in Value, HApply(t, d, s, e, r, v)
        PROVE  Told(n)'
    BY <2>1, <1>1, ApplyTellsNothing DEF AppliesAs
  <2>2. ASSUME NEW t \in Thread, NEW d \in Device, NEW a \in Reported,
               HSetAvailability(t, d, a)
        PROVE  Told(n)'
    BY <2>2, <1>1, SetAvailabilityTellsNothing
  <2>3. QED
    BY <2>1, <2>2, <1>2, <1>3 DEF HNext

(* The announcement of the version that a slot holds.                      *)
Tells(n, d, s, x) ==
    /\ n.kind = "accepted"
    /\ n.device = d
    /\ n.def = s
    /\ n.epoch = x.epoch
    /\ n.revision = x.revision

SlotIsTold(d, s) == slot[d][s].hasValue => \E n \in Note : Told(n) /\ Tells(n, d, s, slot[d][s])

LEMMA StoredIsAnnouncedBySlot ==
    ASSUME TypeOK
    PROVE  StoredIsAnnounced <=> \A d \in Device, s \in Definition : SlotIsTold(d, s)
<1>1. heard \subseteq Note /\ \A t \in Thread : Due(notes[t]) \subseteq Note
  BY DueOfParts DEF TypeOK, ManagerTypeOK
<1>2. ASSUME NEW d \in Device, NEW s \in Definition
      PROVE  (\E n \in Note : Told(n) /\ Tells(n, d, s, slot[d][s])) <=>
                 \/ \E n \in heard : Tells(n, d, s, slot[d][s])
                 \/ \E t \in Thread : \E i \in DOMAIN notes[t] :
                        Tells(notes[t][i], d, s, slot[d][s])
  BY <1>1 DEF Told, Due
<1>3. StoredIsAnnounced <=>
          \A d \in Device, s \in Definition :
              slot[d][s].hasValue =>
                 \/ \E n \in heard : Tells(n, d, s, slot[d][s])
                 \/ \E t \in Thread : \E i \in DOMAIN notes[t] :
                        Tells(notes[t][i], d, s, slot[d][s])
  BY DEF StoredIsAnnounced, Tells
<1>4. QED
  BY <1>2, <1>3 DEF SlotIsTold

LEMMA AnnouncedInit == HInit => StoredIsAnnounced
BY DEF HInit, ManagerInit, EmptySlot, StoredIsAnnounced

LEMMA AnnouncedStep == TypeOK /\ StoredIsAnnounced /\ [HNext]_vars => StoredIsAnnounced'
<1> SUFFICES ASSUME TypeOK, StoredIsAnnounced, [HNext]_vars PROVE StoredIsAnnounced'
  OBVIOUS
<1>1. TypeOK'
  BY TypeStep
<1>2. ASSUME NEW d \in Device, NEW s \in Definition, slot'[d][s] = slot[d][s]
      PROVE  SlotIsTold(d, s)'
  <2>1. SlotIsTold(d, s)
    BY StoredIsAnnouncedBySlot
  <2>2. \A n \in Note : Tells(n, d, s, slot[d][s]) => n \in AcceptedNotes
    BY KindsDiffer DEF Tells
  <2>3. QED
    BY <1>2, <2>1, <2>2, NothingIsForgotten DEF SlotIsTold
<1>3. ASSUME NEW t \in Thread, NEW d \in Device, NEW s \in Definition,
             NEW e \in Epoch, NEW r \in Revision, NEW v \in Value,
             HApply(t, d, s, e, r, v), NEW d2 \in Device, NEW s2 \in Definition
      PROVE  SlotIsTold(d2, s2)'
  <2> DEFINE new == [hasValue |-> TRUE, epoch |-> e, revision |-> r, value |-> v]
             c == ValueChanges(d, s, v)
  <2>1. PICK n : AppliesAs(t, d, s, e, r, v, n)
    BY <1>3, ApplyTellsNothing
  <2> HIDE DEF c
  <2>2. CASE slot'[d2][s2] = slot[d2][s2]
    BY <1>2, <2>2
  <2>3. CASE slot'[d2][s2] # slot[d2][s2]
    <3>1. /\ d2 = d /\ s2 = s /\ slot'[d2][s2] = new
          /\ n = AcceptedNote(d, s, e, r, c)
      <4>1. slot' # slot
        BY <2>3
      <4>2. slot' = [slot EXCEPT ![d][s] = new] /\ n = AcceptedNote(d, s, e, r, c)
        BY <2>1, <4>1 DEF c, AppliesAs
      <4> HIDE DEF new
      <4>3. slot \in [Device -> [Definition -> Slot]]
        BY DEF TypeOK, ManagerTypeOK
      <4>4. d2 = d /\ s2 = s /\ slot'[d2][s2] = new
        BY <2>3, <4>2, <4>3
      <4>5. QED
        BY <4>2, <4>4
    <3>2. n \in Note
      BY <2>1, KindsDiffer DEF AppliesAs, CallOf
    <3>3. Told(n)'
      BY <2>1, CallTells DEF AppliesAs, Told, TypeOK
    <3>4. Tells(n, d, s, new)
      BY <3>1 DEF Tells, AcceptedNote
    <3>5. QED
      BY <3>1, <3>2, <3>3, <3>4 DEF SlotIsTold
  <2>4. QED
    BY <2>2, <2>3
<1>4. ASSUME NEW t \in Thread, NEW d \in Device, NEW a \in Reported,
             HSetAvailability(t, d, a)
      PROVE  slot' = slot
  BY <1>4, SetAvailabilityTellsNothing
<1>5. ASSUME NEW t \in Thread, HAnnounce(t) PROVE slot' = slot
  BY <1>5 DEF HAnnounce, Announce
<1>6. CASE UNCHANGED vars
  BY <1>6, <1>2, <1>1, StoredIsAnnouncedBySlot DEF vars, StoredIsAnnounced
<1>7. \A d \in Device, s \in Definition : SlotIsTold(d, s)'
  BY <1>2, <1>3, <1>4, <1>5, <1>6 DEF HNext, vars
<1>8. (StoredIsAnnounced <=> \A d \in Device, s \in Definition : SlotIsTold(d, s))'
  BY <1>1, StoredIsAnnouncedBySlot, PTL
<1>9. QED
  BY <1>7, <1>8

(* However many threads call and however their notifications interleave,   *)
(* the version that Read() returns has been announced as accepted, or the  *)
(* thread that stored it is about to announce it.                          *)
THEOREM StoredVersionsAreAnnounced == HSpec => []StoredIsAnnounced
BY TypeCorrect, AnnouncedInit, AnnouncedStep, PTL DEF HSpec
(***************************************************************************)
(* Every device is registered with the observers once.                     *)
(***************************************************************************)

(* The threads that have still to register d.                              *)
Registrars(d) == {t \in Thread : RegisteredNote(d) \in Due(notes[t])}

(* A thread makes its registration first, and never a second one: without  *)
(* that, the announcement of a registration could leave another behind.    *)
RegistersFirst ==
    \A t \in Thread : \A i \in DOMAIN notes[t] :
        i = 1 \/ notes[t][i] \notin RegisteredNotes

RegisteredOnceFor(d) ==
    /\ d \notin devices => RegisteredNote(d) \notin heard /\ Registrars(d) = {}
    /\ d \in devices /\ RegisteredNote(d) \in heard => Registrars(d) = {}
    /\ d \in devices /\ RegisteredNote(d) \notin heard => \E t \in Thread : Registrars(d) = {t}

RegInv == RegistersFirst /\ \A d \in Device : RegisteredOnceFor(d)

LEMMA RegInvImplies == TypeOK /\ RegInv => RegisteredOnce
<1> SUFFICES ASSUME TypeOK, RegInv, NEW d \in Device
             PROVE  LET pending == {t \in Thread : \E i \in DOMAIN notes[t] :
                                                      notes[t][i] = RegisteredNote(d)}
                        told == RegisteredNote(d) \in heard
                    IN /\ d \notin devices => ~told /\ pending = {}
                       /\ d \in devices => IF told THEN pending = {}
                                                   ELSE Cardinality(pending) = 1
  BY DEF RegisteredOnce
<1>1. {t \in Thread : \E i \in DOMAIN notes[t] : notes[t][i] = RegisteredNote(d)}
        = Registrars(d)
  BY DEF Registrars, Due
<1>2. RegisteredOnceFor(d)
  BY DEF RegInv
<1>3. \A t : Cardinality({t}) = 1
  BY FS_Singleton
<1>4. d \in devices /\ RegisteredNote(d) \notin heard => Cardinality(Registrars(d)) = 1
  BY <1>2, <1>3 DEF RegisteredOnceFor
<1>5. QED
  BY <1>1, <1>2, <1>4 DEF RegisteredOnceFor

LEMMA RegInvInit == HInit => RegInv
BY DEF HInit, ManagerInit, RegInv, RegistersFirst, RegisteredOnceFor, Registrars, Due

LEMMA RegInvCall ==
    ASSUME TypeOK, RegInv, NEW t \in Thread, NEW d \in Device, NEW n, NEW y,
           CallOf(t, d, n, y), heard' = heard
    PROVE  RegInv'
<1>1. /\ Due(notes[t]) = {}
      /\ Due(notes'[t]) \subseteq {n, RegisteredNote(d)}
      /\ RegisteredNote(d) \in Due(notes'[t]) <=> Creates(d)
      /\ \A i \in DOMAIN notes'[t] : i = 1 \/ notes'[t][i] \notin RegisteredNotes
      /\ \A u \in Thread \ {t} : notes'[u] = notes[u]
  BY CallTells DEF TypeOK
<1>2. /\ heard' = heard
      /\ devices' = IF Creates(d) THEN devices \cup {d} ELSE devices
      /\ n \notin RegisteredNotes
  BY KindsDiffer DEF CallOf
<1>3. RegistersFirst'
  BY <1>1 DEF RegInv, RegistersFirst
<1>4. \A d2 \in Device : t \notin Registrars(d2)
  BY <1>1 DEF Registrars
<1>5. ASSUME NEW d2 \in Device, d2 # d \/ ~Creates(d) PROVE RegisteredOnceFor(d2)'
  <2>1. RegisteredNote(d2) \notin Due(notes'[t])
    BY <1>1, <1>2, <1>5, KindsDiffer
  <2>2. Registrars(d2)' = Registrars(d2)
    BY <1>1, <1>4, <2>1 DEF Registrars
  <2>3. d2 \in devices' <=> d2 \in devices
    BY <1>2, <1>5
  <2>4. QED
    BY <1>2, <2>2, <2>3 DEF RegInv, RegisteredOnceFor
<1>6. ASSUME Creates(d) PROVE RegisteredOnceFor(d)'
  <2>1. Registrars(d) = {} /\ RegisteredNote(d) \notin heard
    BY <1>6 DEF Creates, RegInv, RegisteredOnceFor
  <2>2. Registrars(d)' = {t}
    BY <1>1, <1>6, <2>1 DEF Registrars
  <2>3. QED
    BY <1>2, <1>6, <2>1, <2>2 DEF RegisteredOnceFor
<1>7. QED
  BY <1>3, <1>5, <1>6 DEF RegInv

LEMMA RegInvAnnounce ==
    ASSUME TypeOK, RegInv, NEW t \in Thread, HAnnounce(t)
    PROVE  RegInv'
<1> DEFINE n == Head(notes[t])
<1>1. /\ notes[t] \in Seq(Note) /\ notes[t] # <<>> /\ notes'[t] = Tail(notes[t])
      /\ Due(notes[t]) = {n} \cup Due(notes'[t])
      /\ \A u \in Thread \ {t} : notes'[u] = notes[u]
  BY DueOfAnnounce DEF HAnnounce, TypeOK
<1>2. /\ heard' = heard \cup ({n} \cap (RegisteredNotes \cup AcceptedNotes))
      /\ devices' = devices
  BY DEF HAnnounce, Announce
<1>3. \A i \in DOMAIN notes'[t] :
          i + 1 \in DOMAIN notes[t] /\ notes'[t][i] = notes[t][i + 1] /\ i # 0 /\ i \in Nat
  <2>1. notes'[t] \in Seq(Note)
    BY <1>1
  <2>2. QED
    BY <1>1, <2>1, DueOfParts
<1>4. Due(notes'[t]) \cap RegisteredNotes = {}
  <2>1. \A i \in DOMAIN notes'[t] : notes'[t][i] \notin RegisteredNotes
    BY <1>3 DEF RegInv, RegistersFirst
  <2>2. QED
    BY <2>1 DEF Due
<1>5. RegistersFirst'
  <2>1. \A i \in DOMAIN notes'[t] : notes'[t][i] \notin RegisteredNotes
    BY <1>4 DEF Due
  <2>2. QED
    BY <1>1, <2>1 DEF RegInv, RegistersFirst
<1> HIDE DEF n
<1>6. ASSUME NEW d \in Device PROVE RegisteredOnceFor(d)'
  <2>1. RegisteredOnceFor(d) /\ RegisteredNote(d) \in RegisteredNotes
    BY KindsDiffer DEF RegInv
  <2>2. CASE n = RegisteredNote(d)
    <3>1. t \in Registrars(d)
      BY <1>1, <2>2 DEF Registrars
    <3>2. d \in devices /\ Registrars(d) = {t}
      BY <2>1, <3>1 DEF RegisteredOnceFor
    <3>3. Registrars(d)' = {}
      BY <1>1, <1>4, <2>1, <3>2 DEF Registrars
    <3>4. RegisteredNote(d) \in heard'
      BY <1>2, <2>1, <2>2
    <3>5. QED
      BY <1>2, <3>2, <3>3, <3>4 DEF RegisteredOnceFor
  <2>3. CASE n # RegisteredNote(d)
    <3>1. Registrars(d)' = Registrars(d)
      BY <1>1, <2>3 DEF Registrars
    <3>2. RegisteredNote(d) \in heard' <=> RegisteredNote(d) \in heard
      BY <1>2, <2>3
    <3>3. QED
      BY <1>2, <2>1, <3>1, <3>2 DEF RegisteredOnceFor
  <2>4. QED
    BY <2>2, <2>3
<1>7. QED
  BY <1>5, <1>6 DEF RegInv

LEMMA RegInvStep == TypeOK /\ RegInv /\ [HNext]_vars => RegInv'
<1> SUFFICES ASSUME TypeOK, RegInv, [HNext]_vars PROVE RegInv'
  OBVIOUS
<1>1. ASSUME NEW t \in Thread, NEW d \in Device, NEW s \in Definition, NEW e \in Epoch,
             NEW r \in Revision, NEW v \in Value, HApply(t, d, s, e, r, v)
      PROVE  RegInv'
  BY <1>1, ApplyTellsNothing, RegInvCall DEF AppliesAs
<1>2. ASSUME NEW t \in Thread, NEW d \in Device, NEW a \in Reported,
             HSetAvailability(t, d, a)
      PROVE  RegInv'
  BY <1>2, SetAvailabilityTellsNothing, RegInvCall
<1>3. ASSUME NEW t \in Thread, HAnnounce(t) PROVE RegInv'
  BY <1>3, RegInvAnnounce
<1>4. CASE UNCHANGED vars
  BY <1>4 DEF vars, RegInv, RegistersFirst, RegisteredOnceFor, Registrars
<1>5. QED
  BY <1>1, <1>2, <1>3, <1>4 DEF HNext

(* A device gets a record in one critical section, and exactly the thread  *)
(* whose call made it registers the device with the observers, once.       *)
THEOREM DevicesRegisterOnce == HSpec => []RegisteredOnce
<1>1. HSpec => []RegInv
  BY TypeCorrect, RegInvInit, RegInvStep, PTL DEF HSpec
<1>2. QED
  BY <1>1, TypeCorrect, RegInvImplies, PTL

==================================================================================
