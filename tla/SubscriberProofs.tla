---------------------------- MODULE SubscriberProofs ----------------------------
(***************************************************************************)
(* Proofs about the StateSubscriberRegistry, for every capacity and any    *)
(* sets of devices, definitions and threads.                               *)
(***************************************************************************)
EXTENDS SubscriberRegistry, FiniteSetTheorems, TLAPS

(***************************************************************************)
(* Sets of naturals: the least element, and the elements in their order.   *)
(***************************************************************************)

LEMMA Least ==
    ASSUME NEW T \in SUBSET Nat, T # {}
    PROVE  \E x \in T : \A y \in T : x <= y
<1> DEFINE R == OpToRel(<, Nat)
<1>1. IsWellFoundedOn(R, Nat)
  BY NatLessThanWellFounded, Zenon
<1>2. \A x, y \in Nat : <<x, y>> \in R <=> x < y
  BY DEF OpToRel
<1> HIDE DEF R
<1>3. PICK x \in T : \A y \in T : ~(<<y, x>> \in R)
  BY <1>1, WFMin
<1>4. ASSUME NEW y \in T PROVE x <= y
  <2>1. x \in Nat /\ y \in Nat
    OBVIOUS
  <2>2. ~(y < x)
    BY <1>2, <1>3, <2>1
  <2>3. QED
    BY <2>1, <2>2
<1>5. QED
  BY <1>4

(* The place of i in M.                                                    *)
Rank(M, i) == Cardinality({j \in M : j <= i})

LEMMA RankOf ==
    ASSUME NEW M \in SUBSET Nat, IsFiniteSet(M), NEW i \in M
    PROVE  /\ Rank(M, i) \in 1 .. Cardinality(M)
           /\ \A k \in M : i < k => Rank(M, i) < Rank(M, k)
<1>1. \A k \in M : {j \in M : j <= k} \in SUBSET M /\ IsFiniteSet({j \in M : j <= k})
  BY FS_Subset
<1>2. \A k \in M : Rank(M, k) \in Nat /\ Rank(M, k) <= Cardinality(M)
  BY <1>1, FS_Subset, FS_CardinalityType DEF Rank
<1>3. Rank(M, i) # 0
  <2>1. i \in {j \in M : j <= i}
    OBVIOUS
  <2>2. QED
    BY <1>1, <2>1, FS_EmptySet DEF Rank
<1>4. Cardinality(M) \in Nat
  BY FS_CardinalityType
<1>5. ASSUME NEW k \in M, i < k PROVE Rank(M, i) < Rank(M, k)
  <2> DEFINE A == {j \in M : j <= i}
             B == {j \in M : j <= k}
  <2>0. i \in Nat /\ k \in Nat /\ \A j \in M : j \in Nat
    OBVIOUS
  <2>1. A \in SUBSET B /\ k \in B /\ k \notin A
    <3>1. \A j \in M : j <= i => j <= k
      BY <1>5, <2>0
    <3>2. ~(k <= i) /\ k <= k
      BY <1>5, <2>0
    <3>3. QED
      BY <3>1, <3>2
  <2>2. IsFiniteSet(B)
    BY <1>1
  <2> HIDE DEF A, B
  <2>3. Cardinality(A) <= Cardinality(B) /\ Cardinality(A) # Cardinality(B)
    BY <2>1, <2>2, FS_Subset
  <2>4. QED
    BY <1>2, <2>3 DEF Rank, A, B
<1>6. QED
  BY <1>2, <1>3, <1>4, <1>5

(* A loop over the members of a finite set of indices, from the first to   *)
(* the last, meets each of them once.                                      *)
LEMMA OrderExists ==
    ASSUME NEW M \in SUBSET Nat, IsFiniteSet(M)
    PROVE  /\ InOrder(M) \in [1 .. Cardinality(M) -> M]
           /\ \A i, j \in 1 .. Cardinality(M) : i < j => InOrder(M)[i] < InOrder(M)[j]
           /\ \A i, j \in 1 .. Cardinality(M) : InOrder(M)[i] = InOrder(M)[j] => i = j
           /\ \A x \in M : \E i \in 1 .. Cardinality(M) : InOrder(M)[i] = x
           /\ Cardinality(M) \in Nat
<1> DEFINE N == 1 .. Cardinality(M)
           f == [i \in M |-> Rank(M, i)]
           q == [n \in N |-> CHOOSE i \in M : Rank(M, i) = n]
<1>0. Cardinality(M) \in Nat
  BY FS_CardinalityType
<1>1a. \A n \in N : n \in Nat
  BY <1>0
<1>1. IsFiniteSet(N) /\ Cardinality(N) = Cardinality(M)
  BY <1>0, FS_Interval
<1>2. f \in Injection(M, N)
  <2>1. f \in [M -> N]
    BY RankOf
  <2>2. \A a, b \in M : f[a] = f[b] => a = b
    <3>1. \A i, k \in M : i < k => Rank(M, i) < Rank(M, k)
      BY RankOf
    <3>2. \A i \in M : i \in Nat /\ Rank(M, i) \in Nat
      BY RankOf
    <3>3. ASSUME NEW a \in M, NEW b \in M, f[a] = f[b], a # b PROVE FALSE
      BY <3>1, <3>2, <3>3
    <3>4. QED
      BY <3>3
  <2>3. QED
    BY <2>1, <2>2 DEF Injection, IsInjective
<1> HIDE DEF N, f
<1>3. f \in Surjection(M, N)
  BY <1>1, <1>2, FS_Injection
<1>4. \A n \in N : \E i \in M : Rank(M, i) = n
  BY <1>3 DEF Surjection, f
<1>5. \A n \in N : q[n] \in M /\ Rank(M, q[n]) = n
  BY <1>4
<1>6. q \in [N -> M]
  BY <1>5
<1> HIDE DEF q
<1>7. ASSUME NEW i \in N, NEW j \in N, i < j PROVE q[i] < q[j]
  <2>1. q[i] \in M /\ q[j] \in M /\ Rank(M, q[i]) = i /\ Rank(M, q[j]) = j
    BY <1>5
  <2>2. q[i] \in Nat /\ q[j] \in Nat /\ i \in Nat /\ j \in Nat
    BY <1>1a, <2>1
  <2>3. q[i] # q[j]
    BY <1>7, <2>1, <2>2
  <2>4. q[j] < q[i] => j < i
    BY <2>1, RankOf
  <2>5. QED
    BY <1>7, <2>2, <2>3, <2>4
<1> DEFINE p == InOrder(M)
<1>8. p \in [N -> M] /\ \A i, j \in N : i < j => p[i] < p[j]
  BY <1>6, <1>7 DEF InOrder, N
<1> HIDE DEF p
<1>9. p \in Injection(N, M)
  <2>1. \A i, j \in N : p[i] = p[j] => i = j
    <3>1. \A i \in N : p[i] \in Nat /\ i \in Nat
      BY <1>1a, <1>8
    <3>2. ASSUME NEW i \in N, NEW j \in N, p[i] = p[j], i # j PROVE FALSE
      BY <3>1, <3>2, <1>8
    <3>3. QED
      BY <3>2
  <2>2. QED
    BY <1>8, <2>1 DEF Injection, IsInjective
<1>10. p \in Surjection(N, M)
  BY <1>1, <1>9, FS_Injection
<1>11. QED
  BY <1>0, <1>8, <1>9, <1>10 DEF p, N, Injection, IsInjective, Surjection
(***************************************************************************)
(* The invariant.  A device has one record, a record in use names a        *)
(* device, the records say what was asked for, and a traversal works off a *)
(* list of different devices.                                              *)
(***************************************************************************)
Distinct ==
    \A i, j \in Used : subscribers[i].device = subscribers[j].device => i = j

Named == \A i \in Used : subscribers[i].device # ZeroDevice

Wants(d, x) == \E i \in Used : subscribers[i].device = d /\ x \in subscribers[i].states

WantsAsAsked == \A d \in Device, x \in Definition : Wants(d, x) <=> <<d, x>> \in asked

Walk(q) ==
    /\ q \in Seq(Device)
    /\ q # <<>>
    /\ \A i, j \in DOMAIN q : q[i] # ZeroDevice /\ (q[i] = q[j] => i = j)

Walks == \A t \in Thread : call[t].step = "visiting" => Walk(call[t].todo)

SubInv == TypeOK /\ Distinct /\ Named /\ WantsAsAsked /\ Walks

LEMMA SlotsAreNaturals ==
    /\ \A i \in Slots : i \in Nat
    /\ IsFiniteSet(Slots) /\ Cardinality(Slots) = MaximumSubscribers
BY SubscriberAssumption, FS_Interval DEF Slots

LEMMA FreeIsFree ==
    /\ FreeRecord.used = FALSE /\ FreeRecord.device = ZeroDevice
    /\ FreeRecord.states = {} /\ FreeRecord \in SubscriberRecord
BY SubscriberAssumption DEF FreeRecord, SubscriberRecord

(* FindLocked() finds the record of a device, if it has one.               *)
LEMMA FindsTheRecord ==
    ASSUME Distinct, NEW d
    PROVE  /\ FindLocked(d) = {i \in Used : subscribers[i].device = d}
           /\ \A i, j \in FindLocked(d) : i = j
<1>1. \A i, j \in {i \in Used : subscribers[i].device = d} : i = j /\ i \in Nat
  BY SlotsAreNaturals DEF Distinct, Used
<1>2. \A i \in Nat : i <= i
  OBVIOUS
<1>3. QED
  BY <1>1, <1>2 DEF FindLocked, First

LEMMA QueryOfOne ==
    ASSUME Distinct, NEW d, NEW x
    PROVE  IsSubscribed(d, x) <=> Wants(d, x)
BY FindsTheRecord DEF IsSubscribed, Wants

LEMMA FreeIsFound ==
    ASSUME Slots \ Used # {}
    PROVE  First(Slots \ Used) # {}
<1>1. Slots \ Used \in SUBSET Nat
  BY SlotsAreNaturals
<1>2. QED
  BY <1>1, Least DEF First

(***************************************************************************)
(* The calls change one record, or none.                                   *)
(***************************************************************************)
Changes(i, r) ==
    /\ i \in Slots
    /\ r \in SubscriberRecord
    /\ ~r.used => r = FreeRecord
    /\ subscribers' = [subscribers EXCEPT ![i] = r]

LEMMA OneRecordChanges ==
    ASSUME TypeOK, NEW i, NEW r, Changes(i, r)
    PROVE  /\ subscribers'[i] = r
           /\ \A j \in Slots \ {i} : subscribers'[j] = subscribers[j]
           /\ Used' = (Used \ {i}) \cup (IF r.used THEN {i} ELSE {})
           /\ subscribers' \in [Slots -> SubscriberRecord]
           /\ \A j \in Slots \ Used' : subscribers'[j] = FreeRecord
<1>1. /\ subscribers'[i] = r
      /\ \A j \in Slots \ {i} : subscribers'[j] = subscribers[j]
      /\ subscribers' \in [Slots -> SubscriberRecord]
  BY DEF TypeOK, Changes
<1>2. Used' = (Used \ {i}) \cup (IF r.used THEN {i} ELSE {})
  BY <1>1 DEF Used, Changes
<1>3. \A j \in Slots \ Used' : subscribers'[j] = FreeRecord
  BY <1>1, <1>2 DEF Used, Changes, TypeOK
<1>4. QED
  BY <1>1, <1>2, <1>3

(* Subscribe() finds the device's record, or a free one for a device that  *)
(* has none.                                                               *)
LEMMA AddedChanges ==
    ASSUME SubInv, NEW t \in Thread, NEW d \in Device, NEW x \in Definition,
           Added(t, d, x)
    PROVE  /\ d # ZeroDevice
           /\ \E i, r : /\ Changes(i, r)
                       /\ r.used /\ r.device = d
                       /\ \/ /\ i \in Used /\ subscribers[i].device = d
                             /\ r.states = subscribers[i].states \cup {x}
                          \/ /\ i \notin Used /\ r.states = {x}
                             /\ \A j \in Used : subscribers[j].device # d
<1>1. PICK i \in FindOrCreateLocked(d) :
          subscribers' = [subscribers EXCEPT ![i] =
                [used |-> TRUE, device |-> d, states |-> @.states \cup {x}]]
  BY DEF Added
<1> DEFINE more == subscribers[i].states \cup {x}
           r == [used |-> TRUE, device |-> d, states |-> more]
<1>2. /\ d # ZeroDevice /\ i \in Slots
      /\ i \in Used => subscribers[i].device = d
      /\ i \notin Used => \A j \in Used : subscribers[j].device # d
  BY FindsTheRecord DEF FindOrCreateLocked, First, Used, SubInv
<1>3. i \notin Used => subscribers[i].states = {}
  BY <1>2, FreeIsFree DEF SubInv, TypeOK
<1>4. more \in SUBSET Definition
  BY <1>2 DEF SubInv, TypeOK, SubscriberRecord
<1>5. subscribers' = [subscribers EXCEPT ![i] = r]
  BY <1>1
<1> HIDE DEF more
<1>6. r \in SubscriberRecord /\ r.used /\ r.device = d /\ r.states = more
  BY <1>4 DEF SubscriberRecord
<1> HIDE DEF r
<1>7. Changes(i, r)
  BY <1>2, <1>5, <1>6 DEF Changes
<1>8. QED
  BY <1>2, <1>3, <1>6, <1>7 DEF more

LEMMA UnsubscribeChanges ==
    ASSUME SubInv, NEW t \in Thread, NEW d \in Device, NEW x \in Definition,
           Unsubscribe(t, d, x)
    PROVE  \E i \in Used : \E r : /\ Changes(i, r)
                                 /\ r.used /\ r.device = d
                                 /\ subscribers[i].device = d
                                 /\ r.states = subscribers[i].states \ {x}
<1>1. PICK i \in FindLocked(d) :
          subscribers' = [subscribers EXCEPT ![i].states = @ \ {x}]
  BY DEF Unsubscribe
<1> DEFINE less == subscribers[i].states \ {x}
           r == [used |-> TRUE, device |-> d, states |-> less]
<1>2. i \in Used /\ i \in Slots /\ subscribers[i].device = d /\ subscribers[i].used
  BY FindsTheRecord DEF Used, SubInv
<1>3. subscribers[i] \in SubscriberRecord
  BY <1>2 DEF SubInv, TypeOK
<1>4. subscribers' = [subscribers EXCEPT ![i] = r]
  <2> DEFINE old == subscribers[i].states
             yes == subscribers[i].used
  <2>1. subscribers[i] = [used |-> yes, device |-> d, states |-> old] /\ yes = TRUE
    BY <1>2, <1>3 DEF SubscriberRecord
  <2> HIDE DEF old, yes
  <2>2. \A z : [[used |-> yes, device |-> d, states |-> old] EXCEPT !.states = z]
                  = [used |-> yes, device |-> d, states |-> z]
    OBVIOUS
  <2>3. subscribers' = [subscribers EXCEPT ![i] = [subscribers[i] EXCEPT !.states = old \ {x}]]
    BY <1>1 DEF old
  <2>4. subscribers' = [subscribers EXCEPT ![i] =
            [[used |-> yes, device |-> d, states |-> old] EXCEPT !.states = old \ {x}]]
    BY <2>1, <2>3, Zenon
  <2>5. QED
    BY <2>1, <2>2, <2>4, Zenon DEF old
<1>5. less \in SUBSET Definition
  BY <1>3 DEF SubscriberRecord
<1> HIDE DEF less
<1>6. r \in SubscriberRecord /\ r.used /\ r.device = d /\ r.states = less
  BY <1>5 DEF SubscriberRecord
<1> HIDE DEF r
<1>7. Changes(i, r)
  BY <1>2, <1>4, <1>6 DEF Changes
<1>8. QED
  BY <1>2, <1>6, <1>7 DEF less

LEMMA RemoveChanges ==
    ASSUME SubInv, NEW t \in Thread, NEW d \in Device, Remove(t, d)
    PROVE  \E i \in Used : Changes(i, FreeRecord) /\ subscribers[i].device = d
<1>1. PICK i \in FindLocked(d) :
          subscribers' = [subscribers EXCEPT ![i] = Released(@)]
  BY DEF Remove
<1>2. i \in Used /\ i \in Slots /\ subscribers[i].device = d
  BY FindsTheRecord DEF Used, SubInv
<1>3. Changes(i, FreeRecord)
  BY <1>1, <1>2, FreeIsFree DEF Changes, Released
<1>4. QED
  BY <1>2, <1>3

(***************************************************************************)
(* The steps preserve the invariant.  First what the records say.          *)
(***************************************************************************)
Records == /\ subscribers \in [Slots -> SubscriberRecord]
           /\ \A i \in Slots \ Used : subscribers[i] = FreeRecord
           /\ asked \subseteq Device \X Definition
           /\ Distinct /\ Named /\ WantsAsAsked

LEMMA RecordsOfAdded ==
    ASSUME SubInv, NEW t \in Thread, NEW d \in Device, NEW x \in Definition,
           Added(t, d, x)
    PROVE  Records'
<1>1. PICK i, r :
          /\ Changes(i, r)
          /\ r.used /\ r.device = d
          /\ \/ /\ i \in Used /\ subscribers[i].device = d
                /\ r.states = subscribers[i].states \cup {x}
             \/ /\ i \notin Used /\ r.states = {x}
                /\ \A j \in Used : subscribers[j].device # d
  BY AddedChanges
<1>2. /\ subscribers'[i] = r
      /\ \A j \in Slots \ {i} : subscribers'[j] = subscribers[j]
      /\ Used' = (Used \ {i}) \cup {i}
      /\ subscribers' \in [Slots -> SubscriberRecord]
      /\ \A j \in Slots \ Used' : subscribers'[j] = FreeRecord
  BY <1>1, OneRecordChanges DEF SubInv
<1>3. d # ZeroDevice /\ asked' = asked \cup {<<d, x>>}
  BY AddedChanges DEF Added
<1>4. \A j \in Used : j \in Slots /\ (j # i => subscribers[j].device # d)
  BY <1>1 DEF SubInv, Distinct, Used
<1>5. Distinct'
  BY <1>1, <1>2, <1>4 DEF SubInv, Distinct
<1>6. Named'
  BY <1>1, <1>2, <1>3, <1>4 DEF SubInv, Named
<1>7. ASSUME NEW d2 \in Device, NEW x2 \in Definition
      PROVE  Wants(d2, x2)' <=> <<d2, x2>> \in asked'
  <2>1. Wants(d2, x2) <=> <<d2, x2>> \in asked
    BY DEF SubInv, WantsAsAsked
  <2>2. CASE d2 # d
    BY <1>1, <1>2, <1>3, <1>4, <2>1, <2>2 DEF Wants
  <2>3. CASE d2 = d
    <3>1. Wants(d, x2)' <=> x2 \in r.states
      BY <1>1, <1>2, <1>4 DEF Wants
    <3>2. x2 \in r.states <=> Wants(d, x2) \/ x2 = x
      BY <1>1, <1>4 DEF Wants
    <3>3. QED
      BY <1>3, <2>1, <2>3, <3>1, <3>2
  <2>4. QED
    BY <2>2, <2>3
<1>8. asked' \subseteq Device \X Definition
  BY <1>3 DEF SubInv, TypeOK
<1>9. QED
  BY <1>2, <1>5, <1>6, <1>7, <1>8 DEF Records, WantsAsAsked

LEMMA RecordsOfUnsubscribe ==
    ASSUME SubInv, NEW t \in Thread, NEW d \in Device, NEW x \in Definition,
           Unsubscribe(t, d, x)
    PROVE  Records'
<1>1. PICK i \in Used : \E r : /\ Changes(i, r)
                              /\ r.used /\ r.device = d
                              /\ subscribers[i].device = d
                              /\ r.states = subscribers[i].states \ {x}
  BY UnsubscribeChanges
<1>2. PICK r : /\ Changes(i, r)
               /\ r.used /\ r.device = d
               /\ subscribers[i].device = d
               /\ r.states = subscribers[i].states \ {x}
  BY <1>1
<1>3. /\ subscribers'[i] = r
      /\ \A j \in Slots \ {i} : subscribers'[j] = subscribers[j]
      /\ Used' = (Used \ {i}) \cup {i}
      /\ subscribers' \in [Slots -> SubscriberRecord]
      /\ \A j \in Slots \ Used' : subscribers'[j] = FreeRecord
  BY <1>2, OneRecordChanges DEF SubInv
<1>4. asked' = asked \ {<<d, x>>}
  BY DEF Unsubscribe
<1>5. \A j \in Used : j \in Slots /\ (j # i => subscribers[j].device # d)
  BY <1>2 DEF SubInv, Distinct, Used
<1>6. Distinct' /\ Named'
  BY <1>2, <1>3, <1>5 DEF SubInv, Distinct, Named
<1>7. ASSUME NEW d2 \in Device, NEW x2 \in Definition
      PROVE  Wants(d2, x2)' <=> <<d2, x2>> \in asked'
  <2>1. Wants(d2, x2) <=> <<d2, x2>> \in asked
    BY DEF SubInv, WantsAsAsked
  <2>2. CASE d2 # d
    BY <1>2, <1>3, <1>4, <1>5, <2>1, <2>2 DEF Wants
  <2>3. CASE d2 = d
    <3>1. Wants(d, x2)' <=> x2 \in r.states
      BY <1>2, <1>3, <1>5 DEF Wants
    <3>2. x2 \in r.states <=> Wants(d, x2) /\ x2 # x
      BY <1>2, <1>5 DEF Wants
    <3>3. QED
      BY <1>4, <2>1, <2>3, <3>1, <3>2
  <2>4. QED
    BY <2>2, <2>3
<1>8. asked' \subseteq Device \X Definition
  BY <1>4 DEF SubInv, TypeOK
<1>9. QED
  BY <1>3, <1>6, <1>7, <1>8 DEF Records, WantsAsAsked

LEMMA RecordsOfRemove ==
    ASSUME SubInv, NEW t \in Thread, NEW d \in Device, Remove(t, d)
    PROVE  Records'
<1>1. PICK i \in Used : Changes(i, FreeRecord) /\ subscribers[i].device = d
  BY RemoveChanges
<1>2. /\ \A j \in Slots \ {i} : subscribers'[j] = subscribers[j]
      /\ Used' = Used \ {i}
      /\ subscribers' \in [Slots -> SubscriberRecord]
      /\ \A j \in Slots \ Used' : subscribers'[j] = FreeRecord
  BY <1>1, OneRecordChanges, FreeIsFree DEF SubInv
<1>3. asked' = asked \ ({d} \X Definition)
  BY DEF Remove
<1>4. \A j \in Used : j \in Slots /\ (j # i => subscribers[j].device # d)
  BY <1>1 DEF SubInv, Distinct, Used
<1>5. Distinct' /\ Named'
  BY <1>2, <1>4 DEF SubInv, Distinct, Named
<1>6. ASSUME NEW d2 \in Device, NEW x2 \in Definition
      PROVE  Wants(d2, x2)' <=> <<d2, x2>> \in asked'
  <2>1. Wants(d2, x2) <=> <<d2, x2>> \in asked
    BY DEF SubInv, WantsAsAsked
  <2>2. Wants(d2, x2)' <=> Wants(d2, x2) /\ d2 # d
    BY <1>1, <1>2, <1>4 DEF Wants
  <2>3. <<d2, x2>> \in asked' <=> <<d2, x2>> \in asked /\ d2 # d
    BY <1>3
  <2>4. QED
    BY <2>1, <2>2, <2>3
<1>7. asked' \subseteq Device \X Definition
  BY <1>3 DEF SubInv, TypeOK
<1>8. QED
  BY <1>2, <1>5, <1>6, <1>7 DEF Records, WantsAsAsked

(***************************************************************************)
(* Then what the calls have still to do.                                   *)
(***************************************************************************)
LEMMA CallsAreTyped ==
    ASSUME SubInv, NEW t \in Thread, NEW c \in Call, Goto(t, c),
           c.step = "visiting" => Walk(c.todo)
    PROVE  call' \in [Thread -> Call] /\ Walks'
<1>1. call' = [call EXCEPT ![t] = c] /\ call \in [Thread -> Call]
  BY DEF Goto, SubInv, TypeOK
<1>2. call'[t] = c /\ \A u \in Thread \ {t} : call'[u] = call[u]
  BY <1>1
<1>3. call' \in [Thread -> Call]
  BY <1>1
<1>4. QED
  BY <1>2, <1>3 DEF SubInv, Walks

LEMMA StepsOfCalls ==
    /\ NoCall \in Call /\ NoCall.step = "idle"
    /\ \A k \in {"Added", "Removed", "DeviceRemoved", "CapacityExhausted"},
          d \in Device, x \in Definition \cup {"all"} :
          Note(k, d, x) \in Call /\ Note(k, d, x).step = "notify"
    /\ \A x \in Definition, q \in Seq(Device) :
          /\ Visiting(x, q) \in Call
          /\ Visiting(x, q).step = "visiting" /\ Visiting(x, q).todo = q
BY DEF Call, NoCall, Note, Visiting

LEMMA TraversalIsAWalk ==
    ASSUME SubInv, NEW x \in Definition
    PROVE  /\ Subscribers(x) \in Seq(Device)
           /\ Subscribers(x) # <<>> => Walk(Subscribers(x))
           /\ {Subscribers(x)[i] : i \in DOMAIN Subscribers(x)}
                 = {d \in Device : Wants(d, x)}
<1> DEFINE M == Matches(x)
           n == Cardinality(M)
           o == InOrder(M)
           q == Subscribers(x)
<1>1. M \in SUBSET Slots /\ M \in SUBSET Used /\ M \in SUBSET Nat /\ IsFiniteSet(M)
  <2>1. M \in SUBSET Slots /\ M \in SUBSET Used
    BY DEF Matches, Used
  <2>2. QED
    BY <2>1, SlotsAreNaturals, FS_Subset
<1>2. /\ o \in [1 .. n -> M]
      /\ \A i, j \in 1 .. n : o[i] = o[j] => i = j
      /\ \A i \in M : \E k \in 1 .. n : o[k] = i
      /\ n \in Nat
  BY <1>1, OrderExists
<1>3. q = [i \in 1 .. n |-> subscribers[o[i]].device]
  BY DEF Subscribers
<1>4. \A i \in M : subscribers[i].device \in Device \ {ZeroDevice}
  BY <1>1 DEF SubInv, TypeOK, SubscriberRecord, Named
<1> HIDE DEF n, o, q
<1>5. /\ q \in [1 .. n -> Device] /\ DOMAIN q = 1 .. n
      /\ \A i \in 1 .. n : q[i] = subscribers[o[i]].device /\ o[i] \in M
  BY <1>2, <1>3, <1>4
<1>6. q \in Seq(Device)
  BY <1>2, <1>5
<1>7. \A i, j \in DOMAIN q : q[i] # ZeroDevice /\ (q[i] = q[j] => i = j)
  BY <1>1, <1>2, <1>4, <1>5 DEF SubInv, Distinct
<1>8. {q[i] : i \in DOMAIN q} = {d \in Device : Wants(d, x)}
  <2>1. \A d : (\E i \in 1 .. n : q[i] = d) <=> \E i \in M : subscribers[i].device = d
    BY <1>2, <1>5
  <2>2. \A d : (\E i \in M : subscribers[i].device = d) <=> d \in Device /\ Wants(d, x)
    BY <1>4 DEF Wants, Matches
  <2>3. QED
    BY <1>5, <2>1, <2>2
<1>9. QED
  BY <1>6, <1>7, <1>8 DEF Walk, q

LEMMA RestOfAWalk ==
    ASSUME NEW q, Walk(q), Len(q) # 1
    PROVE  Walk(Tail(q))
<1>1. q \in Seq(Device) /\ q # <<>>
  BY DEF Walk
<1>2. /\ Tail(q) \in Seq(Device) /\ Len(Tail(q)) = Len(q) - 1 /\ Len(q) \in Nat
      /\ \A i \in 1 .. Len(q) - 1 : Tail(q)[i] = q[i + 1]
      /\ DOMAIN q = 1 .. Len(q) /\ DOMAIN Tail(q) = 1 .. Len(q) - 1
  BY <1>1
<1>3. Tail(q) # <<>>
  <2>1. Len(Tail(q)) # 0 /\ Len(<<>>) = 0
    BY <1>2
  <2>2. QED
    BY <2>1
<1>4. \A i \in DOMAIN Tail(q) : i \in Nat /\ i + 1 \in DOMAIN q /\ Tail(q)[i] = q[i + 1]
  BY <1>2
<1>5. \A i, j \in Nat : i + 1 = j + 1 => i = j
  OBVIOUS
<1>6. QED
  BY <1>2, <1>3, <1>4, <1>5 DEF Walk

LEMMA InvInit == Init => SubInv
<1> SUFFICES ASSUME Init PROVE SubInv
  OBVIOUS
<1>1. Used = {}
  BY FreeIsFree DEF Init, Used
<1>2. TypeOK
  BY <1>1, FreeIsFree, StepsOfCalls DEF Init, TypeOK
<1>3. Walks
  BY StepsOfCalls DEF Init, Walks
<1>4. WantsAsAsked
  BY <1>1 DEF Init, WantsAsAsked, Wants
<1>5. QED
  BY <1>1, <1>2, <1>3, <1>4 DEF SubInv, Distinct, Named

LEMMA InvStep == SubInv /\ [Next]_vars => SubInv'
<1> SUFFICES ASSUME SubInv, [Next]_vars PROVE SubInv'
  OBVIOUS
<1>1. ASSUME Records', NEW t \in Thread, NEW c \in Call, Goto(t, c),
             c.step = "visiting" => Walk(c.todo)
      PROVE  SubInv'
  BY <1>1, CallsAreTyped DEF SubInv, Records, TypeOK
<1>2. UNCHANGED <<subscribers, asked>> => Records'
  BY DEF Records, SubInv, TypeOK, Distinct, Named, WantsAsAsked, Wants, Used
<1>3. ASSUME NEW t \in Thread, NEW d \in Device, NEW x \in Definition, Subscribe(t, d, x)
      PROVE  SubInv'
  <2>1. CASE Added(t, d, x)
    BY <2>1, <1>1, RecordsOfAdded, StepsOfCalls DEF Added
  <2>2. CASE CapacityExhausted(t, d, x)
    BY <2>2, <1>1, <1>2, StepsOfCalls DEF CapacityExhausted
  <2>3. QED
    BY <1>3, <2>1, <2>2 DEF Subscribe
<1>4. ASSUME NEW t \in Thread, NEW d \in Device, NEW x \in Definition, Unsubscribe(t, d, x)
      PROVE  SubInv'
  BY <1>4, <1>1, RecordsOfUnsubscribe, StepsOfCalls DEF Unsubscribe
<1>5. ASSUME NEW t \in Thread, NEW d \in Device, Remove(t, d) PROVE SubInv'
  BY <1>5, <1>1, RecordsOfRemove, StepsOfCalls DEF Remove
<1>6. ASSUME NEW t \in Thread, NEW x \in Definition, ForEachSubscriber(t, x)
      PROVE  SubInv'
  <2> DEFINE q == Subscribers(x)
  <2>1. q \in Seq(Device) /\ Walk(q) /\ Goto(t, Visiting(x, q)) /\ UNCHANGED <<subscribers, asked>>
    BY <1>6, TraversalIsAWalk DEF ForEachSubscriber
  <2> HIDE DEF q
  <2>2. /\ Visiting(x, q) \in Call
        /\ Visiting(x, q).step = "visiting" /\ Visiting(x, q).todo = q
    BY <2>1, StepsOfCalls
  <2>3. QED
    BY <2>1, <2>2, <1>1, <1>2
<1>7. ASSUME NEW t \in Thread, Callback(t) PROVE SubInv'
  <2> DEFINE q == call[t].todo
             x == call[t].def
             left == Visiting(x, Tail(q))
  <2>1. /\ call[t] \in [step : {"visiting"}, def : Definition, todo : Seq(Device)]
        /\ Walk(q)
    <3>1. call[t] \in Call /\ call[t].step = "visiting"
      BY <1>7 DEF Callback, SubInv, TypeOK
    <3>2. call[t] \in [step : {"visiting"}, def : Definition, todo : Seq(Device)]
      BY <3>1 DEF Call, NoCall
    <3>3. QED
      BY <3>1, <3>2 DEF SubInv, Walks
  <2>2. [call[t] EXCEPT !.todo = Tail(@)] = left
    <3> DEFINE v == call[t].step
    <3>1. call[t] = [step |-> v, def |-> x, todo |-> q] /\ v = "visiting"
      BY <2>1
    <3> HIDE DEF v, x, q
    <3>2. \A z : [[step |-> v, def |-> x, todo |-> q] EXCEPT !.todo = z]
                    = [step |-> v, def |-> x, todo |-> z]
      OBVIOUS
    <3>3. [call[t] EXCEPT !.todo = Tail(q)] = [step |-> v, def |-> x, todo |-> Tail(q)]
      BY <3>1, <3>2, Zenon
    <3>4. QED
      BY <3>1, <3>3, Zenon DEF Visiting, q
  <2>3. Goto(t, IF Len(q) = 1 THEN NoCall ELSE left) /\ UNCHANGED <<subscribers, asked>>
    BY <1>7, <2>2 DEF Callback
  <2>4. ASSUME Len(q) # 1
        PROVE  left \in Call /\ left.step = "visiting" /\ left.todo = Tail(q) /\ Walk(Tail(q))
    <3>1. Walk(Tail(q))
      BY <2>1, <2>4, RestOfAWalk
    <3>2. Tail(q) \in Seq(Device) /\ x \in Definition
      BY <2>1, <3>1 DEF Walk
    <3>3. QED
      BY <3>1, <3>2, StepsOfCalls
  <2> HIDE DEF q, x, left
  <2>5. CASE Len(q) = 1
    BY <2>3, <2>5, <1>1, <1>2, StepsOfCalls
  <2>6. CASE Len(q) # 1
    BY <2>3, <2>4, <2>6, <1>1, <1>2
  <2>7. QED
    BY <2>5, <2>6
<1>8. ASSUME NEW t \in Thread, Notify(t) PROVE SubInv'
  BY <1>8, <1>1, <1>2, StepsOfCalls DEF Notify
<1>9. CASE UNCHANGED vars
  BY <1>9 DEF vars, SubInv, TypeOK, Distinct, Named, WantsAsAsked, Wants, Used, Walks
<1>10. QED
  BY <1>3, <1>4, <1>5, <1>6, <1>7, <1>8, <1>9 DEF Next

LEMMA InvHolds == Spec => []SubInv
BY InvInit, InvStep, PTL DEF Spec

(* The types hold, and a record that is not in use is a fresh one.         *)
THEOREM TypeCorrect == Spec => []TypeOK
<1>1. SubInv => TypeOK
  BY DEF SubInv
<1>2. QED
  BY <1>1, InvHolds, PTL

(* Whatever threads subscribe and remove, the three queries agree about    *)
(* the content, although they do not look at the same records.             *)
THEOREM QueriesNeverDisagree == Spec => []QueriesAgree
<1>1. SubInv => QueriesAgree
  <2> SUFFICES ASSUME SubInv, NEW x \in Definition
               PROVE  LET visited == {Subscribers(x)[i] : i \in DOMAIN Subscribers(x)}
                      IN /\ visited = {d \in Device : IsSubscribed(d, x)}
                         /\ HasSubscribers(x) <=> visited # {}
    BY DEF QueriesAgree
  <2>1. \A d \in Device : IsSubscribed(d, x) <=> Wants(d, x)
    BY QueryOfOne DEF SubInv
  <2>2. {Subscribers(x)[i] : i \in DOMAIN Subscribers(x)} = {d \in Device : Wants(d, x)}
    BY TraversalIsAWalk
  <2>3. \A i \in Used : subscribers[i].device \in Device
    BY DEF SubInv, TypeOK, SubscriberRecord, Used
  <2>4. HasSubscribers(x) <=> {d \in Device : Wants(d, x)} # {}
    BY <2>3 DEF HasSubscribers, Wants
  <2>5. QED
    BY <2>1, <2>2, <2>4
<1>2. QED
  BY <1>1, InvHolds, PTL

(* A traversal calls back for no device twice, and never for the all-zero  *)
(* one, whatever its callbacks and other threads do to the registry.       *)
THEOREM TraversalsVisitOnce == Spec => []VisitedOnce
<1>1. SubInv => VisitedOnce
  BY DEF SubInv, VisitedOnce, Walks, Walk
<1>2. QED
  BY <1>1, InvHolds, PTL

(* A device is subscribed to what it asked for and did not take back.      *)
THEOREM SubscriptionsAreAsAsked == Spec => []SubscribedAsAsked
<1>1. SubInv => SubscribedAsAsked
  <2> SUFFICES ASSUME SubInv
               PROVE  asked = {p \in Device \X Definition : IsSubscribed(p[1], p[2])}
    BY DEF SubscribedAsAsked
  <2>1. \A p \in Device \X Definition : IsSubscribed(p[1], p[2]) <=> p \in asked
    BY QueryOfOne DEF SubInv, WantsAsAsked
  <2>2. asked \subseteq Device \X Definition
    BY DEF SubInv, TypeOK
  <2>3. QED
    BY <2>1, <2>2
<1>2. QED
  BY <1>1, InvHolds, PTL

(* Only a registry in which every record belongs to another device turns a *)
(* named device away.                                                      *)
THEOREM RefusesOnlyWhenFull == Spec => RefusedOnlyWhenFull
<1> DEFINE Full(d) ==
        Cardinality({subscribers[i].device : i \in Used} \ {d}) = MaximumSubscribers
<1>1. ASSUME SubInv, NEW t \in Thread, NEW d \in Device \ {ZeroDevice}, NEW x \in Definition,
             CapacityExhausted(t, d, x)
      PROVE  Full(d)
  <2>1. FindLocked(d) = {} /\ First(Slots \ Used) = {}
    BY <1>1 DEF CapacityExhausted, FindOrCreateLocked
  <2>2. Used = Slots
    BY <2>1, FreeIsFound DEF Used
  <2>3. \A i \in Slots : subscribers[i].device # d
    BY <1>1, <2>1, <2>2, FindsTheRecord DEF SubInv
  <2> DEFINE f == [i \in Slots |-> subscribers[i].device]
             T == {subscribers[i].device : i \in Used}
  <2>4. f \in Surjection(Slots, T) /\ f \in Injection(Slots, T)
    BY <1>1, <2>2 DEF Surjection, Injection, IsInjective, SubInv, Distinct
  <2>5. T \ {d} = T
    BY <2>2, <2>3
  <2> HIDE DEF f, T
  <2>6. Cardinality(T) = MaximumSubscribers
    BY <2>4, FS_Surjection, SlotsAreNaturals
  <2>7. QED
    BY <2>5, <2>6 DEF T
<1> DEFINE Refusals == \A t \in Thread, d \in Device \ {ZeroDevice}, x \in Definition :
                           CapacityExhausted(t, d, x) => Full(d)
<1>2. SubInv => Refusals
  BY <1>1
<1>3. Spec => [][Refusals]_vars
  BY <1>2, InvHolds, PTL
<1>4. QED
  BY <1>3 DEF RefusedOnlyWhenFull

=================================================================================
