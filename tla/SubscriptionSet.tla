---------------------------- MODULE SubscriptionSet ----------------------------
(***************************************************************************)
(* What a bounded registry of subscriptions promises the threads that call *)
(* it: it behaves like a set of at most Capacity items, every call takes   *)
(* effect at one instant, and every answer is right at that instant.       *)
(***************************************************************************)
EXTENDS Naturals, FiniteSets

CONSTANTS
    Item,      \* What can be subscribed to.
    Question,  \* Sets of items: is one of these in the registry?
    Capacity,  \* How many items fit.
    Client     \* Threads that call the registry.

VARIABLES
    members,   \* The items in the registry.
    answer     \* Per client, what its last call was and what it returned.


NoAnswer == [call |-> "none"]
(* A call is about one item, or about a set of them.                       *)
Answer(name, about, result) == [call |-> name, about |-> about, result |-> result]

Init ==
    /\ members = {}
    /\ answer = [c \in Client |-> NoAnswer]

Return(c, a) == answer' = [answer EXCEPT ![c] = a]

Keep(c, i) ==
    /\ \/ i \in members
       \/ Cardinality(members) < Capacity
    /\ members' = members \cup {i}
    /\ Return(c, Answer("Subscribe", {i}, TRUE))

Refuse(c, i) ==
    /\ i \notin members
    /\ Cardinality(members) = Capacity
    /\ Return(c, Answer("Subscribe", {i}, FALSE))
    /\ UNCHANGED members

Drop(c, i) ==
    /\ members' = members \ {i}
    /\ Return(c, Answer("Unsubscribe", {i}, i \in members))

Ask(c, q) ==
    /\ Return(c, Answer("IsSubscribed", q, members \cap q # {}))
    /\ UNCHANGED members

Next ==
    \E c \in Client :
        \/ \E i \in Item : Keep(c, i) \/ Refuse(c, i) \/ Drop(c, i)
        \/ \E q \in Question : Ask(c, q)

Spec == Init /\ [][Next]_<<members, answer>>
================================================================================
