---------------------------- MODULE EventChannel ----------------------------
(***************************************************************************)
(* What the delivery event outbox promises to those who record events and   *)
(* to the endpoint: an event that was accepted is kept until the endpoint    *)
(* has received it, until it is buried (in the dead letter directory, for an *)
(* operator), or until it is older than the retention; it may be received    *)
(* more than once.  Recording is refused only when the outbox is full.       *)
(***************************************************************************)
EXTENDS Naturals, FiniteSets

CONSTANTS Events, MaxPending

VARIABLES
    kept,       \* the events in the outbox
    aged,       \* those of them that are older than the retention
    received,   \* the events that the endpoint has received
    buried,     \* the events that were put in the dead letter directory
    told        \* told[e]: the answer to the recording of e

cvars == <<kept, aged, received, buried, told>>

Init ==
    /\ kept = {} /\ aged = {} /\ received = {} /\ buried = {}
    /\ told = [e \in Events |-> "new"]

Drop(S) == kept' = kept \ S /\ aged' = aged \ S

Accept(e) ==
    /\ told[e] = "new" /\ told' = [told EXCEPT ![e] = "accepted"]
    /\ kept' = kept \cup {e} /\ UNCHANGED <<aged, received, buried>>

Refuse(e) ==
    /\ told[e] = "new" /\ Cardinality(kept) >= MaxPending
    /\ told' = [told EXCEPT ![e] = "refused"] /\ UNCHANGED <<kept, aged, received, buried>>

(* A recording that failed may have left the event behind or not. *)
Fail(e) ==
    /\ told[e] = "new" /\ told' = [told EXCEPT ![e] = "failed"]
    /\ kept' \in {kept, kept \cup {e}} /\ UNCHANGED <<aged, received, buried>>

Receive(e) == e \in kept /\ received' = received \cup {e} /\ UNCHANGED <<kept, aged, buried, told>>

Forget(S) == S \subseteq kept \cap (received \cup buried) /\ Drop(S) /\ UNCHANGED <<received, buried, told>>

Bury(S) ==
    /\ S \subseteq kept /\ buried' = buried \cup S
    /\ Drop(S) \/ UNCHANGED <<kept, aged>>
    /\ UNCHANGED <<received, told>>

Expire(S) == S \subseteq aged /\ Drop(S) /\ UNCHANGED <<received, buried, told>>

(* Time passes, or the event is written again after an attempt. *)
Age(e) == e \in kept /\ aged' \in {aged \cup {e}, aged \ {e}} /\ UNCHANGED <<kept, received, buried, told>>

Next ==
    \/ \E e \in Events : Accept(e) \/ Refuse(e) \/ Fail(e) \/ Receive(e) \/ Age(e)
    \/ \E S \in SUBSET Events : Forget(S) \/ Bury(S) \/ Expire(S)

Spec == Init /\ [][Next]_cvars
=============================================================================
