------------------------------ MODULE Delivery ------------------------------
(***************************************************************************)
(* What the inbox pattern of ADR-011 promises the two ends of a queue: the  *)
(* effect of an event happens only after a producer offered the event, and  *)
(* at most once, however often the broker delivers it.                      *)
(***************************************************************************)
EXTENDS Naturals

CONSTANT Events

VARIABLES
    offered,  \* events for which publish() was called
    applied   \* applied[e]: how often the effect of e was committed

Init ==
    /\ offered = {}
    /\ applied = [e \in Events |-> 0]

Offer(e) ==
    /\ offered' = offered \union {e}
    /\ UNCHANGED applied

Apply(e) ==
    /\ e \in offered
    /\ applied[e] = 0
    /\ applied' = [applied EXCEPT ![e] = 1]
    /\ UNCHANGED offered

Next == \E e \in Events : Offer(e) \/ Apply(e)

Spec == Init /\ [][Next]_<<offered, applied>>
=============================================================================
