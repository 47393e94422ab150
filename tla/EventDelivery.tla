---------------------------- MODULE EventDelivery ----------------------------
(* What the transactional outbox promises of an event, for whoever relies on *)
(* it: an event is acknowledged only after it was delivered, it may be       *)
(* delivered again at any time, and an acknowledgement is final.             *)
CONSTANT Event

VARIABLES phase, delivered

Init == phase = [e \in Event |-> "none"] /\ delivered = {}

Enqueue(e) ==
    /\ phase[e] = "none"
    /\ phase' = [phase EXCEPT ![e] = "pending"]
    /\ UNCHANGED delivered

Deliver(e) ==
    /\ phase[e] # "none"
    /\ delivered' = delivered \cup {e}
    /\ UNCHANGED phase

Acknowledge(e) ==
    /\ phase[e] = "pending"
    /\ e \in delivered
    /\ phase' = [phase EXCEPT ![e] = "acknowledged"]
    /\ UNCHANGED delivered

Next == \E e \in Event : Enqueue(e) \/ Deliver(e) \/ Acknowledge(e)

Spec == Init /\ [][Next]_<<phase, delivered>>
=============================================================================
