------------------------------ MODULE MCOutbox ------------------------------
(* A small instance of Outbox: both members want e-mail; polls p1 and p2    *)
(* may overlap in one worker, p3 runs in another.                            *)
EXTENDS Outbox, TLC

CONSTANTS w1, w2, p1, p2, p3, e1, u1, u2

ToAll       == (e1 :> {u1, u2})
Overlapping == (p1 :> w1) @@ (p2 :> w1) @@ (p3 :> w2)

\* Failing e-mail alone or with slow publishers, no e-mail, everything at once.
SomeFaults == {{"emailErrors"}, {"emailErrors", "slowPublishers"}, {"noEmail", "slowPublishers"},
               {"emailErrors", "dbErrors", "slowPublishers", "crashes"}}
=============================================================================
