---------------------------- MODULE MCPricingJobs ----------------------------
(* Small instances of PricingJobs.  w1 and w2 are worker processes, a1 and   *)
(* a2 administrators.  The sole job has one item; of the two jobs the second *)
(* prices a part of the first one again.                                     *)
EXTENDS PricingJobs, TLC

CONSTANTS w1, w2, a1, a2, j1, j2, i1, i2, i3, p1, p2

SoleJobOf  == (i1 :> j1)
SolePartOf == (i1 :> p1)
TwoJobOf  == (i1 :> j1) @@ (i2 :> j1) @@ (i3 :> j2)
TwoPartOf == (i1 :> p1) @@ (i2 :> p2) @@ (i3 :> p1)

Symmetry == Permutations({w1, w2}) \cup Permutations({a1, a2})
=============================================================================
