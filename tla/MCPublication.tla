---------------------------- MODULE MCPublication ----------------------------
(* A small instance of Publication: two versions of one draft, a worker that *)
(* may die and one that stays, a user and a visitor, two operations.          *)
EXTENDS Publication

CONSTANTS w1, w2, u1, u2, o1, o2

Mixtures == {{"operations", "outsiders", "callErrors"}, {"crashes"},
             {"hastyEdits", "operations", "brief"}, {"crashes", "operations", "brief"},
             {"overlaps", "callErrors"}, {"overlaps", "operations", "brief"}}
Failures == {{"callErrors"}}
=============================================================================
