---------------------------- MODULE MCFitmentJobs ----------------------------
(* A small instance of FitmentJobs: two items in one job or in two, a worker *)
(* that may die and one that stays, one reviewer and one administrator.      *)
EXTENDS FitmentJobs

CONSTANTS w1, w2, j1, j2, i1, i2, r1, a1

Some == {{"reviews", "crashes"}, {"moreJobs", "replays", "crashes"}, {"reviews", "replays"},
         {"dbErrors", "crashes", "replays"}, {"slowHeartbeats"}}
=============================================================================
