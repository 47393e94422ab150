---------------------------- MODULE MCBulkPricing ----------------------------
(* Small instances of BulkPricing: j1 has two items, j2 has one.            *)
EXTENDS BulkPricing, TLC

CONSTANTS w1, w2, p1, j1, j2, i1, i2, i3

Sheets == (i1 :> j1) @@ (i2 :> j1) @@ (i3 :> j2)

Of(processes, jobs, hazards) == [processes |-> processes, jobs |-> jobs, hazards |-> hazards]

\* A long sheet with a crash, and with pauses; a short one with both; slow and meddled
\* runs; failing statements in slow and in paused runs; two sheets requested together.
Seven == {Of({w1, w2}, {j1}, {"crashes"}),
          Of({w1, p1}, {j1}, {"rateLimits"}),
          Of({w1, w2, p1}, {j2}, {"crashes", "rateLimits"}),
          Of({w1, p1}, {j2}, {"rateLimits", "staleResumes", "cancels", "slowItems", "slowClaims"}),
          Of({w1, w2}, {j2}, {"slowItems", "dbErrors"}),
          Of({w1, p1}, {j2}, {"rateLimits", "dbErrors"}),
          Of({w1}, {j1, j2}, {"rateLimits"})}

\* One sheet that is paused.
Paused == {Of({w1, p1}, {j2}, {"rateLimits"})}
=============================================================================
