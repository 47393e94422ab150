---------------------------- MODULE MCIdempotency ----------------------------
(* r1 and r2 repeat one command under k1, r3 uses k1 for another body, r4    *)
(* has no key.                                                               *)
EXTENDS Idempotency, TLC

CONSTANTS r1, r2, r3, r4, k1, b1, b2

Keys   == (r1 :> k1) @@ (r2 :> k1) @@ (r3 :> k1) @@ (r4 :> NoKey)
Bodies == (r1 :> b1) @@ (r2 :> b1) @@ (r3 :> b2) @@ (r4 :> b1)

\* With every fault and with none.
AllOrNone == {{}, {"dbErrors", "slowCommands"}}
=============================================================================
