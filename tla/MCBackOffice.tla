----------------------------- MODULE MCBackOffice -----------------------------
(* Two requests, workers, refreshes or tabs in each component.                 *)
EXTENDS BackOffice, TLC

CONSTANTS a1, a2,   \* requests, workers, keys of a refresh or tabs
          d1, d2,   \* vehicle applications, seller accounts, rows to delete or calls
          u1, u2,   \* users, the first of whom founded the organization
          k1        \* a recovery code, or an API process

Symmetry == Permutations(Actor) \cup Permutations(Data)

Invited == u1 :> 0 @@ u2 :> 2

SetsOfUses == {{"register", "links"}, {"links", "login"}, {"login", "sessions"},
               {"login", "typos"}, {"login", "factor"}, {"login", "setup"}}

(* Components of a formula, whose percentages add up to more than the price    *)
(* in some sequences; an unset base is the default.                            *)
Part(name, op, value, base) == [kind |-> name, op |-> op, value |-> value, base |-> base]
FormulaParts == {
    Part("EBAY", "ADD", 13, "PRICE"), Part("FEE", "ADD", 5, "PAYOUT"),
    Part("FEE", "SUBTRACT", 40, "COST"), Part("FEE", "MULTIPLY", 90, "unset"),
    Part("CUSTOM", "ADD", 7, "unset"), Part("CUSTOM", "SUBTRACT", 150, "TOTAL"),
    Part("FIXED", "ADD", 40, "unset"), Part("FIXED", "SUBTRACT", 3, "unset"),
    Part("FIXED", "DIVIDE", 300, "TOTAL"), Part("MARGIN", "ADD", 25, "unset"),
    Part("MARKUP", "ADD", 33, "TOTAL")}
Formula == [version : 1 .. 2, components : [1 .. 3 -> FormulaParts]]
CostsOfRows == {<<250, 2>>}

(* Two tabs that only share the session, or one of them with two requests.     *)
TabsAndCalls ==
    [tabs : {Actor}, calls : {{}}] \cup [tabs : {{a} : a \in Actor}, calls : {Data}]
=============================================================================
