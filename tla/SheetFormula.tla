---------------------------- MODULE SheetFormula ----------------------------
(* What the rows of a priced sheet cost (bulk-pricing-formula.ts, the parts   *)
(* of bulk-pricing-service.ts that call it, and the profit the web client     *)
(* computes from its own copy of the formula).  Money is in cents, fixed      *)
(* factors and percentages in hundredths; the code's floating-point numbers   *)
(* are exact fractions here, rounded where the code rounds them.              *)
(* Kinds treated alike are one: "EBAY" for eBay and promotion fees, "FEE" for *)
(* Payoneer, export and buffer, "FIXED" for fixed charges; the type of a      *)
(* component is the default of its kind.                                     *)
(* The context of a formula (shipping, tax, a custom base) is always empty:   *)
(* all bases that start from the price are "PRICE", and "CUSTOM" has no       *)
(* amount.  The result's limit of 100 million is out of the model's range.    *)
EXTENDS Integers, SequencesExt

CONSTANTS
    Row,
    Costs,          \* what the rows of a sheet may cost: a set of functions
    Submissions,    \* the formulas users send: a version and components
    Edits           \* prices users type

(* formulaSchema: what a component may be.                                   *)
Parts == [kind : {"EBAY", "FEE", "CUSTOM", "FIXED", "MARGIN", "MARKUP"},
          op : {"ADD", "SUBTRACT", "MULTIPLY", "DIVIDE"}, value : Nat,
          base : {"unset", "PRICE", "COST", "TOTAL", "PAYOUT", "CUSTOM"}]

SheetFormulaAssumption ==
    /\ Row # {} /\ Edits \subseteq Nat \ {0}
    /\ \A costs \in Costs : costs \in [Row -> Nat]
    /\ \A s \in Submissions : s.version \in 1 .. 2 /\ s.components \in Seq(Parts)

VARIABLES
    sheet,      \* the submission, the costs, and whether the job was created
    item        \* BulkPricingJobItem: status ("PRICED" is COMPLETED or NO_MATCHES),
                \* sellingPrice and marginPercent

vars == <<sheet, item>>

-----------------------------------------------------------------------------
(* rounded: Math.round rounds halves up.                                     *)
Round(n, d) == (2 * n + d) \div (2 * d)

Percentages == {"EBAY", "FEE", "CUSTOM", "MARGIN", "MARKUP"}

(* defaultSemantics, and what a legacy formula keeps of its sequence.         *)
DefaultBase(kind, legacy) ==
    CASE kind = "MARGIN" -> "PRICE" [] kind = "MARKUP" -> "COST" [] kind = "FIXED" -> "TOTAL"
      [] kind = "CUSTOM" /\ legacy -> "TOTAL" [] OTHER -> "PRICE"

InSequenceIfCustom(c) == c.kind = "CUSTOM"    \* mutant: factors become fees
InSequence(c) == c.kind \in Percentages \ {"MARGIN", "MARKUP"} /\ c.op \in {"MULTIPLY", "DIVIDE"}

(* normalizeBulkPricingFormula.                                              *)
Normal(s) ==
    LET legacy == s.version = 1
        Base(c) == IF c.base # "unset" THEN c.base
                   ELSE IF legacy /\ InSequence(c) THEN "TOTAL" ELSE DefaultBase(c.kind, legacy)
    IN [i \in DOMAIN s.components |-> [s.components[i] EXCEPT !.base = Base(s.components[i])]]

Sequential(c) == c.kind = "FIXED" \/ (c.kind \in {"EBAY", "FEE", "CUSTOM"} /\ c.base = "TOTAL")
IsFee(c) == c.kind \in {"EBAY", "FEE", "CUSTOM"} /\ c.base # "TOTAL"

(* What buildCalculationPlan and the normalization refuse at any cost.       *)
Wrong(c) ==
    \/ c.op = "DIVIDE" /\ c.value = 0
    \/ c.kind = "MARGIN" /\ (c.op # "ADD" \/ c.base # "PRICE" \/ c.value >= 100)
    \/ c.kind = "MARKUP" /\ (c.op # "ADD" \/ c.base \notin {"COST", "TOTAL"})
    \/ IsFee(c) /\ \/ c.op \notin {"ADD", "SUBTRACT"}
                   \/ c.base = "CUSTOM"
                   \/ c.kind = "EBAY" /\ c.base = "PAYOUT"

(* applyOperation on the total so far.                                       *)
Applied(total, c) ==
    LET amount == IF c.kind = "FIXED" THEN c.value ELSE Round(total * c.value, 100) IN
    CASE c.op = "ADD" -> total + amount
      [] c.op = "SUBTRACT" -> total - amount
      [] c.op = "MULTIPLY" -> Round(total * c.value, 100)
      [] c.op = "DIVIDE" -> Round(total * 100, c.value)

(* The loop of buildCalculationPlan: a total that falls below zero ends it.   *)
Component(sum, c) ==
    CASE sum.total < 0 -> sum
      [] sum.total >= 0 /\ Sequential(c) -> [sum EXCEPT !.total = Applied(sum.total, c)]
      [] sum.total >= 0 /\ c.kind = "MARKUP" ->
            LET base == IF c.base = "COST" THEN sum.cost ELSE sum.total
            IN [sum EXCEPT !.markup = @ + Round(base * c.value, 100)]
      [] OTHER -> sum

Sums(cost, f) == FoldLeft(Component, [cost |-> cost, total |-> cost, markup |-> 0], f)

(* A fee is affine in the price; fractions are of ten thousand.              *)
Unit == 10000
Times(base, c) ==
    LET rate == IF c.op = "ADD" THEN c.value ELSE -c.value
    IN [price |-> (base.price * rate) \div 100, const |-> (base.const * rate) \div 100]

NoFee == [price |-> 0, const |-> 0]
OfPrice == [price |-> Unit, const |-> 0]
OfCost(cost) == [price |-> 0, const |-> Unit * cost]

OwnFee(c) == IsFee(c) /\ c.base # "PAYOUT"
PayoutFee(c) == IsFee(c) /\ c.base = "PAYOUT"
EbayFee(c) == OwnFee(c) /\ c.kind = "EBAY"
Fee(cost, c) == Times(IF c.base = "COST" THEN OfCost(cost) ELSE OfPrice, c)

(* Its reduce over amounts, of which every component of a formula has one;     *)
(* what it filters out has none.                                             *)
Total(amounts) == FoldLeft(LAMBDA sum, amount : sum + amount, 0, amounts)
AllOf(fees) == [price |-> Total([i \in DOMAIN fees |-> fees[i].price]),
                const |-> Total([i \in DOMAIN fees |-> fees[i].const])]

Payout(cost, f) ==
    LET ebay == AllOf([i \in DOMAIN f |-> IF EbayFee(f[i]) THEN Fee(cost, f[i]) ELSE NoFee])
    IN [price |-> Unit - ebay.price, const |-> -ebay.const]

Fees(cost, f) ==
    LET payout == Payout(cost, f)
    IN [i \in DOMAIN f |-> IF OwnFee(f[i]) THEN Fee(cost, f[i])
                           ELSE IF PayoutFee(f[i]) THEN Times(payout, f[i]) ELSE NoFee]

MarginRate(f) == Total([i \in DOMAIN f |-> IF f[i].kind = "MARGIN" THEN f[i].value ELSE 0])

(* calculateSellingPrice: what is left of the price pays for everything.     *)
Left(cost, f) == Unit - AllOf(Fees(cost, f)).price - 100 * MarginRate(f)

Refused(cost, f) ==
    \/ \E i \in DOMAIN f : Wrong(f[i])
    \/ Sums(cost, f).total < 0
    \/ Left(cost, f) <= 0

Needed(cost, f) ==
    LET sums == Sums(cost, f) IN Unit * (sums.total + sums.markup) + AllOf(Fees(cost, f)).const

Price(cost, f) == Max({0, Round(Needed(cost, f), Left(cost, f))})

(* calculateNetProfit and calculateNetMargin at any price.                   *)
FeesAt(price, fees) ==
    Total([i \in DOMAIN fees |-> Round(fees[i].price * price + fees[i].const, Unit)])
NetProfit(price, cost, f) == price - Sums(cost, f).total - FeesAt(price, Fees(cost, f))

InPercent(profit, price) == IF price = 0 THEN "none" ELSE Round(Unit * profit, price)
Margin(price, cost, f) == InPercent(NetProfit(price, cost, f), price)

TargetProfit(price, cost, f) == Round(price * MarginRate(f), 100) + Sums(cost, f).markup

-----------------------------------------------------------------------------
(* The web client's copy: normalizePricingFormula says it another way, and    *)
(* calculateFormulaProfitAtPrice starts from amounts in cents.               *)
ShownFormula(s) ==
    LET legacy == s.version = 1
        Keeps(c) == /\ legacy /\ c.kind \notin {"MARGIN", "MARKUP"}
                    /\ c.kind = "CUSTOM" \/ c.op \in {"MULTIPLY", "DIVIDE"}
        Base(c) == IF c.base # "unset" THEN c.base
                   ELSE IF Keeps(c) THEN "TOTAL" ELSE DefaultBase(c.kind, FALSE)
    IN [i \in DOMAIN s.components |-> [s.components[i] EXCEPT !.base = Base(s.components[i])]]

ShownFee(base, c) == Round(base * (IF c.op = "ADD" THEN c.value ELSE -c.value), 100)

ShownProfit(price, cost, f) ==
    LET Own(i) == ShownFee(IF f[i].base = "COST" THEN cost ELSE price, f[i])
        ebay == Total([i \in DOMAIN f |-> IF EbayFee(f[i]) THEN Own(i) ELSE 0])
        fees == [i \in DOMAIN f |-> IF OwnFee(f[i]) THEN Own(i)
                                    ELSE IF PayoutFee(f[i]) THEN ShownFee(price - ebay, f[i]) ELSE 0]
    IN price - Sums(cost, f).total - Total(fees)

-----------------------------------------------------------------------------
Formula == Normal(sheet.submission)
Blank == [status |-> "none", price |-> 0, margin |-> "none", typed |-> FALSE]

Init ==
    /\ \E s \in Submissions, costs \in Costs :
         sheet = [submission |-> s, costs |-> costs, status |-> "sent"]
    /\ item = [r \in Row |-> Blank]

(* createBulkPricingJob tries the formula on the row that costs least.       *)
HighestCost == Max({sheet.costs[r] : r \in Row})   \* mutant: the row that costs most
TriedCost == Min({sheet.costs[r] : r \in Row})

CreateJob ==
    /\ sheet.status = "sent"
    /\ IF Refused(TriedCost, Formula)
       THEN sheet' = [sheet EXCEPT !.status = "refused"] /\ UNCHANGED item
       ELSE /\ sheet' = [sheet EXCEPT !.status = "created"]
            /\ item' = [r \in Row |-> [Blank EXCEPT !.status = "QUEUED"]]

Priced(r, status, price, typed) ==
    item' = [item EXCEPT ![r] = [status |-> status, price |-> price, typed |-> typed,
                                 margin |-> Margin(price, sheet.costs[r], Formula)]]

(* processBulkItem, after a search that found competitors or none, writes     *)
(* what the formula says over what the user typed.  Searches that fail are    *)
(* BulkPricing's.                                                            *)
ProcessItem(r) ==
    LET cost == sheet.costs[r] IN
    /\ item[r].status = "QUEUED"
    /\ IF Refused(cost, Formula)
       THEN item' = [item EXCEPT ![r].status = "FAILED"]
       ELSE Priced(r, "PRICED", Price(cost, Formula), FALSE)
    /\ UNCHANGED sheet

(* updateBulkPricingItemSellingPrice, at a price and back to the formula's;   *)
(* a formula that the row's cost breaks is an error.                         *)
TypePrice(r, price) ==
    /\ item[r].status # "none" /\ ~Refused(sheet.costs[r], Formula)
    /\ Priced(r, item[r].status, price, TRUE)
    /\ UNCHANGED sheet

ResetPrice(r) ==
    /\ item[r].status # "none" /\ ~Refused(sheet.costs[r], Formula)
    /\ Priced(r, item[r].status, Price(sheet.costs[r], Formula), FALSE)
    /\ UNCHANGED sheet

Next ==
    \/ CreateJob
    \/ \E r \in Row :
        \/ ProcessItem(r) \/ ResetPrice(r)
        \/ \E price \in Edits : TypePrice(r, price)

Spec == Init /\ [][Next]_vars

-----------------------------------------------------------------------------
\* A sheet is accepted or refused, and a row has no price below zero.
TypeOK ==
    /\ sheet.status \in {"sent", "refused", "created"}
    /\ \A r \in Row :
        /\ item[r].status \in {"none", "QUEUED", "PRICED", "FAILED"}
        /\ item[r].price \in Nat /\ item[r].typed \in BOOLEAN

(* Half a cent for each number that is rounded: the price, the fees and the   *)
(* target.                                                                   *)
Close(a, b, cost, f) ==
    2 * Unit * (a - b)
        <= Left(cost, f) + Unit * (Cardinality({i \in DOMAIN f : IsFee(f[i])}) + 1)

(* A formula whose charges take at most all of what it has summed up.        *)
Sane(f) == \A i \in DOMAIN f : Sequential(f[i]) /\ f[i].kind # "FIXED" /\ f[i].op = "SUBTRACT"
                                  => f[i].value <= 100

\* A formula that prices the cheapest row of a sheet prices every row, and a price it sets
\* brings the profit it aims at, up to rounding; only a price of zero may bring more.
RowsEarnTheirTarget ==
    \A r \in Row :
        LET cost == sheet.costs[r]
            profit == NetProfit(item[r].price, cost, Formula)
            target == TargetProfit(item[r].price, cost, Formula)
        IN /\ item[r].status = "FAILED" => ~Sane(Formula)
           /\ item[r].status = "PRICED" /\ ~item[r].typed =>
                /\ Close(target, profit, cost, Formula)
                /\ item[r].price > 0 => Close(profit, target, cost, Formula)

(* A cent for each fee on eBay's payout, and its share of the half cent that  *)
(* each of eBay's fees may take from or add to the payout.                   *)
Slack(f) ==
    LET ebays == Cardinality({i \in DOMAIN f : EbayFee(f[i])})
    IN Total([i \in DOMAIN f |->
                IF PayoutFee(f[i]) THEN 1 + (ebays * f[i].value) \div 200 ELSE 0])

\* The web client reads a submission as the server does, and the margin it shows is the
\* stored one, up to what rounding eBay's fees changes in the fees on its payout.
ShownIsStored ==
    /\ ShownFormula(sheet.submission) = Formula
    /\ \A r \in Row : item[r].status = "PRICED" =>
        LET shown == ShownProfit(item[r].price, sheet.costs[r], Formula)
        IN \E cents \in -Slack(Formula) .. Slack(Formula) :
              item[r].margin = InPercent(shown + cents, item[r].price)
=============================================================================
