------------------------------ MODULE TaxEngine ------------------------------
(***************************************************************************)
(* The calculators of internal/engine: VAT with its surcharges, personal   *)
(* income tax, corporate income tax, stamp tax and the tax adjustments.    *)
(*                                                                         *)
(* Amounts are integers, in cents; the thresholds of the code, in yuan,    *)
(* are multiplied by YUAN.  A rate is a fraction n / d.  What float64      *)
(* loses before round2 is not modelled: every product is exact and then    *)
(* rounded to the cent as math.Round does, half away from zero.            *)
(***************************************************************************)
EXTENDS Integers

YUAN == 100

Smaller(a, b) == IF a <= b THEN a ELSE b
AtLeast0(x)   == IF x < 0 THEN 0 ELSE x

\* round2(x * n / d) for x >= 0.  The quotient is taken first, which changes
\* nothing and keeps the products small.
ShareOf(x, n, d) == (x \div d) * n + ((2 * (x % d) * n + d) \div (2 * d))

\* round2 of a share of any amount.
Share(x, n, d) == IF x >= 0 THEN ShareOf(x, n, d) ELSE -ShareOf(-x, n, d)

-----------------------------------------------------------------------------
(* VAT *)

UrbanConstructionRate(loc) ==
    CASE loc = "city" -> 7 [] loc = "town" -> 5 [] OTHER -> 1

Surcharges(vat, urban) == Share(vat, urban, 100) + Share(vat, 3, 100) + Share(vat, 2, 100)

\* An input is [type, output, input, sales, levy], the levy rate in percent.
RefusedVAT(in) ==
    \/ in.output < 0 \/ in.input < 0 \/ in.sales < 0
    \/ in.type \notin {"general", "small_scale"}

LevyRate(rate) == IF rate <= 0 THEN 3 ELSE rate

VATPayable(in) ==
    AtLeast0(IF in.type = "general"
             THEN in.output - in.input
             ELSE Share(in.sales, LevyRate(in.levy), 100))

CalculateWithLocation(in, loc) ==
    LET vat == VATPayable(in) IN
    [payable |-> vat, total |-> vat + Surcharges(vat, UrbanConstructionRate(loc))]

\* Sales of up to 100,000 a month on average are exempt.
CalcSmallScaleVAT(sales, levy, months) ==
    LET n == IF months <= 0 THEN 3 ELSE months IN
    IF sales <= 100000 * YUAN * n THEN 0 ELSE Share(sales, LevyRate(levy), 100)

-----------------------------------------------------------------------------
(* Personal income tax *)

Bracket(upTo, rate, quick) == [upTo |-> upTo * YUAN, rate |-> rate, quick |-> quick * YUAN]

LowerBrackets ==
    << Bracket( 36000,  3,     0), Bracket(144000, 10,  2520),
       Bracket(300000, 20, 16920), Bracket(420000, 25, 31920),
       Bracket(660000, 30, 52920), Bracket(960000, 35, 85920) >>
TopBracket == [rate |-> 45, quick |-> 181920 * YUAN]

\* Mutant: the quick deduction of the top bracket is that of the one below.
PitBracketOldTop(income) ==
    IF income <= LowerBrackets[6].upTo
    THEN LowerBrackets[CHOOSE k \in 1..6 :
             income <= LowerBrackets[k].upTo /\ \A j \in 1..(k - 1) : income > LowerBrackets[j].upTo]
    ELSE [rate |-> 45, quick |-> LowerBrackets[6].quick]

\* The first bracket the income does not exceed.
PitBracket(income) ==
    IF income <= LowerBrackets[6].upTo
    THEN LowerBrackets[CHOOSE k \in 1..6 :
             income <= LowerBrackets[k].upTo /\ \A j \in 1..(k - 1) : income > LowerBrackets[j].upTo]
    ELSE TopBracket

AccumulatedTax(income) ==
    LET b == PitBracket(income) IN AtLeast0(Share(income, b.rate, 100) - b.quick)

\* CalcMonthlySpecialAdditional.  Support of several elders adds their number,
\* not an amount per head: the code caps the count at 1500.
CalcMonthlySpecialAdditional(items) ==
    YUAN * ( items.children * 2000
           + (IF items.education THEN 400 ELSE 0)
           + (IF items.loan THEN 1000 ELSE 0)
           + (CASE items.rent = 1 -> 1500 [] items.rent = 2 -> 1100
                [] items.rent = 3 -> 800 [] OTHER -> 0)
           + (CASE items.elders = 1 -> 3000 [] items.elders > 1 -> Smaller(items.elders, 1500)
                [] OTHER -> 0)
           + items.infants * 2000 )

\* An input is [monthly, salary, months, special, additional, other, prepaid,
\* items]; all but monthly are accumulated since January.
RefusedPIT(in) ==
    \/ in.monthly < 0 \/ in.salary < 0 \/ in.months < 1
    \/ in.special < 0 \/ in.additional < 0 \/ in.other < 0 \/ in.prepaid < 0
    \/ in.salary < in.monthly

\* The items count only where no accumulated amount is given.
SpecialAdditional(in) ==
    IF in.additional = 0 THEN CalcMonthlySpecialAdditional(in.items) * in.months
                         ELSE in.additional

TaxableIncome(in) ==
    AtLeast0(in.salary - (in.months * 5000 * YUAN + in.special + SpecialAdditional(in)
                          + in.other))

\* Mutant: the tax withheld in earlier months is not taken off.
CalcPITGross(in) == [tax |-> AccumulatedTax(TaxableIncome(in)),
                     current |-> AccumulatedTax(TaxableIncome(in))]

CalcPIT(in) ==
    LET tax == AccumulatedTax(TaxableIncome(in)) IN
    [tax |-> tax, current |-> AtLeast0(tax - in.prepaid)]

-----------------------------------------------------------------------------
(* Corporate income tax *)

\* Mutant: the second bracket forgets the tax of the first.
CalcSmallProfitCITFlat(income) ==
    IF income <= 0 THEN 0
    ELSE IF income <= 1000000 * YUAN THEN Share(income, 5, 100)
    ELSE IF income <= 3000000 * YUAN THEN Share(income - 1000000 * YUAN, 10, 100)
    ELSE Share(income, 25, 100)

CalcSmallProfitCIT(income) ==
    IF income <= 0 THEN 0
    ELSE IF income <= 1000000 * YUAN THEN Share(income, 5, 100)
    ELSE IF income <= 3000000 * YUAN
         THEN Share(1000000 * YUAN, 5, 100) + Share(income - 1000000 * YUAN, 10, 100)
    ELSE Share(income, 25, 100)

\* The rate of both calculations below is a percentage of 1..100.
RefusedPrepay(profit) == profit < 0

\* Mutant: what the earlier quarters paid is not taken off.
CalcQuarterlyPrepayGross(profit, rate, paid) == Share(profit, rate, 100)

CalcQuarterlyPrepay(profit, rate, paid) == AtLeast0(Share(profit, rate, 100) - paid)

\* Mutant: a loss is taxed like a profit.
CalcAnnualSettlementLoss(profit, adjustments, rate, prepaid, small) ==
    LET income == profit + adjustments IN
    [income |-> income, payable |-> Share(income, rate, 100),
     deduction |-> 0, due |-> Share(income, rate, 100) - prepaid]

CalcAnnualSettlement(profit, adjustments, rate, prepaid, small) ==
    LET income   == AtLeast0(profit + adjustments)
        standard == Share(income, rate, 100)
        payable  == IF small /\ income <= 3000000 * YUAN
                    THEN CalcSmallProfitCIT(income) ELSE standard
    IN [income |-> income, payable |-> payable,
        deduction |-> AtLeast0(standard - payable), due |-> payable - prepaid]

-----------------------------------------------------------------------------
(* Stamp tax *)

StampRate(category) ==
    CASE category = "loan"     -> [n |-> 1, d |-> 20000]
      [] category = "lease"    -> [n |-> 1, d |-> 1000]
      [] category = "property" -> [n |-> 1, d |-> 2000]
      [] OTHER                 -> [n |-> 3, d |-> 10000]

RefusedStamp(amount, count) == amount < 0 \/ count < 0

\* Books are taxed by the piece, everything unknown like a sales contract.
CalcStampTax(category, amount, count) ==
    IF category = "books"
    THEN 5 * YUAN * (IF count <= 0 THEN 1 ELSE count)
    ELSE Share(amount, StampRate(category).n, StampRate(category).d)

-----------------------------------------------------------------------------
(* Tax adjustments *)

Adjusted(book, deductible) ==
    [book |-> book, deductible |-> deductible, adjustment |-> book - deductible]

CalcEntertainmentAdjustment(expense, revenue) ==
    Adjusted(expense, Smaller(Share(expense, 60, 100), Share(revenue, 5, 1000)))
CalcAdvertisingAdjustment(expense, revenue) ==
    Adjusted(expense, Smaller(expense, Share(revenue, 15, 100)))
CalcWelfareAdjustment(expense, salaries) ==
    Adjusted(expense, Smaller(expense, Share(salaries, 14, 100)))
CalcAssetImpairmentAdjustment(impairment) == Adjusted(impairment, 0)

\* The super deduction is the one adjustment that lowers the income.
CalcRDSuperDeduction(expense, rate) ==
    [book |-> expense, deductible |-> expense,
     adjustment |-> -Share(expense, IF rate <= 0 THEN 100 ELSE rate, 100)]
==============================================================================
