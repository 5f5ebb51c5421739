------------------------------- MODULE TaxDesk -------------------------------
(***************************************************************************)
(* The callers of the tax calculators.  The service keeps nothing between  *)
(* two calculations: who withholds income tax every month, or prepays      *)
(* corporate income tax every quarter, sends what was paid so far back in  *)
(* with the next call.  The model plays that caller through one year, and  *)
(* keeps the last answer of the calculators that need no history.          *)
(***************************************************************************)
EXTENDS TaxEngine, Naturals

CONSTANTS
    Amounts,    \* amounts asked about, in cents
    Salaries,   \* salaries of a month
    Profits,    \* results of a quarter, losses included
    Expenses    \* <<expense, revenue>> of the adjustments of a year

ASSUME TaxAssumption ==
    /\ Amounts \subseteq Nat
    /\ Salaries \subseteq Nat
    /\ Profits \subseteq Int
    /\ Expenses \subseteq Nat \X Nat

VARIABLES
    answer,   \* the last stateless answer: what was asked, of which base, the tax
    payroll,  \* one employee's year
    year      \* one company's year

taxVars == <<answer, payroll, year>>

Salaried == [month : 0..12, salary : Nat, withheld : Nat, peak : Nat]
NoMonth  == [month |-> 0, salary |-> 0, withheld |-> 0, peak |-> 0]

CompanyYear ==
    [quarter : 0..4, profit : Int, paid : Nat, fell : BOOLEAN, adjusted : Int,
     settled : BOOLEAN, small : BOOLEAN, payable : Nat, due : Int]
NewYear ==
    [quarter |-> 0, profit |-> 0, paid |-> 0, fell |-> FALSE, adjusted |-> 0,
     settled |-> FALSE, small |-> FALSE, payable |-> 0, due |-> 0]

Unasked == [asked |-> <<"nothing">>, base |-> 0, tax |-> 0]

TaxInit == answer = Unasked /\ payroll = NoMonth /\ year = NewYear

-----------------------------------------------------------------------------
(* Calculations without history.  asked names the calculation and every       *)
(* argument but the base.                                                     *)

Answer(asked, base, tax) ==
    /\ answer.asked \in {Unasked.asked, asked}  \* bound: one question, of any base
    /\ answer' = [asked |-> asked, base |-> base, tax |-> tax]
    /\ UNCHANGED <<payroll, year>>

\* finance.tax.calculate_vat
AskGeneralVAT == \E out, in \in Amounts, loc \in {"city", "town", "other"} :
    LET input == [type |-> "general", output |-> out, input |-> in, sales |-> 0, levy |-> 0] IN
    /\ ~RefusedVAT(input)
    /\ Answer(<<"general", in, loc>>, out, CalculateWithLocation(input, loc).total)

AskLevyVAT == \E sales \in Amounts, levy \in {0, 1, 5}, loc \in {"city", "town", "other"} :
    LET input == [type |-> "small_scale", output |-> 0, input |-> 0, sales |-> sales,
                  levy |-> levy] IN
    /\ ~RefusedVAT(input)
    /\ Answer(<<"small_scale", levy, loc>>, sales, CalculateWithLocation(input, loc).total)

AskExemptVAT == \E sales \in Amounts, levy \in {0, 1}, months \in {0, 1} :
    Answer(<<"exempt", levy, months>>, sales, CalcSmallScaleVAT(sales, levy, months))

\* finance.tax.calculate_pit, for a single accumulated salary
AskPIT == \E salary \in Amounts, children \in 0..1, elders \in 0..2 :
    LET items == [children |-> children, education |-> FALSE, loan |-> TRUE, rent |-> 2,
                  elders |-> elders, infants |-> 0]
        input == [monthly |-> 0, salary |-> salary, months |-> 12, special |-> 0,
                  additional |-> 0, other |-> 0, prepaid |-> 0, items |-> items] IN
    /\ ~RefusedPIT(input)
    /\ Answer(<<"pit", children, elders>>, TaxableIncome(input), CalcPIT(input).current)

AskCIT == \E profit \in Amounts, small \in BOOLEAN :
    Answer(<<"cit", small>>, profit, CalcAnnualSettlement(profit, 0, 25, 0, small).payable)

\* finance.tax.calculate_stamp
AskStamp == \E amount \in Amounts, category \in {"sales", "loan", "lease", "property"} :
    /\ ~RefusedStamp(amount, 0)
    /\ Answer(<<"stamp", category>>, amount, CalcStampTax(category, amount, 0))

AskBooks == \E count \in 0..3 :
    /\ ~RefusedStamp(0, count)
    /\ Answer(<<"stamp", "books">>, count, CalcStampTax("books", 0, count))

-----------------------------------------------------------------------------
(* Withholding: the employer adds up salaries and the tax it withheld.       *)

WithholdMonth == \E s \in Salaries :
    LET input == [monthly |-> s, salary |-> payroll.salary + s, months |-> payroll.month + 1,
                  special |-> 0, additional |-> 0, other |-> 0, prepaid |-> payroll.withheld,
                  items |-> [children |-> 1, education |-> FALSE, loan |-> FALSE, rent |-> 0,
                             elders |-> 0, infants |-> 0]]
        result == CalcPIT(input) IN
    /\ payroll.month < 12
    /\ ~RefusedPIT(input)
    /\ payroll' = [month |-> input.months, salary |-> input.salary,
                   withheld |-> payroll.withheld + result.current,
                   peak |-> IF result.tax > payroll.peak THEN result.tax ELSE payroll.peak]
    /\ UNCHANGED <<answer, year>>

-----------------------------------------------------------------------------
(* Corporate income tax: four prepayments and the settlement.                *)

\* A loss accumulated so far is refused and nothing is paid.
EndQuarter == \E p \in Profits :
    /\ year.quarter < 4
    /\ year' = [year EXCEPT
         !.quarter = @ + 1,
         !.profit = @ + p,
         !.fell = @ \/ p < 0,
         !.paid = IF RefusedPrepay(year.profit + p) THEN @
                  ELSE @ + CalcQuarterlyPrepay(year.profit + p, 25, @)]
    /\ UNCHANGED <<answer, payroll>>

YearAdjustments(expense, revenue) ==
    { CalcEntertainmentAdjustment(expense, revenue), CalcAdvertisingAdjustment(expense, revenue),
      CalcWelfareAdjustment(expense, revenue), CalcAssetImpairmentAdjustment(expense),
      CalcRDSuperDeduction(expense, 0) }

AdjustYear == \E x \in Expenses : \E a \in YearAdjustments(x[1], x[2]) :
    /\ year.quarter = 4 /\ ~year.settled /\ year.adjusted = 0
    /\ year' = [year EXCEPT !.adjusted = a.adjustment]
    /\ UNCHANGED <<answer, payroll>>

SettleYear == \E small \in BOOLEAN :
    LET result == CalcAnnualSettlement(year.profit, year.adjusted, 25, year.paid, small) IN
    /\ year.quarter = 4 /\ ~year.settled
    /\ year' = [year EXCEPT !.settled = TRUE, !.small = small,
                            !.payable = result.payable, !.due = result.due]
    /\ UNCHANGED <<answer, payroll>>

QuestionNext ==
    \/ AskGeneralVAT \/ AskLevyVAT \/ AskExemptVAT \/ AskPIT \/ AskCIT \/ AskStamp \/ AskBooks
PayrollNext == WithholdMonth
YearNext    == EndQuarter \/ AdjustYear \/ SettleYear

TaxNext == QuestionNext \/ PayrollNext \/ YearNext
TaxSpec == TaxInit /\ [][TaxNext]_taxVars

-----------------------------------------------------------------------------
TaxTypeOK ==
    /\ answer.base \in Int /\ answer.tax \in Int
    /\ payroll \in Salaried
    /\ year \in CompanyYear

\* No calculator of engine/{tax,pit,cit,stamp}.go takes less tax of a larger
\* base, whatever bracket, exemption or ceiling lies between the two, provided
\* the other arguments agree.  The exception in the code is a ceiling: a small
\* enterprise above 3,000,000 leaves the reduced rates, which raises the tax.
MoreBaseMoreTax ==
    [][ /\ answer'.asked = answer.asked
        /\ answer'.base >= answer.base
        => answer'.tax >= answer.tax ]_answer

\* The tax of pit.go's table of rates and quick deductions is the sum of the
\* marginal taxes of the slices of the income.
Slice(income, from, upTo) == AtLeast0(Smaller(income, upTo) - from)
MarginalTax(income) ==
    LET s(rate, from, upTo) == Share(Slice(income, from * YUAN, upTo * YUAN), rate, 100) IN
    s(3, 0, 36000) + s(10, 36000, 144000) + s(20, 144000, 300000) + s(25, 300000, 420000)
    + s(30, 420000, 660000) + s(35, 660000, 960000)
    + Share(AtLeast0(income - 960000 * YUAN), 45, 100)

BracketsMarginal == answer.asked[1] = "pit" => answer.tax = MarginalTax(answer.base)

\* CalcPIT withholds the difference to what was withheld before and never pays
\* back: over a year an employer has withheld the highest accumulated tax of
\* any month, not more when the salary moves between brackets, and not less
\* when a month without salary lowers the accumulated income.
WithholdingTracksYear == payroll.withheld = payroll.peak

\* CalcQuarterlyPrepay and CalcAnnualSettlement fit together: after four
\* prepayments nothing is left to pay unless an adjustment raised the income,
\* and nothing is paid back unless the result fell during the year, the
\* reduced rates apply or an adjustment lowered the income.
QuartersSettle ==
    year.settled =>
        /\ year.due > 0 => year.adjusted > 0
        /\ year.due < 0 => year.fell \/ year.small \/ year.adjusted < 0
==============================================================================
