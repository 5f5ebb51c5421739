---------------------------- MODULE BackOfficeProofs ----------------------------
(***************************************************************************)
(* Proofs about the desks of the back office, for any amounts, books,      *)
(* clients and clerks: the tax calculators, the records, the risk          *)
(* detectors and the comparisons, and that a behaviour of BackOffice is    *)
(* one of every desk, so that it has what was proved of each.              *)
(***************************************************************************)
EXTENDS BackOffice, StatementProofs, SequenceTheorems

(* Tax: rounding, brackets *)

-----------------------------------------------------------------------------
(* Shares of amounts *)

Rates == {1, 2, 3, 5, 7, 10, 20, 25, 30, 35, 45}

\* A percentage, rounded to the cent, of an amount.
LEMMA ShareNat ==
    ASSUME NEW x \in Nat, NEW n \in Rates
    PROVE  Share(x, n, 100) \in Nat
BY DEF Share, ShareOf, Rates

LEMMA ShareGrows ==
    ASSUME NEW x \in Nat, NEW y \in Nat, x <= y, NEW n \in Rates
    PROVE  Share(x, n, 100) <= Share(y, n, 100)
BY SMTT(60) DEF Share, ShareOf, Rates

LEMMA AtLeast0Nat == ASSUME NEW x \in Int PROVE AtLeast0(x) \in Nat
BY DEF AtLeast0

-----------------------------------------------------------------------------
(* The brackets of the personal income tax *)

LEMMA Brackets ==
    /\ DOMAIN LowerBrackets = 1..6
    /\ LowerBrackets[1] = [upTo |->  3600000, rate |->  3, quick |->       0]
    /\ LowerBrackets[2] = [upTo |-> 14400000, rate |-> 10, quick |->  252000]
    /\ LowerBrackets[3] = [upTo |-> 30000000, rate |-> 20, quick |-> 1692000]
    /\ LowerBrackets[4] = [upTo |-> 42000000, rate |-> 25, quick |-> 3192000]
    /\ LowerBrackets[5] = [upTo |-> 66000000, rate |-> 30, quick |-> 5292000]
    /\ LowerBrackets[6] = [upTo |-> 96000000, rate |-> 35, quick |-> 8592000]
    /\ TopBracket = [rate |-> 45, quick |-> 18192000]
BY DEF LowerBrackets, TopBracket, Bracket, YUAN

\* CHOOSE picks the only bracket there is to pick.
LEMMA LowerBracket ==
    ASSUME NEW i \in Nat, NEW k \in 1..6, i <= LowerBrackets[k].upTo,
           \A j \in 1..(k - 1) : i > LowerBrackets[j].upTo
    PROVE  PitBracket(i) = LowerBrackets[k]
<1> DEFINE P(m) == i <= LowerBrackets[m].upTo /\ \A j \in 1..(m - 1) : i > LowerBrackets[j].upTo
<1>1. i <= LowerBrackets[6].upTo
    BY Brackets
<1>2. \A m \in 1..6 : P(m) => m = k
  <2> SUFFICES ASSUME NEW m \in 1..6, P(m), m # k PROVE FALSE
      OBVIOUS
  <2>1. m \in 1..(k - 1) \/ k \in 1..(m - 1)
      OBVIOUS
  <2>2. \A j \in 1..6 : LowerBrackets[j].upTo \in Nat
      BY Brackets
  <2> QED
      BY <2>1, <2>2
<1>3. P(k)
    OBVIOUS
<1>4. (CHOOSE m \in 1..6 : P(m)) = k
    BY <1>2, <1>3
<1> QED
    BY <1>1, <1>4 DEF PitBracket

\* The tax before rounding up to zero, bracket by bracket.
LEMMA TaxByBracket ==
    ASSUME NEW i \in Nat
    PROVE  /\ i <= 3600000 => AccumulatedTax(i) = AtLeast0(Share(i, 3, 100) - 0)
           /\ i > 3600000 /\ i <= 14400000 => AccumulatedTax(i) = AtLeast0(Share(i, 10, 100) - 252000)
           /\ i > 14400000 /\ i <= 30000000 => AccumulatedTax(i) = AtLeast0(Share(i, 20, 100) - 1692000)
           /\ i > 30000000 /\ i <= 42000000 => AccumulatedTax(i) = AtLeast0(Share(i, 25, 100) - 3192000)
           /\ i > 42000000 /\ i <= 66000000 => AccumulatedTax(i) = AtLeast0(Share(i, 30, 100) - 5292000)
           /\ i > 66000000 /\ i <= 96000000 => AccumulatedTax(i) = AtLeast0(Share(i, 35, 100) - 8592000)
           /\ i > 96000000 => AccumulatedTax(i) = AtLeast0(Share(i, 45, 100) - 18192000)
<1> USE Brackets DEF AccumulatedTax
<1>1. CASE i <= 3600000
  <2>1. PitBracket(i) = LowerBrackets[1]
    BY <1>1, LowerBracket
  <2> QED
    BY <1>1, <2>1
<1>2. CASE i > 3600000 /\ i <= 14400000
  <2>1. PitBracket(i) = LowerBrackets[2]
    BY <1>2, LowerBracket
  <2> QED
    BY <1>2, <2>1
<1>3. CASE i > 14400000 /\ i <= 30000000
  <2>1. PitBracket(i) = LowerBrackets[3]
    BY <1>3, LowerBracket
  <2> QED
    BY <1>3, <2>1
<1>4. CASE i > 30000000 /\ i <= 42000000
  <2>1. PitBracket(i) = LowerBrackets[4]
    BY <1>4, LowerBracket
  <2> QED
    BY <1>4, <2>1
<1>5. CASE i > 42000000 /\ i <= 66000000
  <2>1. PitBracket(i) = LowerBrackets[5]
    BY <1>5, LowerBracket
  <2> QED
    BY <1>5, <2>1
<1>6. CASE i > 66000000 /\ i <= 96000000
  <2>1. PitBracket(i) = LowerBrackets[6]
    BY <1>6, LowerBracket
  <2> QED
    BY <1>6, <2>1
<1>7. CASE i > 96000000
  <2>1. PitBracket(i) = TopBracket
    BY <1>7 DEF PitBracket
  <2> QED
    BY <1>7, <2>1
<1> QED
    BY <1>1, <1>2, <1>3, <1>4, <1>5, <1>6, <1>7

\* The tax of a full slice, and of an empty one.
LEMMA FullSlices ==
    /\ \A n \in Rates : Share(0, n, 100) = 0
    /\ Share(3600000, 3, 100) = 108000
    /\ Share(10800000, 10, 100) = 1080000
    /\ Share(15600000, 20, 100) = 3120000
    /\ Share(12000000, 25, 100) = 3000000
    /\ Share(24000000, 30, 100) = 7200000
    /\ Share(30000000, 35, 100) = 10500000
BY SMT DEF Share, ShareOf, Rates

\* The quick deductions are right: what the higher rate of a bracket takes too
\* much of the slices below it.
LEMMA TaxIsMarginal == ASSUME NEW i \in Nat PROVE AccumulatedTax(i) = MarginalTax(i)
<1>1. CASE i <= 3600000
  <2>1. AccumulatedTax(i) = Share(i, 3, 100)
    BY <1>1, TaxByBracket, ShareNat, SMT DEF Rates, AtLeast0
  <2>3. /\ Slice(i, 0, 3600000) = i
        /\ Slice(i, 3600000, 14400000) = 0
        /\ Slice(i, 14400000, 30000000) = 0
        /\ Slice(i, 30000000, 42000000) = 0
        /\ Slice(i, 42000000, 66000000) = 0
        /\ Slice(i, 66000000, 96000000) = 0
        /\ AtLeast0(i - 96000000) = 0
    BY <1>1, SMT DEF Slice, AtLeast0, Smaller
  <2>4. Share(i, 3, 100) \in Nat
    BY <1>1, ShareNat, SMT DEF Rates
  <2> QED
    BY <2>1, <2>3, <2>4, FullSlices, SMT DEF MarginalTax, YUAN, Rates
<1>2. CASE i > 3600000 /\ i <= 14400000
  <2>1. Share(i, 10, 100) = Share(i - 3600000, 10, 100) + 360000
    BY <1>2, SMTT(30) DEF Share, ShareOf
  <2>2. AccumulatedTax(i) = Share(i - 3600000, 10, 100) + 108000
    <3>1. Share(i - 3600000, 10, 100) \in Nat
      BY <1>2, ShareNat, SMT DEF Rates
    <3> QED
      BY <1>2, <2>1, <3>1, TaxByBracket, SMT DEF AtLeast0
  <2>3. /\ Slice(i, 0, 3600000) = 3600000
        /\ Slice(i, 3600000, 14400000) = i - 3600000
        /\ Slice(i, 14400000, 30000000) = 0
        /\ Slice(i, 30000000, 42000000) = 0
        /\ Slice(i, 42000000, 66000000) = 0
        /\ Slice(i, 66000000, 96000000) = 0
        /\ AtLeast0(i - 96000000) = 0
    BY <1>2, SMT DEF Slice, AtLeast0, Smaller
  <2>4. Share(i - 3600000, 10, 100) \in Nat
    BY <1>2, ShareNat, SMT DEF Rates
  <2> QED
    BY <2>2, <2>3, <2>4, FullSlices, SMT DEF MarginalTax, YUAN, Rates
<1>3. CASE i > 14400000 /\ i <= 30000000
  <2>1. Share(i, 20, 100) = Share(i - 14400000, 20, 100) + 2880000
    BY <1>3, SMTT(30) DEF Share, ShareOf
  <2>2. AccumulatedTax(i) = Share(i - 14400000, 20, 100) + 1188000
    <3>1. Share(i - 14400000, 20, 100) \in Nat
      BY <1>3, ShareNat, SMT DEF Rates
    <3> QED
      BY <1>3, <2>1, <3>1, TaxByBracket, SMT DEF AtLeast0
  <2>3. /\ Slice(i, 0, 3600000) = 3600000
        /\ Slice(i, 3600000, 14400000) = 10800000
        /\ Slice(i, 14400000, 30000000) = i - 14400000
        /\ Slice(i, 30000000, 42000000) = 0
        /\ Slice(i, 42000000, 66000000) = 0
        /\ Slice(i, 66000000, 96000000) = 0
        /\ AtLeast0(i - 96000000) = 0
    BY <1>3, SMT DEF Slice, AtLeast0, Smaller
  <2>4. Share(i - 14400000, 20, 100) \in Nat
    BY <1>3, ShareNat, SMT DEF Rates
  <2> QED
    BY <2>2, <2>3, <2>4, FullSlices, SMT DEF MarginalTax, YUAN, Rates
<1>4. CASE i > 30000000 /\ i <= 42000000
  <2>1. Share(i, 25, 100) = Share(i - 30000000, 25, 100) + 7500000
    BY <1>4, SMTT(30) DEF Share, ShareOf
  <2>2. AccumulatedTax(i) = Share(i - 30000000, 25, 100) + 4308000
    <3>1. Share(i - 30000000, 25, 100) \in Nat
      BY <1>4, ShareNat, SMT DEF Rates
    <3> QED
      BY <1>4, <2>1, <3>1, TaxByBracket, SMT DEF AtLeast0
  <2>3. /\ Slice(i, 0, 3600000) = 3600000
        /\ Slice(i, 3600000, 14400000) = 10800000
        /\ Slice(i, 14400000, 30000000) = 15600000
        /\ Slice(i, 30000000, 42000000) = i - 30000000
        /\ Slice(i, 42000000, 66000000) = 0
        /\ Slice(i, 66000000, 96000000) = 0
        /\ AtLeast0(i - 96000000) = 0
    BY <1>4, SMT DEF Slice, AtLeast0, Smaller
  <2>4. Share(i - 30000000, 25, 100) \in Nat
    BY <1>4, ShareNat, SMT DEF Rates
  <2> QED
    BY <2>2, <2>3, <2>4, FullSlices, SMT DEF MarginalTax, YUAN, Rates
<1>5. CASE i > 42000000 /\ i <= 66000000
  <2>1. Share(i, 30, 100) = Share(i - 42000000, 30, 100) + 12600000
    BY <1>5, SMTT(30) DEF Share, ShareOf
  <2>2. AccumulatedTax(i) = Share(i - 42000000, 30, 100) + 7308000
    <3>1. Share(i - 42000000, 30, 100) \in Nat
      BY <1>5, ShareNat, SMT DEF Rates
    <3> QED
      BY <1>5, <2>1, <3>1, TaxByBracket, SMT DEF AtLeast0
  <2>3. /\ Slice(i, 0, 3600000) = 3600000
        /\ Slice(i, 3600000, 14400000) = 10800000
        /\ Slice(i, 14400000, 30000000) = 15600000
        /\ Slice(i, 30000000, 42000000) = 12000000
        /\ Slice(i, 42000000, 66000000) = i - 42000000
        /\ Slice(i, 66000000, 96000000) = 0
        /\ AtLeast0(i - 96000000) = 0
    BY <1>5, SMT DEF Slice, AtLeast0, Smaller
  <2>4. Share(i - 42000000, 30, 100) \in Nat
    BY <1>5, ShareNat, SMT DEF Rates
  <2> QED
    BY <2>2, <2>3, <2>4, FullSlices, SMT DEF MarginalTax, YUAN, Rates
<1>6. CASE i > 66000000 /\ i <= 96000000
  <2>1. Share(i, 35, 100) = Share(i - 66000000, 35, 100) + 23100000
    BY <1>6, SMTT(30) DEF Share, ShareOf
  <2>2. AccumulatedTax(i) = Share(i - 66000000, 35, 100) + 14508000
    <3>1. Share(i - 66000000, 35, 100) \in Nat
      BY <1>6, ShareNat, SMT DEF Rates
    <3> QED
      BY <1>6, <2>1, <3>1, TaxByBracket, SMT DEF AtLeast0
  <2>3. /\ Slice(i, 0, 3600000) = 3600000
        /\ Slice(i, 3600000, 14400000) = 10800000
        /\ Slice(i, 14400000, 30000000) = 15600000
        /\ Slice(i, 30000000, 42000000) = 12000000
        /\ Slice(i, 42000000, 66000000) = 24000000
        /\ Slice(i, 66000000, 96000000) = i - 66000000
        /\ AtLeast0(i - 96000000) = 0
    BY <1>6, SMT DEF Slice, AtLeast0, Smaller
  <2>4. Share(i - 66000000, 35, 100) \in Nat
    BY <1>6, ShareNat, SMT DEF Rates
  <2> QED
    BY <2>2, <2>3, <2>4, FullSlices, SMT DEF MarginalTax, YUAN, Rates
<1>7. CASE i > 96000000
  <2>1. Share(i, 45, 100) = Share(i - 96000000, 45, 100) + 43200000
    BY <1>7, SMTT(30) DEF Share, ShareOf
  <2>2. AccumulatedTax(i) = Share(i - 96000000, 45, 100) + 25008000
    <3>1. Share(i - 96000000, 45, 100) \in Nat
      BY <1>7, ShareNat, SMT DEF Rates
    <3> QED
      BY <1>7, <2>1, <3>1, TaxByBracket, SMT DEF AtLeast0
  <2>3. /\ Slice(i, 0, 3600000) = 3600000
        /\ Slice(i, 3600000, 14400000) = 10800000
        /\ Slice(i, 14400000, 30000000) = 15600000
        /\ Slice(i, 30000000, 42000000) = 12000000
        /\ Slice(i, 42000000, 66000000) = 24000000
        /\ Slice(i, 66000000, 96000000) = 30000000
        /\ AtLeast0(i - 96000000) = i - 96000000
    BY <1>7, SMT DEF Slice, AtLeast0, Smaller
  <2>4. Share(i - 96000000, 45, 100) \in Nat
    BY <1>7, ShareNat, SMT DEF Rates
  <2> QED
    BY <2>2, <2>3, <2>4, FullSlices, SMT DEF MarginalTax, YUAN, Rates
<1> QED
    BY <1>1, <1>2, <1>3, <1>4, <1>5, <1>6, <1>7, SMT

\* The slices in cents, as a sum of seven numbers.
SliceTax(i, k) ==
    CASE k = 1 -> Share(Slice(i, 0, 3600000), 3, 100)
      [] k = 2 -> Share(Slice(i, 3600000, 14400000), 10, 100)
      [] k = 3 -> Share(Slice(i, 14400000, 30000000), 20, 100)
      [] k = 4 -> Share(Slice(i, 30000000, 42000000), 25, 100)
      [] k = 5 -> Share(Slice(i, 42000000, 66000000), 30, 100)
      [] k = 6 -> Share(Slice(i, 66000000, 96000000), 35, 100)
      [] k = 7 -> Share(AtLeast0(i - 96000000), 45, 100)

LEMMA MarginalTaxSum ==
    ASSUME NEW i \in Nat
    PROVE  MarginalTax(i) = SliceTax(i, 1) + SliceTax(i, 2) + SliceTax(i, 3) + SliceTax(i, 4)
                            + SliceTax(i, 5) + SliceTax(i, 6) + SliceTax(i, 7)
BY SMT DEF MarginalTax, SliceTax, YUAN

LEMMA SliceTaxGrows ==
    ASSUME NEW i \in Nat, NEW j \in Nat, i <= j, NEW k \in 1..7
    PROVE  SliceTax(i, k) \in Nat /\ SliceTax(j, k) \in Nat /\ SliceTax(i, k) <= SliceTax(j, k)
<1>1. \A a, b \in Nat : Slice(i, a, b) \in Nat /\ Slice(j, a, b) \in Nat /\ Slice(i, a, b) <= Slice(j, a, b)
    BY SMT DEF Slice, AtLeast0, Smaller
<1>2. /\ AtLeast0(i - 96000000) \in Nat /\ AtLeast0(j - 96000000) \in Nat
      /\ AtLeast0(i - 96000000) <= AtLeast0(j - 96000000)
    BY SMT DEF AtLeast0
<1>3. \A n \in {3, 10, 20, 25, 30, 35, 45} : n \in Rates
    BY SMT DEF Rates
<1>4. CASE k = 1
  <2>1. /\ Slice(i, 0, 3600000) \in Nat /\ Slice(j, 0, 3600000) \in Nat
        /\ Slice(i, 0, 3600000) <= Slice(j, 0, 3600000)
    BY <1>1, SMT
  <2> QED
    BY <2>1, <1>3, <1>4, ShareNat, ShareGrows, SMT DEF SliceTax
<1>5. CASE k = 2
  <2>1. /\ Slice(i, 3600000, 14400000) \in Nat /\ Slice(j, 3600000, 14400000) \in Nat
        /\ Slice(i, 3600000, 14400000) <= Slice(j, 3600000, 14400000)
    BY <1>1, SMT
  <2> QED
    BY <2>1, <1>3, <1>5, ShareNat, ShareGrows, SMT DEF SliceTax
<1>6. CASE k = 3
  <2>1. /\ Slice(i, 14400000, 30000000) \in Nat /\ Slice(j, 14400000, 30000000) \in Nat
        /\ Slice(i, 14400000, 30000000) <= Slice(j, 14400000, 30000000)
    BY <1>1, SMT
  <2> QED
    BY <2>1, <1>3, <1>6, ShareNat, ShareGrows, SMT DEF SliceTax
<1>7. CASE k = 4
  <2>1. /\ Slice(i, 30000000, 42000000) \in Nat /\ Slice(j, 30000000, 42000000) \in Nat
        /\ Slice(i, 30000000, 42000000) <= Slice(j, 30000000, 42000000)
    BY <1>1, SMT
  <2> QED
    BY <2>1, <1>3, <1>7, ShareNat, ShareGrows, SMT DEF SliceTax
<1>8. CASE k = 5
  <2>1. /\ Slice(i, 42000000, 66000000) \in Nat /\ Slice(j, 42000000, 66000000) \in Nat
        /\ Slice(i, 42000000, 66000000) <= Slice(j, 42000000, 66000000)
    BY <1>1, SMT
  <2> QED
    BY <2>1, <1>3, <1>8, ShareNat, ShareGrows, SMT DEF SliceTax
<1>9. CASE k = 6
  <2>1. /\ Slice(i, 66000000, 96000000) \in Nat /\ Slice(j, 66000000, 96000000) \in Nat
        /\ Slice(i, 66000000, 96000000) <= Slice(j, 66000000, 96000000)
    BY <1>1, SMT
  <2> QED
    BY <2>1, <1>3, <1>9, ShareNat, ShareGrows, SMT DEF SliceTax
<1>10. CASE k = 7
    BY <1>2, <1>3, <1>10, ShareNat, ShareGrows, SMT DEF SliceTax
<1> QED
    BY <1>4, <1>5, <1>6, <1>7, <1>8, <1>9, <1>10, SMT

LEMMA MarginalTaxGrows ==
    ASSUME NEW i \in Nat, NEW j \in Nat, i <= j
    PROVE  MarginalTax(i) \in Nat /\ MarginalTax(j) \in Nat /\ MarginalTax(i) <= MarginalTax(j)
<1>1. \A k \in 1..7 : SliceTax(i, k) \in Nat /\ SliceTax(j, k) \in Nat /\ SliceTax(i, k) <= SliceTax(j, k)
    BY SliceTaxGrows
<1> QED
    BY <1>1, MarginalTaxSum, SMT
-----------------------------------------------------------------------------
(* Withholding *)

PayrollInv == payroll \in Salaried /\ payroll.withheld = payroll.peak

\* A month withholds what is missing to the highest accumulated tax.
LEMMA MonthStep ==
    ASSUME PayrollInv, WithholdMonth
    PROVE  PayrollInv'
<1> DEFINE In(s) == [monthly |-> s, salary |-> payroll.salary + s, months |-> payroll.month + 1,
                     special |-> 0, additional |-> 0, other |-> 0, prepaid |-> payroll.withheld,
                     items |-> [children |-> 1, education |-> FALSE, loan |-> FALSE, rent |-> 0,
                                elders |-> 0, infants |-> 0]]
<1>1. PICK s \in Salaries :
          /\ payroll.month < 12
          /\ payroll' = [month |-> In(s).months, salary |-> In(s).salary,
                         withheld |-> payroll.withheld + CalcPIT(In(s)).current,
                         peak |-> IF CalcPIT(In(s)).tax > payroll.peak
                                  THEN CalcPIT(In(s)).tax ELSE payroll.peak]
    BY DEF WithholdMonth
<1>2. s \in Nat /\ payroll.salary \in Nat /\ payroll.month \in 0..12 /\ payroll.withheld \in Nat
      /\ payroll.peak \in Nat
    BY TaxAssumption DEF PayrollInv, Salaried
<1>3. CalcMonthlySpecialAdditional(In(s).items) \in Int
    BY SMT DEF CalcMonthlySpecialAdditional, YUAN
<1>4. SpecialAdditional(In(s)) \in Int
    BY <1>2, <1>3, SMT DEF SpecialAdditional
<1>5. TaxableIncome(In(s)) \in Nat
    BY <1>2, <1>4, SMT DEF TaxableIncome, AtLeast0, YUAN
<1> DEFINE tax == AccumulatedTax(TaxableIncome(In(s)))
<1>6. tax \in Nat
    BY <1>5, TaxIsMarginal, MarginalTaxGrows, SMT
<1>7. CalcPIT(In(s)).tax = tax /\ CalcPIT(In(s)).current = AtLeast0(tax - payroll.withheld)
    BY SMT DEF CalcPIT
<1>8. In(s).months = payroll.month + 1 /\ In(s).salary = payroll.salary + s
    OBVIOUS
<1> HIDE DEF tax, In
<1>9. payroll.withheld + AtLeast0(tax - payroll.withheld)
        = IF tax > payroll.withheld THEN tax ELSE payroll.withheld
    BY <1>2, <1>6, SMT DEF AtLeast0
<1> QED
    BY <1>1, <1>2, <1>6, <1>7, <1>8, <1>9, SMT DEF PayrollInv, Salaried

LEMMA PayrollAlways == TaxSpec => []PayrollInv
<1>1. TaxInit => PayrollInv
    BY SMT DEF TaxInit, PayrollInv, NoMonth, Salaried
<1>2. PayrollInv /\ [TaxNext]_taxVars => PayrollInv'
  <2> SUFFICES ASSUME PayrollInv, [TaxNext]_taxVars PROVE PayrollInv'
    OBVIOUS
  <2>1. CASE WithholdMonth
    BY <2>1, MonthStep
  <2>2. CASE UNCHANGED payroll
    BY <2>2 DEF PayrollInv
  <2>3. QuestionNext \/ YearNext => UNCHANGED payroll
    BY DEF QuestionNext, YearNext, AskGeneralVAT, AskLevyVAT, AskExemptVAT, AskPIT, AskCIT,
           AskStamp, AskBooks, Answer, EndQuarter, AdjustYear, SettleYear
  <2> QED
    BY <2>1, <2>2, <2>3 DEF TaxNext, PayrollNext, taxVars
<1> QED
    BY <1>1, <1>2, PTL DEF TaxSpec

\* Whatever the salaries, brackets and months without salary, the employer has
\* withheld exactly the highest accumulated tax of the year so far.
THEOREM YearWithheld == TaxSpec => []WithholdingTracksYear
<1>1. PayrollInv => WithholdingTracksYear
    BY DEF PayrollInv, WithholdingTracksYear
<1> QED
    BY <1>1, PayrollAlways, PTL
-----------------------------------------------------------------------------
(* The corporate income tax of a year *)

QuarterTax(profit) == Share(AtLeast0(profit), 25, 100)

\* The prepayments reach the tax of the result so far, and exceed it only if
\* the result fell.
YearInv ==
    /\ year \in CompanyYear
    /\ year.paid >= QuarterTax(year.profit)
    /\ ~year.fell => year.profit >= 0 /\ year.paid = QuarterTax(year.profit)
    /\ year.settled => year.quarter = 4
    /\ QuartersSettle

LEMMA QuarterTaxGrows ==
    ASSUME NEW p \in Int, NEW q \in Int
    PROVE  /\ QuarterTax(p) \in Nat
           /\ p <= q => QuarterTax(p) <= QuarterTax(q)
           /\ p >= 0 => QuarterTax(p) = Share(p, 25, 100)
<1>1. AtLeast0(p) \in Nat /\ AtLeast0(q) \in Nat /\ (p <= q => AtLeast0(p) <= AtLeast0(q))
    BY SMT DEF AtLeast0
<1>2. 25 \in Rates
    BY SMT DEF Rates
<1>3. p >= 0 => AtLeast0(p) = p
    BY SMT DEF AtLeast0
<1> QED
    BY <1>1, <1>2, <1>3, ShareNat, ShareGrows, SMT DEF QuarterTax

\* The reduced rates never take more than the standard rate.
LEMMA SmallTaxIsSmaller ==
    ASSUME NEW i \in Nat, i <= 300000000
    PROVE  CalcSmallProfitCIT(i) \in Nat /\ CalcSmallProfitCIT(i) <= Share(i, 25, 100)
<1>1. CASE i = 0
  <2>1. CalcSmallProfitCIT(i) = 0
    BY <1>1, SMT DEF CalcSmallProfitCIT
  <2> QED
    BY <2>1, ShareNat, SMT DEF Rates
<1>2. CASE i > 0 /\ i <= 100000000
  <2>1. CalcSmallProfitCIT(i) = Share(i, 5, 100)
    BY <1>2, SMT DEF CalcSmallProfitCIT, YUAN
  <2> QED
    BY <2>1, SMT DEF Share, ShareOf
<1>3. CASE i > 100000000
    BY <1>3, SMTT(30) DEF CalcSmallProfitCIT, Share, ShareOf, YUAN
<1> QED
    BY <1>1, <1>2, <1>3, SMT

\* A prepayment brings the sum of the prepayments up to the tax so far.
LEMMA QuarterStep == ASSUME YearInv, EndQuarter PROVE YearInv'
<1>1. PICK p \in Profits :
          /\ year.quarter < 4
          /\ year' = [year EXCEPT
               !.quarter = @ + 1, !.profit = @ + p, !.fell = @ \/ p < 0,
               !.paid = IF RefusedPrepay(year.profit + p) THEN @
                        ELSE @ + CalcQuarterlyPrepay(year.profit + p, 25, @)]
    BY DEF EndQuarter
<1> DEFINE q == year.profit + p
           paid == IF RefusedPrepay(q) THEN year.paid
                   ELSE year.paid + CalcQuarterlyPrepay(q, 25, year.paid)
<1>2. p \in Int /\ year.profit \in Int /\ q \in Int /\ year.paid \in Nat
    BY TaxAssumption DEF YearInv, CompanyYear
<1>3. /\ year'.quarter = year.quarter + 1 /\ year'.profit = q /\ year'.paid = paid
      /\ year'.settled = year.settled
    BY <1>1 DEF YearInv, CompanyYear
<1>4. ~year'.fell => ~year.fell /\ p >= 0
  <2>1. year'.fell = (year.fell \/ p < 0)
    BY <1>1 DEF YearInv, CompanyYear
  <2>2. ~year'.fell => ~year.fell /\ ~(p < 0)
    BY <2>1, Zenon
  <2> QED
    BY <1>2, <2>2, SMT
<1>5. ~year.settled
    BY <1>1 DEF YearInv
<1>6. paid \in Nat /\ paid = IF QuarterTax(q) > year.paid THEN QuarterTax(q) ELSE year.paid
  <2>1. q < 0 => QuarterTax(q) = 0
    BY <1>2, SMT DEF QuarterTax, AtLeast0, Share, ShareOf
  <2>2. q >= 0 => CalcQuarterlyPrepay(q, 25, year.paid) = AtLeast0(QuarterTax(q) - year.paid)
    BY <1>2, QuarterTaxGrows DEF CalcQuarterlyPrepay
  <2>3. QuarterTax(q) \in Nat
    BY <1>2, QuarterTaxGrows
  <2> QED
    BY <1>2, <2>1, <2>2, <2>3, SMT DEF RefusedPrepay, AtLeast0
<1>7. year' \in CompanyYear
  <2>1. (year.fell \/ p < 0) \in BOOLEAN /\ year.quarter + 1 \in 0..4
    BY <1>1 DEF YearInv, CompanyYear
  <2>2. year' = [year EXCEPT !.quarter = year.quarter + 1, !.profit = q,
                             !.fell = (year.fell \/ p < 0), !.paid = paid]
    BY <1>1
  <2> QED
    BY <1>2, <1>6, <2>1, <2>2 DEF YearInv, CompanyYear
<1> HIDE DEF q, paid
<1>8. year'.paid >= QuarterTax(year'.profit)
    BY <1>2, <1>3, <1>6, QuarterTaxGrows
<1>9. ~year'.fell => year'.profit >= 0 /\ year'.paid = QuarterTax(year'.profit)
  <2>1. ~year'.fell => q >= year.profit /\ q >= 0
    BY <1>2, <1>4 DEF YearInv, q
  <2> QED
    BY <1>2, <1>3, <1>4, <1>6, <2>1, QuarterTaxGrows DEF YearInv
<1> QED
    BY <1>3, <1>5, <1>7, <1>8, <1>9 DEF YearInv, QuartersSettle

LEMMA AdjustmentsAreInt ==
    ASSUME NEW e \in Nat, NEW r \in Nat, NEW a \in YearAdjustments(e, r)
    PROVE  a.adjustment \in Int
<1>1. \A x \in Nat : /\ Share(x, 60, 100) \in Int /\ Share(x, 5, 1000) \in Int
                     /\ Share(x, 15, 100) \in Int /\ Share(x, 14, 100) \in Int
                     /\ Share(x, 100, 100) \in Int
    BY SMT DEF Share, ShareOf
<1> QED
    BY <1>1, SMT
    DEF YearAdjustments, CalcEntertainmentAdjustment, CalcAdvertisingAdjustment,
        CalcWelfareAdjustment, CalcAssetImpairmentAdjustment, CalcRDSuperDeduction, Adjusted, Smaller

LEMMA AdjustStep == ASSUME YearInv, AdjustYear PROVE YearInv'
<1>1. PICK x \in Expenses : \E a \in YearAdjustments(x[1], x[2]) :
          /\ year.quarter = 4 /\ ~year.settled
          /\ year' = [year EXCEPT !.adjusted = a.adjustment]
    BY SMT DEF AdjustYear
<1>2. PICK a \in YearAdjustments(x[1], x[2]) :
          ~year.settled /\ year' = [year EXCEPT !.adjusted = a.adjustment]
    BY <1>1, SMT
<1>3. x[1] \in Nat /\ x[2] \in Nat
    BY TaxAssumption, SMT
<1>4. a.adjustment \in Int
    BY <1>3, AdjustmentsAreInt, SMT
<1> QED
    BY <1>2, <1>4, SMT DEF YearInv, CompanyYear, QuartersSettle

\* The settlement compares what was prepaid with the tax of the adjusted result.
LEMMA SettleStep == ASSUME YearInv, SettleYear PROVE YearInv'
<1>1. PICK small \in BOOLEAN :
          LET result == CalcAnnualSettlement(year.profit, year.adjusted, 25, year.paid, small) IN
          /\ year.quarter = 4 /\ ~year.settled
          /\ year' = [year EXCEPT !.settled = TRUE, !.small = small,
                                  !.payable = result.payable, !.due = result.due]
    BY Zenon DEF SettleYear
<1> DEFINE result == CalcAnnualSettlement(year.profit, year.adjusted, 25, year.paid, small)
           q == year.profit + year.adjusted
           payable == result.payable
<1>2. year.profit \in Int /\ year.adjusted \in Int /\ year.paid \in Nat /\ q \in Int
    BY SMT DEF YearInv, CompanyYear
<1>3. payable = IF small /\ AtLeast0(q) <= 300000000 THEN CalcSmallProfitCIT(AtLeast0(q)) ELSE QuarterTax(q)
    BY SMT DEF CalcAnnualSettlement, QuarterTax, YUAN
<1>3a. result.due = payable - year.paid
    BY SMT DEF CalcAnnualSettlement
<1>3b. year' = [year EXCEPT !.settled = TRUE, !.small = small, !.payable = payable,
                            !.due = result.due]
    BY <1>1, Zenon
<1>4. payable \in Nat /\ payable <= QuarterTax(q) /\ (~small => payable = QuarterTax(q))
  <2>1. AtLeast0(q) \in Nat
    BY <1>2, AtLeast0Nat, SMT
  <2>2. AtLeast0(q) <= 300000000 =>
            CalcSmallProfitCIT(AtLeast0(q)) \in Nat /\ CalcSmallProfitCIT(AtLeast0(q)) <= QuarterTax(q)
    BY <2>1, SmallTaxIsSmaller, SMT DEF QuarterTax
  <2>3. QuarterTax(q) \in Nat
    BY <1>2, QuarterTaxGrows, SMT
  <2> HIDE DEF q, result
  <2> QED
    BY <1>3, <2>2, <2>3, SMT
<1> HIDE DEF payable, result
<1>5. payable - year.paid \in Int
    BY <1>2, <1>4, SMT
<1>6. year' = [year EXCEPT !.settled = TRUE, !.small = small, !.payable = payable,
                           !.due = payable - year.paid]
    BY <1>3a, <1>3b, Zenon
<1>7. /\ year'.quarter = 4 /\ year'.profit = year.profit /\ year'.paid = year.paid
      /\ year'.adjusted = year.adjusted /\ year'.fell = year.fell /\ year'.small = small
      /\ year'.due = payable - year.paid
  <2>1. year \in CompanyYear /\ year.quarter = 4
    BY <1>1 DEF YearInv
  <2> HIDE DEF q
  <2> QED
    BY <1>6, <2>1 DEF CompanyYear
<1>8. year' \in CompanyYear
  <2>1. year \in CompanyYear
    BY DEF YearInv
  <2> HIDE DEF q
  <2> QED
    BY <1>4, <1>5, <1>6, <2>1 DEF CompanyYear
<1>9. year'.due > 0 => year'.adjusted > 0
  <2>1. year.adjusted <= 0 => QuarterTax(q) <= QuarterTax(year.profit)
    BY <1>2, QuarterTaxGrows, SMT
  <2>2. QuarterTax(year.profit) \in Nat /\ QuarterTax(q) \in Nat
    BY <1>2, QuarterTaxGrows, SMT
  <2> HIDE DEF q
  <2> QED
    BY <1>2, <1>4, <1>7, <2>1, <2>2, SMT DEF YearInv
<1>10. year'.due < 0 => year'.fell \/ year'.small \/ year'.adjusted < 0
  <2>1. year.adjusted >= 0 => QuarterTax(year.profit) <= QuarterTax(q)
    BY <1>2, QuarterTaxGrows, SMT
  <2>2. QuarterTax(year.profit) \in Nat /\ QuarterTax(q) \in Nat
    BY <1>2, QuarterTaxGrows, SMT
  <2> HIDE DEF q
  <2>3. ASSUME ~year.fell, ~small, year.adjusted >= 0 PROVE payable - year.paid >= 0
    BY <1>2, <1>4, <2>1, <2>2, <2>3, SMT DEF YearInv
  <2>4. \/ year.fell \/ small \/ year.adjusted < 0
        \/ ~year.fell /\ ~small /\ year.adjusted >= 0
    BY <1>2, SMT
  <2>5. year'.due < 0 => ~(payable - year.paid >= 0)
    BY <1>5, <1>7, SMT
  <2> QED
    BY <1>7, <2>3, <2>4, <2>5, Zenon
<1> QED
    BY <1>7, <1>8, <1>9, <1>10, SMT DEF YearInv, QuartersSettle

LEMMA YearAlways == TaxSpec => []YearInv
<1>1. TaxInit => YearInv
    BY SMT DEF TaxInit, YearInv, NewYear, CompanyYear, QuartersSettle, QuarterTax, AtLeast0, Share,
               ShareOf
<1>2. YearInv /\ [TaxNext]_taxVars => YearInv'
  <2> SUFFICES ASSUME YearInv, [TaxNext]_taxVars PROVE YearInv'
    OBVIOUS
  <2>1. CASE EndQuarter
    BY <2>1, QuarterStep, SMT
  <2>2. CASE AdjustYear
    BY <2>2, AdjustStep, SMT
  <2>3. CASE SettleYear
    BY <2>3, SettleStep, SMT
  <2>4. CASE UNCHANGED year
    BY <2>4, SMT DEF YearInv, QuartersSettle
  <2>5. QuestionNext \/ PayrollNext => UNCHANGED year
    BY DEF QuestionNext, AskGeneralVAT, AskLevyVAT, AskExemptVAT, AskPIT, AskCIT, AskStamp,
           AskBooks, Answer, PayrollNext, WithholdMonth
  <2> QED
    BY <2>1, <2>2, <2>3, <2>4, <2>5, SMT DEF TaxNext, YearNext, taxVars
<1> QED
    BY <1>1, <1>2, PTL DEF TaxSpec

\* For any results of the quarters and any adjustments: the four prepayments
\* and the settlement neither miss nor overcharge tax without a reason.
THEOREM YearSettled == TaxSpec => []QuartersSettle
<1>1. YearInv => QuartersSettle
    BY DEF YearInv
<1> QED
    BY <1>1, YearAlways, PTL
-----------------------------------------------------------------------------
(* Answers *)

Locs == {"city", "town", "other"}

\* VAT of either kind with its surcharges, in one argument.
LevyTax(payable, loc) == payable + Surcharges(payable, UrbanConstructionRate(loc))
GeneralTax(in, loc, base) == LevyTax(AtLeast0(base - in), loc)
SmallScaleTax(levy, loc, base) == LevyTax(AtLeast0(Share(base, LevyRate(levy), 100)), loc)
CITOf(small, base) == CalcAnnualSettlement(base, 0, 25, 0, small).payable
StampOf(category, base) ==
    IF category = "books" THEN CalcStampTax("books", 0, base) ELSE CalcStampTax(category, base, 0)

\* The tax of an answer is a function of what was asked and of the base.
AnswerInv ==
    LET a == answer.asked  base == answer.base  tax == answer.tax IN
    /\ base \in Nat
    /\ a[1] \in {"nothing", "general", "small_scale", "exempt", "pit", "cit", "stamp"}
    /\ a[1] = "nothing" => tax = 0
    /\ a[1] = "general" => a[2] \in Amounts /\ a[3] \in Locs /\ tax = GeneralTax(a[2], a[3], base)
    /\ a[1] = "small_scale" =>
          a[2] \in {0, 1, 5} /\ a[3] \in Locs /\ tax = SmallScaleTax(a[2], a[3], base)
    /\ a[1] = "exempt" =>
          a[2] \in {0, 1} /\ a[3] \in {0, 1} /\ tax = CalcSmallScaleVAT(base, a[2], a[3])
    /\ a[1] = "pit" => tax = MarginalTax(base)
    /\ a[1] = "cit" => tax = CITOf(a[2], base)
    /\ a[1] = "stamp" =>
          a[2] \in {"sales", "loan", "lease", "property", "books"} /\ tax = StampOf(a[2], base)

LEMMA LevyTaxGrows ==
    ASSUME NEW x \in Nat, NEW y \in Nat, x <= y, NEW loc \in Locs
    PROVE  LevyTax(x, loc) <= LevyTax(y, loc)
<1>1. UrbanConstructionRate(loc) \in Rates /\ 3 \in Rates /\ 2 \in Rates
    BY SMT DEF UrbanConstructionRate, Rates, Locs
<1>2. \A n \in Rates : Share(x, n, 100) \in Nat /\ Share(y, n, 100) \in Nat
                        /\ Share(x, n, 100) <= Share(y, n, 100)
    BY ShareNat, ShareGrows, SMT
<1> QED
    BY <1>1, <1>2, SMT DEF LevyTax, Surcharges

LEMMA GeneralGrows ==
    ASSUME NEW x \in Nat, NEW y \in Nat, x <= y, NEW in \in Nat, NEW loc \in Locs
    PROVE  GeneralTax(in, loc, x) <= GeneralTax(in, loc, y)
<1>1. /\ AtLeast0(x - in) \in Nat /\ AtLeast0(y - in) \in Nat
      /\ AtLeast0(x - in) <= AtLeast0(y - in)
    BY SMT DEF AtLeast0
<1> QED
    BY <1>1, LevyTaxGrows, SMT DEF GeneralTax

LEMMA SmallScaleGrows ==
    ASSUME NEW x \in Nat, NEW y \in Nat, x <= y, NEW levy \in {0, 1, 5}, NEW loc \in Locs
    PROVE  SmallScaleTax(levy, loc, x) <= SmallScaleTax(levy, loc, y)
<1>1. LevyRate(levy) \in Rates
    BY SMT DEF LevyRate, Rates
<1>2. /\ Share(x, LevyRate(levy), 100) \in Nat /\ Share(y, LevyRate(levy), 100) \in Nat
      /\ Share(x, LevyRate(levy), 100) <= Share(y, LevyRate(levy), 100)
    BY <1>1, ShareNat, ShareGrows, SMT
<1>3. /\ AtLeast0(Share(x, LevyRate(levy), 100)) = Share(x, LevyRate(levy), 100)
      /\ AtLeast0(Share(y, LevyRate(levy), 100)) = Share(y, LevyRate(levy), 100)
    BY <1>2, SMT DEF AtLeast0
<1> QED
    BY <1>2, <1>3, LevyTaxGrows, SMT DEF SmallScaleTax

LEMMA ExemptGrows ==
    ASSUME NEW x \in Nat, NEW y \in Nat, x <= y, NEW levy \in {0, 1}, NEW months \in {0, 1}
    PROVE  CalcSmallScaleVAT(x, levy, months) <= CalcSmallScaleVAT(y, levy, months)
<1>1. LevyRate(levy) \in Rates
    BY SMT DEF LevyRate, Rates
<1>2. /\ Share(x, LevyRate(levy), 100) \in Nat /\ Share(y, LevyRate(levy), 100) \in Nat
      /\ Share(x, LevyRate(levy), 100) <= Share(y, LevyRate(levy), 100)
    BY <1>1, ShareNat, ShareGrows, SMT
<1> QED
    BY <1>2, SMT DEF CalcSmallScaleVAT, YUAN

LEMMA CITGrows ==
    ASSUME NEW x \in Nat, NEW y \in Nat, x <= y, NEW small
    PROVE  CITOf(small, x) <= CITOf(small, y)
<1>1. \A z \in Nat : CITOf(small, z) = IF small /\ z <= 300000000 THEN CalcSmallProfitCIT(z)
                                                                 ELSE Share(z, 25, 100)
    BY SMT DEF CITOf, CalcAnnualSettlement, AtLeast0, YUAN
<1>2. Share(x, 25, 100) \in Nat /\ Share(y, 25, 100) \in Nat /\ Share(x, 25, 100) <= Share(y, 25, 100)
    BY ShareNat, ShareGrows, SMT DEF Rates
<1>3. x <= 300000000 => CalcSmallProfitCIT(x) \in Nat /\ CalcSmallProfitCIT(x) <= Share(x, 25, 100)
    BY SmallTaxIsSmaller, SMT
<1>4. y <= 300000000 => CalcSmallProfitCIT(x) <= CalcSmallProfitCIT(y)
    BY SMTT(60) DEF CalcSmallProfitCIT, Share, ShareOf, YUAN
<1> QED
    BY <1>1, <1>2, <1>3, <1>4, SMT

LEMMA StampGrows ==
    ASSUME NEW x \in Nat, NEW y \in Nat, x <= y,
           NEW category \in {"sales", "loan", "lease", "property", "books"}
    PROVE  StampOf(category, x) <= StampOf(category, y)
<1>1. CASE category = "books"
    BY <1>1, SMT DEF StampOf, CalcStampTax, YUAN
<1>2. CASE category = "loan"
    BY <1>2, SMT DEF StampOf, CalcStampTax, StampRate, Share, ShareOf
<1>3. CASE category = "lease"
    BY <1>3, SMT DEF StampOf, CalcStampTax, StampRate, Share, ShareOf
<1>4. CASE category = "property"
    BY <1>4, SMT DEF StampOf, CalcStampTax, StampRate, Share, ShareOf
<1>5. CASE category = "sales"
    BY <1>5, SMT DEF StampOf, CalcStampTax, StampRate, Share, ShareOf
<1> QED
    BY <1>1, <1>2, <1>3, <1>4, <1>5

\* Two answers to one question.
LEMMA AnswersGrow ==
    ASSUME AnswerInv, AnswerInv', answer'.asked = answer.asked, answer'.base >= answer.base
    PROVE  answer'.tax >= answer.tax
<1> DEFINE a == answer.asked  x == answer.base  y == answer'.base
<1>1. x \in Nat /\ y \in Nat /\ x <= y
    BY DEF AnswerInv
<1>2. CASE a[1] = "nothing"
    BY <1>2 DEF AnswerInv
<1>3. CASE a[1] = "general"
  <2>1. a[2] \in Nat /\ a[3] \in Locs /\ answer.tax = GeneralTax(a[2], a[3], x)
        /\ answer'.tax = GeneralTax(a[2], a[3], y)
    BY <1>3, TaxAssumption DEF AnswerInv
  <2>2. GeneralTax(a[2], a[3], x) <= GeneralTax(a[2], a[3], y)
    BY <1>1, <2>1, GeneralGrows
  <2> QED
    BY <2>1, <2>2
<1>4. CASE a[1] = "small_scale"
  <2>1. a[2] \in {0, 1, 5} /\ a[3] \in Locs /\ answer.tax = SmallScaleTax(a[2], a[3], x)
        /\ answer'.tax = SmallScaleTax(a[2], a[3], y)
    BY <1>4 DEF AnswerInv
  <2>2. SmallScaleTax(a[2], a[3], x) <= SmallScaleTax(a[2], a[3], y)
    BY <1>1, <2>1, SmallScaleGrows
  <2> QED
    BY <2>1, <2>2
<1>5. CASE a[1] = "exempt"
  <2>1. a[2] \in {0, 1} /\ a[3] \in {0, 1} /\ answer.tax = CalcSmallScaleVAT(x, a[2], a[3])
        /\ answer'.tax = CalcSmallScaleVAT(y, a[2], a[3])
    BY <1>5 DEF AnswerInv
  <2>2. CalcSmallScaleVAT(x, a[2], a[3]) <= CalcSmallScaleVAT(y, a[2], a[3])
    BY <1>1, <2>1, ExemptGrows
  <2> QED
    BY <2>1, <2>2
<1>6. CASE a[1] = "pit"
    BY <1>1, <1>6, MarginalTaxGrows DEF AnswerInv
<1>7. CASE a[1] = "cit"
  <2>1. answer.tax = CITOf(a[2], x) /\ answer'.tax = CITOf(a[2], y)
    BY <1>7 DEF AnswerInv
  <2> QED
    BY <1>1, <2>1, CITGrows
<1>8. CASE a[1] = "stamp"
  <2>1. a[2] \in {"sales", "loan", "lease", "property", "books"}
        /\ answer.tax = StampOf(a[2], x) /\ answer'.tax = StampOf(a[2], y)
    BY <1>8 DEF AnswerInv
  <2> QED
    BY <1>1, <2>1, StampGrows
<1> QED
    BY <1>2, <1>3, <1>4, <1>5, <1>6, <1>7, <1>8 DEF AnswerInv

LEMMA AnswerStep == ASSUME AnswerInv, [TaxNext]_taxVars PROVE AnswerInv'
<1>1. CASE AskGeneralVAT
  <2>1. PICK out \in Amounts, in \in Amounts, loc \in Locs :
            answer' = [asked |-> <<"general", in, loc>>, base |-> out,
                       tax |-> CalculateWithLocation([type |-> "general", output |-> out,
                                   input |-> in, sales |-> 0, levy |-> 0], loc).total]
    BY <1>1 DEF AskGeneralVAT, Answer, Locs
  <2>2. answer'.tax = GeneralTax(in, loc, out)
    BY <2>1, SMT DEF CalculateWithLocation, VATPayable, GeneralTax, LevyTax
  <2> QED
    BY <2>1, <2>2, TaxAssumption DEF AnswerInv
<1>2. CASE AskLevyVAT
  <2>1. PICK sales \in Amounts, levy \in {0, 1, 5}, loc \in Locs :
            answer' = [asked |-> <<"small_scale", levy, loc>>, base |-> sales,
                       tax |-> CalculateWithLocation([type |-> "small_scale", output |-> 0,
                                   input |-> 0, sales |-> sales, levy |-> levy], loc).total]
    BY <1>2 DEF AskLevyVAT, Answer, Locs
  <2>2. answer'.tax = SmallScaleTax(levy, loc, sales)
    BY <2>1, SMT DEF CalculateWithLocation, VATPayable, SmallScaleTax, LevyTax
  <2> QED
    BY <2>1, <2>2, TaxAssumption DEF AnswerInv
<1>3. CASE AskExemptVAT
    BY <1>3, TaxAssumption DEF AskExemptVAT, Answer, AnswerInv
<1>4. CASE AskPIT
  <2> DEFINE In(salary, children, elders) ==
        [monthly |-> 0, salary |-> salary, months |-> 12, special |-> 0, additional |-> 0,
         other |-> 0, prepaid |-> 0,
         items |-> [children |-> children, education |-> FALSE, loan |-> TRUE, rent |-> 2,
                    elders |-> elders, infants |-> 0]]
  <2>1. PICK salary \in Amounts, children \in 0..1, elders \in 0..2 :
            answer' = [asked |-> <<"pit", children, elders>>,
                       base |-> TaxableIncome(In(salary, children, elders)),
                       tax |-> CalcPIT(In(salary, children, elders)).current]
    BY <1>4 DEF AskPIT, Answer
  <2> DEFINE in == In(salary, children, elders)
  <2>2. salary \in Nat
    BY TaxAssumption
  <2>3. CalcMonthlySpecialAdditional(in.items) \in Int
    BY SMT DEF CalcMonthlySpecialAdditional, YUAN, Smaller
  <2>4. SpecialAdditional(in) \in Int
    BY <2>3, SMT DEF SpecialAdditional
  <2>5. TaxableIncome(in) \in Nat
    BY <2>2, <2>4, SMT DEF TaxableIncome, AtLeast0, YUAN
  <2>6. CalcPIT(in).current = AtLeast0(AccumulatedTax(TaxableIncome(in)) - 0)
    BY SMT DEF CalcPIT
  <2>7. AccumulatedTax(TaxableIncome(in)) = MarginalTax(TaxableIncome(in))
        /\ MarginalTax(TaxableIncome(in)) \in Nat
    BY <2>5, TaxIsMarginal, MarginalTaxGrows
  <2> HIDE DEF in, In
  <2>8. CalcPIT(in).current = MarginalTax(TaxableIncome(in))
    BY <2>6, <2>7, SMT DEF AtLeast0
  <2> QED
    BY <2>1, <2>5, <2>8 DEF AnswerInv, in
<1>5. CASE AskCIT
  <2>1. PICK profit \in Amounts, small \in BOOLEAN :
            answer' = [asked |-> <<"cit", small>>, base |-> profit, tax |-> CITOf(small, profit)]
    BY <1>5, Zenon DEF AskCIT, Answer, CITOf
  <2> QED
    BY <2>1, TaxAssumption DEF AnswerInv
<1>6. CASE AskStamp
    BY <1>6, TaxAssumption DEF AskStamp, Answer, AnswerInv, StampOf
<1>7. CASE AskBooks
    BY <1>7 DEF AskBooks, Answer, AnswerInv, StampOf
<1>8. CASE UNCHANGED answer
    BY <1>8 DEF AnswerInv
<1>9. PayrollNext \/ YearNext => UNCHANGED answer
    BY DEF PayrollNext, WithholdMonth, YearNext, EndQuarter, AdjustYear, SettleYear
<1> QED
    BY <1>1, <1>2, <1>3, <1>4, <1>5, <1>6, <1>7, <1>8, <1>9 DEF TaxNext, QuestionNext, taxVars

LEMMA AnswerInit == TaxInit => AnswerInv
BY DEF TaxInit, Unasked, AnswerInv

\* No cent more of a base lowers the tax, in any bracket or between two.
THEOREM TaxGrows == TaxSpec => MoreBaseMoreTax
<1>1. AnswerInv /\ AnswerInv' =>
        [ answer'.asked = answer.asked /\ answer'.base >= answer.base
          => answer'.tax >= answer.tax ]_answer
    BY AnswersGrow
<1>2. TaxInit => AnswerInv
    BY AnswerInit
<1>3. AnswerInv /\ [TaxNext]_taxVars => AnswerInv'
    BY AnswerStep
<1> QED
    BY <1>1, <1>2, <1>3, PTL DEF TaxSpec, MoreBaseMoreTax

\* The table of rates and quick deductions is a marginal tax for every income.
THEOREM TaxMarginal == TaxSpec => []BracketsMarginal
<1>1. AnswerInv => BracketsMarginal
    BY DEF AnswerInv, BracketsMarginal
<1> QED
    BY <1>1, AnswerInit, AnswerStep, PTL DEF TaxSpec

-----------------------------------------------------------------------------
(* Books *)

\* Unless a book was created meanwhile, what a SetDefault in flight has in its
\* snapshot are all books; and an entity with a default keeps one.
BooksInv ==
    /\ BooksTypeOK
    /\ Seed # NoBook => default # {}
    /\ ~overlap => \A s \in Switchers : switch[s].at = "clearing" => switch[s].seen = books
    /\ OneDefault
    /\ DefaultServes

LEMMA BooksInit_Inv == BooksInit => BooksInv
<1> SUFFICES ASSUME BooksInit PROVE BooksInv
    OBVIOUS
<1>1. Idle \in Transaction
    BY DEF Idle, Transaction
<1>2. BooksTypeOK
    BY <1>1, BooksAssumption DEF BooksInit, BooksTypeOK, Idle
<1> QED
    BY <1>2, BooksAssumption DEF BooksInit, BooksInv, OneDefault, DefaultServes, Idle

LEMMA BooksStep_Inv == BooksInv /\ [BooksNext]_bookVars => BooksInv'
<1> SUFFICES ASSUME BooksInv, [BooksNext]_bookVars PROVE BooksInv'
    OBVIOUS
<1> USE BooksAssumption DEF BooksInv, BooksTypeOK, OneDefault, DefaultServes
<1>1. CASE CreateBook
  <2>1. BooksTypeOK'
    BY <1>1 DEF CreateBook, Transaction
  <2>2. ~overlap' => ~overlap /\ \A s \in Switchers : switch[s].at = "idle"
    BY <1>1 DEF CreateBook, InFlight
  <2>3. default' = default /\ switch' = switch /\ astray' = astray
    BY <1>1 DEF CreateBook
  <2>4. QED
    BY <2>1, <2>2, <2>3
<1>2. CASE SetDefaultBegin
    BY <1>2 DEF SetDefaultBegin, Transaction
<1>3. CASE SetDefaultClear
    BY <1>3 DEF SetDefaultClear, Transaction
<1>4. CASE SetDefaultCommit
    BY <1>4 DEF SetDefaultCommit, Transaction, Idle
<1>5. CASE SetDefaultAbort
    BY <1>5 DEF SetDefaultAbort, Transaction, Idle
<1>6. CASE WriteDocument
  <2>1. PICK asked \in AllBooks \cup {NoBook}, failed \in BOOLEAN : \E b \in ResolveBook(asked, failed) :
            /\ astray' = IF b \in books THEN astray
                         ELSE astray \cup {IF failed THEN "unread"
                                           ELSE IF asked # NoBook THEN "unknown" ELSE "no_default"}
            /\ UNCHANGED <<books, default, switch, overlap>>
      BY <1>6 DEF WriteDocument
  <2>2. PICK b \in ResolveBook(asked, failed) :
            /\ astray' = IF b \in books THEN astray
                         ELSE astray \cup {IF failed THEN "unread"
                                           ELSE IF asked # NoBook THEN "unknown" ELSE "no_default"}
            /\ UNCHANGED <<books, default, switch, overlap>>
      BY <2>1
  <2>3. Seed # NoBook /\ ~failed /\ asked = NoBook => b \in books
      BY <2>2 DEF ResolveBook
  <2> QED
      BY <2>2, <2>3
<1>7. CASE UNCHANGED bookVars
    BY <1>7 DEF bookVars
<1> QED
    BY <1>1, <1>2, <1>3, <1>4, <1>5, <1>6, <1>7 DEF BooksNext

\* However many calls of BookStore.SetDefault overlap and wherever they are cut
\* off, two books are the default only after one was created during such a call.
THEOREM DefaultUnique == BooksSpec => []OneDefault
<1>1. BooksInv => OneDefault
    BY DEF BooksInv
<1> QED
    BY <1>1, BooksInit_Inv, BooksStep_Inv, PTL DEF BooksSpec

\* ResolveBook, whose SELECT returns, finds a default for an entity that was given one: only a
\* failed SELECT or an id that no book has leads a document astray.
THEOREM DefaultKept == BooksSpec => [](BooksTypeOK /\ DefaultServes)
<1>1. BooksInv => BooksTypeOK /\ DefaultServes
    BY DEF BooksInv
<1> QED
    BY <1>1, BooksInit_Inv, BooksStep_Inv, PTL DEF BooksSpec

-----------------------------------------------------------------------------
(* Reconciliation *)

\* A clerk whose summary nobody's match overtook sees unpaid invoices only.
ReconciliationInv ==
    /\ recorded \subseteq Transactions /\ matched \subseteq recorded \X Invoices
    /\ view \in [Clerks -> SUBSET Invoices]
    /\ \A c \in Clerks \ outdated : \A i \in view[c] : \A p \in matched : p[2] # i
    /\ DoublePaymentNeedsOldSummary

\* What the three-way match shows without a payment has none.
LEMMA UnpaidHaveNone ==
    ASSUME ReconciliationInv
    PROVE  \A i \in Unpaid(ThreeWayRows) : i \in Invoices /\ \A p \in matched : p[2] # i
<1> SUFFICES ASSUME NEW i \in Unpaid(ThreeWayRows)
             PROVE  i \in Invoices /\ \A p \in matched : p[2] # i
    OBVIOUS
<1>1. PICK r \in ThreeWayRows : r.paid = {} /\ r.invoice = i
    BY DEF Unpaid
<1>2. PICK j \in Listed : r \in (IF PaymentsOf(j) = {} THEN {MatchRow(j, {})}
                                 ELSE {MatchRow(j, {t}) : t \in PaymentsOf(j)})
    BY <1>1 DEF ThreeWayRows
<1>3. r.invoice = j
    BY <1>2 DEF MatchRow
<1>4. PaymentsOf(j) = {}
    BY <1>1, <1>2 DEF MatchRow
<1> QED
    BY <1>1, <1>3, <1>4 DEF Listed, PaymentsOf

LEMMA ReconciliationStep_Inv ==
    ReconciliationInv /\ [ReconciliationNext]_reconciliationVars => ReconciliationInv'
<1> SUFFICES ASSUME ReconciliationInv, [ReconciliationNext]_reconciliationVars
             PROVE  ReconciliationInv'
    OBVIOUS
<1> USE DEF ReconciliationInv, DoublePaymentNeedsOldSummary
<1>1. CASE Review
    BY <1>1 DEF Review
<1>2. CASE UpsertLogistics
    BY <1>2 DEF UpsertLogistics
<1>3. CASE UpsertBankTransaction
    BY <1>3 DEF UpsertBankTransaction
<1>4. CASE ThreeWayMatch
  <2>1. PICK c \in Clerks :
            /\ view' = [view EXCEPT ![c] = Unpaid(ThreeWayRows)]
            /\ outdated' = outdated \ {c}
            /\ UNCHANGED <<stage, recorded, matched, shipments, doubtful>>
    BY <1>4 DEF ThreeWayMatch
  <2> QED
    BY <2>1, UnpaidHaveNone
<1>5. CASE MatchBankToInvoice
  <2>1. PICK c \in Clerks, t \in recorded : \E i \in view[c] :
            /\ matched' = {p \in matched : p[1] # t} \cup {<<t, i>>}
            /\ view' = [view EXCEPT ![c] = {}]
            /\ outdated' = (outdated \ {c}) \cup {d \in Clerks \ {c} : view[d] # {}}
            /\ doubtful' = IF c \in outdated THEN doubtful \cup {i} ELSE doubtful
            /\ UNCHANGED <<stage, recorded, shipments>>
    BY <1>5 DEF MatchBankToInvoice
  <2>2. PICK i \in view[c] :
            /\ matched' = {p \in matched : p[1] # t} \cup {<<t, i>>}
            /\ doubtful' = IF c \in outdated THEN doubtful \cup {i} ELSE doubtful
    BY <2>1
  <2>3. recorded' \subseteq Transactions /\ matched' \subseteq recorded' \X Invoices
        /\ view' \in [Clerks -> SUBSET Invoices]
    BY <2>1, <2>2
  <2>4. \A d \in Clerks \ outdated' : view'[d] = {}
    BY <2>1
  <2>5. DoublePaymentNeedsOldSummary'
    <3>1. CASE c \in outdated
      BY <2>2, <3>1
    <3>2. CASE c \notin outdated
      BY <2>2, <3>2
    <3> QED
      BY <3>1, <3>2
  <2> QED
    BY <2>3, <2>4, <2>5
<1>6. CASE UnmatchBankFromInvoice
    BY <1>6 DEF UnmatchBankFromInvoice
<1>7. CASE UNCHANGED reconciliationVars
    BY <1>7 DEF reconciliationVars
<1> QED
    BY <1>1, <1>2, <1>3, <1>4, <1>5, <1>6, <1>7 DEF ReconciliationNext

\* The unconditional UPDATE of MatchBankToInvoice is safe for clerks who read
\* the three-way match before every match while nobody else matches.
THEOREM PaidOnceOnFreshSummaries == ReconciliationSpec => []DoublePaymentNeedsOldSummary
<1>1. ReconciliationInit => ReconciliationInv
    BY DEF ReconciliationInit, ReconciliationInv, DoublePaymentNeedsOldSummary
<1>2. ReconciliationInv => DoublePaymentNeedsOldSummary
    BY DEF ReconciliationInv
<1> QED
    BY <1>1, <1>2, ReconciliationStep_Inv, PTL DEF ReconciliationSpec

-----------------------------------------------------------------------------
(* Adjustments *)

\* The first records of a batch are stored, and nothing else has their ids.
Stored(batch, n) ==
    /\ \A k \in 1..n : batch[k] \in adjustment
    /\ \A k \in 1..n : \A r \in adjustment : r.id = batch[k].id => r = batch[k]

AdjustmentsInv ==
    /\ fresh \in 0..MaxFresh
    /\ sending \in [Senders -> [at : {"idle", "sending", "stored", "failed"},
                                batch : Seq(Record), done : Nat]]
    /\ \A c \in Senders : sending[c].done <= Len(sending[c].batch)
    /\ \A c \in Senders : sending[c].at = "stored" => sending[c].done = Len(sending[c].batch)
    /\ \A c \in Senders :
          sending[c].at \in {"sending", "stored"} /\ c \notin disturbed /\ OwnIds(sending[c].batch)
          => Stored(sending[c].batch, sending[c].done)

LEMMA AdjustmentsInit_Inv == AdjustmentsInit => AdjustmentsInv
BY AdjustmentAssumption DEF AdjustmentsInit, AdjustmentsInv, Silent

LEMMA UpsertNext_Inv ==
    ASSUME AdjustmentsInv, UpsertNext
    PROVE  AdjustmentsInv'
<1> USE AdjustmentAssumption
<1>1. PICK c \in Senders :
          LET r == sending[c].batch[sending[c].done + 1] IN
          /\ sending[c].at = "sending" /\ sending[c].done < Len(sending[c].batch)
          /\ \/ r.id # NoId /\ adjustment' = Upserted(r) /\ UNCHANGED fresh
             \/ /\ r.id = NoId /\ fresh < MaxFresh /\ fresh' = fresh + 1
                /\ adjustment' = Upserted([r EXCEPT !.id = MadeUp(fresh)])
          /\ sending' = [sending EXCEPT ![c] =
                [at |-> "sending", batch |-> sending[c].batch, done |-> sending[c].done + 1]]
          /\ Disturb(c, r.id)
    BY DEF UpsertNext, Progress
<1> DEFINE r == sending[c].batch[sending[c].done + 1]
           n == sending[c].done
<1>2. n \in Nat /\ n < Len(sending[c].batch) /\ sending[c].batch \in Seq(Record)
    BY <1>1 DEF AdjustmentsInv
<1>3. r \in Record /\ n + 1 \in DOMAIN sending[c].batch
    BY <1>2
<1>4. \A d \in Senders : /\ sending'[d].at = sending[d].at
                         /\ sending'[d].batch = sending[d].batch
                         /\ sending'[d].done = IF d = c THEN n + 1 ELSE sending[d].done
    BY <1>1 DEF AdjustmentsInv
<1>5. fresh' \in 0..MaxFresh
    BY <1>1 DEF AdjustmentsInv
<1>6. sending' \in [Senders -> [at : {"idle", "sending", "stored", "failed"},
                               batch : Seq(Record), done : Nat]]
    BY <1>1, <1>2 DEF AdjustmentsInv
<1>7. disturbed \subseteq disturbed'
    BY <1>1 DEF Disturb
<1>8. \A d \in Senders : sending'[d].at = "stored" => sending'[d].done = Len(sending'[d].batch)
    BY <1>1, <1>4 DEF AdjustmentsInv
<1>9. ASSUME NEW d \in Senders PROVE sending'[d].done <= Len(sending'[d].batch)
  <2>1. sending'[d].batch = sending[d].batch /\ sending[d].done <= Len(sending[d].batch)
      BY <1>4 DEF AdjustmentsInv
  <2>2. CASE d = c
    <3>1. sending'[d].done = n + 1
        BY <1>4, <2>2
    <3>2. Len(sending[c].batch) \in Nat /\ n + 1 <= Len(sending[c].batch)
        BY <1>2
    <3> QED
        BY <2>1, <2>2, <3>1, <3>2
  <2>3. CASE d # c
      BY <1>4, <2>1, <2>3
  <2> QED
      BY <2>2, <2>3
<1>10. ASSUME NEW d \in Senders, sending'[d].at \in {"sending", "stored"}, d \notin disturbed',
              OwnIds(sending'[d].batch)
       PROVE  Stored(sending[d].batch, sending[d].done)'
  <2> DEFINE b == sending[d].batch
  <2>1. b \in Seq(Record) /\ sending[d].done \in Nat /\ sending[d].done <= Len(b)
      BY DEF AdjustmentsInv
  <2>2. Stored(b, sending[d].done) /\ OwnIds(b)
      BY <1>4, <1>7, <1>10 DEF AdjustmentsInv
  <2>3. CASE d = c
    <3>1. r.id # NoId
        BY <1>3, <2>2, <2>3 DEF OwnIds
    <3>2. adjustment' = {row \in adjustment : row.id # r.id} \cup {r}
        BY <1>1, <3>1 DEF Upserted
    <3>3. \A k \in 1..n : b[k].id # r.id
        BY <1>2, <1>3, <2>2, <2>3 DEF OwnIds
    <3>4. \A k \in 1..(n + 1) : k \in 1..n \/ b[k] = r
        BY <1>2, <2>3
    <3>5. \A k \in 1..(n + 1) : b[k] \in adjustment'
        BY <2>2, <2>3, <3>2, <3>3, <3>4 DEF Stored
    <3>6. \A k \in 1..(n + 1) : \A row \in adjustment' : row.id = b[k].id => row = b[k]
        BY <2>2, <2>3, <3>2, <3>3, <3>4 DEF Stored
    <3> QED
        BY <1>4, <2>3, <3>5, <3>6 DEF Stored
  <2>4. CASE d # c
    <3>1. \A k \in 1..sending[d].done : b[k].id \in Ids /\ b[k].id \in IdsOf(b)
      <4>1. \A k \in 1..sending[d].done : k \in DOMAIN b /\ b[k] \in Record
          BY <2>1
      <4> QED
          BY <4>1, <2>2 DEF OwnIds, IdsOf, Record
    <3>2. r.id \notin IdsOf(b)
        BY <1>1, <1>4, <1>10, <2>4 DEF Disturb
    <3>3. PICK new : /\ adjustment' = {row \in adjustment : row.id # new.id} \cup {new}
                     /\ \A k \in 1..sending[d].done : b[k].id # new.id
      <4>1. CASE r.id # NoId
          BY <1>1, <3>1, <3>2, <4>1 DEF Upserted
      <4>2. CASE r.id = NoId
        <5> DEFINE m == [r EXCEPT !.id = MadeUp(fresh)]
        <5>1. m.id = MadeUp(fresh)
            BY <1>3 DEF Record
        <5>2. MadeUp(fresh) \notin Ids
            BY DEF AdjustmentsInv
        <5>3. adjustment' = {row \in adjustment : row.id # m.id} \cup {m}
            BY <1>1, <4>2 DEF Upserted
        <5>4. \A k \in 1..sending[d].done : b[k].id # m.id
            BY <3>1, <5>1, <5>2
        <5> HIDE DEF m
        <5> QED
            BY <5>3, <5>4
      <4> QED
          BY <4>1, <4>2
    <3> QED
        BY <1>4, <2>2, <2>4, <3>3 DEF Stored
  <2> QED
      BY <2>3, <2>4
<1> QED
    BY <1>5, <1>6, <1>8, <1>9, <1>10 DEF AdjustmentsInv

LEMMA AdjustmentsStep_Inv ==
    AdjustmentsInv /\ [AdjustmentsNext]_adjustmentVars => AdjustmentsInv'
<1> SUFFICES ASSUME AdjustmentsInv, [AdjustmentsNext]_adjustmentVars PROVE AdjustmentsInv'
    OBVIOUS
<1>1. CASE Send
  <2>1. PICK c \in Senders, b \in Batches :
            /\ sending' = [sending EXCEPT ![c] = [at |-> "sending", batch |-> b, done |-> 0]]
            /\ disturbed' = disturbed \ {c}
            /\ UNCHANGED <<adjustment, fresh>>
    BY <1>1 DEF Send
  <2>2. b \in Seq(Record)
    BY AdjustmentAssumption
  <2>3. \A d \in Senders : sending'[d] = IF d = c THEN [at |-> "sending", batch |-> b, done |-> 0]
                                          ELSE sending[d]
    BY <2>1 DEF AdjustmentsInv
  <2>4. ASSUME NEW d \in Senders, sending'[d].at \in {"sending", "stored"}, d \notin disturbed',
               OwnIds(sending'[d].batch)
        PROVE  Stored(sending[d].batch, sending[d].done)'
    BY <2>1, <2>3, <2>4 DEF AdjustmentsInv, Stored
  <2> QED
    BY <2>1, <2>2, <2>3, <2>4 DEF AdjustmentsInv
<1>2. CASE UpsertNext
    BY <1>2, UpsertNext_Inv
<1>3. CASE Acknowledge
    BY <1>3 DEF Acknowledge, Progress, AdjustmentsInv, Stored
<1>4. CASE Fail
    BY <1>4 DEF Fail, Progress, AdjustmentsInv, Stored
<1>5. CASE Retry
    BY <1>5 DEF Retry, Progress, AdjustmentsInv, Stored
<1>6. CASE UNCHANGED adjustmentVars
    BY <1>6 DEF adjustmentVars, AdjustmentsInv, Stored
<1> QED
    BY <1>1, <1>2, <1>3, <1>4, <1>5, <1>6 DEF AdjustmentsNext

\* A loop of single statements without a transaction, cut off anywhere and
\* repeated, is as good as a transaction for records that carry their own ids.
THEOREM BatchesRepeatable == AdjustmentsSpec => []BatchStoredOnce
<1>1. AdjustmentsInv => BatchStoredOnce
  <2> SUFFICES ASSUME AdjustmentsInv, NEW c \in Senders, sending[c].at = "stored",
                      c \notin disturbed, OwnIds(sending[c].batch)
               PROVE  {r \in adjustment : r.id \in IdsOf(sending[c].batch)}
                          = {sending[c].batch[k] : k \in DOMAIN sending[c].batch}
      BY DEF BatchStoredOnce
  <2> DEFINE b == sending[c].batch
  <2>1. b \in Seq(Record) /\ Stored(b, Len(b))
      BY DEF AdjustmentsInv
  <2>2. DOMAIN b = 1..Len(b)
      BY <2>1
  <2> HIDE DEF b
  <2> QED
      BY <2>1, <2>2 DEF Stored, IdsOf, OwnIds, b
<1> QED
    BY <1>1, AdjustmentsInit_Inv, AdjustmentsStep_Inv, PTL DEF AdjustmentsSpec

-----------------------------------------------------------------------------

(* Risk: types and ranks *)

\* The rank of a severity is its place in Severity.
LEMMA RankTyped == \A level \in {"none", "info", "warning", "danger"} : Rank(level) \in 1..4
<1>1. \A level \in {"none", "info", "warning", "danger"} : \E k \in 1..4 : Severity[k] = level
  <2>1. Severity[1] = "none" /\ Severity[2] = "info" /\ Severity[3] = "warning" /\ Severity[4] = "danger"
      BY DEF Severity
  <2>2. 1 \in 1..4 /\ 2 \in 1..4 /\ 3 \in 1..4 /\ 4 \in 1..4
      OBVIOUS
  <2> QED  BY <2>1, <2>2
<1> QED
    BY <1>1 DEF Rank

\* The ranks of the severities, one by one.
LEMMA RankOrder == Rank("none") = 1 /\ Rank("info") = 2 /\ Rank("warning") = 3 /\ Rank("danger") = 4
<1>1. Severity[1] = "none" /\ Severity[2] = "info" /\ Severity[3] = "warning" /\ Severity[4] = "danger"
    BY DEF Severity
<1>2. \A k \in 1..4 : k = 1 \/ k = 2 \/ k = 3 \/ k = 4
    OBVIOUS
<1>3. 1 \in 1..4 /\ 2 \in 1..4 /\ 3 \in 1..4 /\ 4 \in 1..4
    OBVIOUS
<1>4. Rank("none") = 1
    BY <1>1, <1>2, <1>3 DEF Rank
<1>5. Rank("info") = 2
    BY <1>1, <1>2, <1>3 DEF Rank
<1>6. Rank("warning") = 3
    BY <1>1, <1>2, <1>3 DEF Rank
<1>7. Rank("danger") = 4
    BY <1>1, <1>2, <1>3 DEF Rank
<1> QED  BY <1>4, <1>5, <1>6, <1>7

Levels == {"none", "warning", "danger"}

\* What Compare stores has its type.
LEMMA CompareTyped ==
    ASSUME NEW asked, NEW distance \in Int, NEW level \in Levels, Compare(asked, distance, level)
    PROVE  compared'.distance \in Int /\ compared'.rank \in 1..4
BY RankTyped DEF Compare, Levels

\* The comparing detectors answer a severity, whatever they are asked.
LEMMA LevelsTyped ==
    /\ \A i, d : DetectInvoiceRevenueMismatch(i, d) \in Levels
    /\ \A e, r, ind : DetectExpenseToRevenueRatio(e, r, ind) \in Levels
    /\ \A c, p : DetectSuddenRevenueChange(c, p) \in Levels
    /\ \A b, ind, small : CalcTaxBurdenBenchmark(b, ind, small) \in Levels
<1>1. \A i, d : DetectInvoiceRevenueMismatch(i, d) \in Levels
    BY DEF DetectInvoiceRevenueMismatch, Levels
<1>2. \A e, r, ind : DetectExpenseToRevenueRatio(e, r, ind) \in Levels
    BY DEF DetectExpenseToRevenueRatio, Levels
<1>3. \A c, p : DetectSuddenRevenueChange(c, p) \in Levels
    BY DEF DetectSuddenRevenueChange, Levels
<1>4. \A b, ind, small : CalcTaxBurdenBenchmark(b, ind, small) \in Levels
    BY DEF CalcTaxBurdenBenchmark, Levels
<1> QED  BY <1>1, <1>2, <1>3, <1>4

LEMMA RiskTypeOK_Init == RiskInit => RiskTypeOK
BY DEF RiskInit, RiskTypeOK, NoFiling, Uncompared

LEMMA RiskTypeOK_Step == RiskTypeOK /\ [FilingNext \/ PurchaseNext \/ CompareNext]_riskVars => RiskTypeOK'
<1> SUFFICES ASSUME RiskTypeOK, [FilingNext \/ PurchaseNext \/ CompareNext]_riskVars
             PROVE  RiskTypeOK'
    OBVIOUS
<1> USE RiskAssumption
<1>1. CASE ListPlace
    BY <1>1 DEF ListPlace, RiskTypeOK
<1>2. CASE File
    BY <1>2 DEF File, RiskTypeOK
<1>3. CASE Purchase
    BY <1>3 DEF Purchase, RiskTypeOK
<1>4. CASE CompareNext
  <2>1. UNCHANGED <<filing, bought>>
      BY <1>4 DEF CompareNext, CompareInvoiced, CompareExpense, CompareRevenue, CompareBurden,
                  CompareSources, Compare
  <2>2. \A x, y \in Compared : Magnitude(x - y) \in Int /\ x \in Int /\ -x \in Int
      BY DEF Magnitude
  <2>3. \A c \in BOOLEAN : (IF c THEN "none" ELSE "warning") \in Levels
      BY DEF Levels
  <2>4. compared'.distance \in Int /\ compared'.rank \in 1..4
    <3>1. CASE CompareInvoiced
        BY <3>1, <2>2, LevelsTyped, CompareTyped DEF CompareInvoiced
    <3>2. CASE CompareExpense
        BY <3>2, <2>2, LevelsTyped, CompareTyped DEF CompareExpense
    <3>3. CASE CompareRevenue
        BY <3>3, <2>2, LevelsTyped, CompareTyped DEF CompareRevenue
    <3>4. CASE CompareBurden
        BY <3>4, <2>2, LevelsTyped, CompareTyped DEF CompareBurden
    <3>5. CASE CompareSources
      <4>1. \A c : (IF c THEN "none" ELSE "warning") \in Levels
          BY DEF Levels
      <4> QED
          BY <3>5, <4>1, <2>2, CompareTyped DEF CompareSources
    <3> QED
        BY <1>4, <3>1, <3>2, <3>3, <3>4, <3>5 DEF CompareNext
  <2> QED
      BY <2>1, <2>4 DEF RiskTypeOK
<1>5. CASE UNCHANGED riskVars
    BY <1>5 DEF riskVars, RiskTypeOK
<1> QED
    BY <1>1, <1>2, <1>3, <1>4, <1>5 DEF FilingNext, PurchaseNext

\* What is filed, bought and compared keeps its type.
LEMMA RiskTypeOKAlways == RiskSpec => []RiskTypeOK
BY RiskTypeOK_Init, RiskTypeOK_Step, PTL DEF RiskSpec

-----------------------------------------------------------------------------

(* Supplier concentration *)

\* What the pass over the suppliers has seen after 0, 1, ... n of them.
SeenSet == [top : Nat, total : Nat]
NoneSeen == [top |-> 0, total |-> 0]
SeeNext(t, x) == [top |-> Greater(t.top, x), total |-> t.total + x]
SeenChain(at, order, amount, n) ==
    /\ at \in [0..n -> SeenSet]
    /\ at[0] = NoneSeen
    /\ \A k \in 1..n : at[k] = SeeNext(at[k - 1], amount[order[k]])

\* The level that is drawn from what was seen.
LevelOf(seen) ==
    LET share == Percent(seen.top, seen.total) IN
    IF seen.total <= 0 \/ seen.top <= 0 \/ share < 50 THEN "none"
    ELSE IF share > 70 THEN "danger" ELSE "warning"

\* Facts of 1..n that the provers do not see next to other definitions.
LEMMA UpToLast ==
    ASSUME NEW n \in Nat
    PROVE  /\ IsFiniteSet(1..n) /\ 1..n \in SUBSET Int
           /\ \A k \in 1..n : (1..k) \ {k} = 1..(k - 1) /\ 1..k \in SUBSET (1..n) /\ 1..k # {}
<1>1. IsFiniteSet(1..n)
    BY FS_Interval, 1 \in Int
<1>2. 1..n \in SUBSET Int
    OBVIOUS
<1>3. ASSUME NEW k \in 1..n
      PROVE  (1..k) \ {k} = 1..(k - 1) /\ 1..k \in SUBSET (1..n) /\ 1..k # {}
  <2>1. k \in 1..k /\ 1..k \in SUBSET (1..n)
      OBVIOUS
  <2>2. (1..k) \ {k} = 1..(k - 1)
      OBVIOUS
  <2> QED  BY <2>1, <2>2
<1> QED  BY <1>1, <1>2, <1>3

\* The fold of DetectSupplierConcentration, as a chain of its steps.
LEMMA SeenSteps ==
    ASSUME NEW order, NEW amount, NEW n \in Nat, DOMAIN order = 1..n,
           \A k \in 1..n : amount[order[k]] \in Nat
    PROVE  \E at : /\ SeenChain(at, order, amount, n)
                   /\ DetectSupplierConcentration(order, amount) = LevelOf(at[n])
<1> DEFINE S == 1..n
           V == SeenSet
           base == NoneSeen
           pick == [T \in SUBSET S |-> Max(T)]
           step == [p \in S \X V |-> SeeNext(p[2], amount[order[p[1]]])]
           F(g) == [T \in SUBSET S |->
                       IF T = {} THEN base ELSE SeeNext(g[T \ {Max(T)}], amount[order[Max(T)]])]
           iter == CHOOSE g : g = F(g)
<1>1. IsFiniteSet(S) /\ S \in SUBSET Int
    BY UpToLast
<1>2. \A T \in SUBSET S : T # {} => Max(T) \in T
    BY <1>1, MaxIsMember
<1>a. base \in V
    BY DEF NoneSeen, SeenSet
<1>b. \A k \in S : \A v \in V : SeeNext(v, amount[order[k]]) \in V
    BY DEF SeeNext, SeenSet, Greater
<1>3. PICK g : Unfolds(g, S, pick, base, V, step)
  <2>1. step \in [S \X V -> V]
      BY <1>b
  <2>2. \A T \in SUBSET S : T # {} => pick[T] \in T
      BY <1>2
  <2> HIDE DEF pick, step, base, V, S
  <2> QED
      BY <1>1, <1>a, <2>1, <2>2, SubsetRecursion
<1>4. g = F(g)
  <2>1. g \in [SUBSET S -> V]
      BY <1>3 DEF Unfolds
  <2>2. ASSUME NEW T \in SUBSET S, T # {}
        PROVE  g[T] = SeeNext(g[T \ {Max(T)}], amount[order[Max(T)]])
    <3>1. g[T] = step[<<pick[T], g[T \ {pick[T]}]>>]
      <4> HIDE DEF pick, step
      <4> QED  BY <1>3, <2>2 DEF Unfolds
    <3>2. pick[T] = Max(T)
        OBVIOUS
    <3>3. Max(T) \in S /\ T \ {Max(T)} \in SUBSET S
        BY <1>2, <2>2
    <3>4. g[T \ {Max(T)}] \in V
        BY <2>1, <3>3
    <3> HIDE DEF pick, V, S
    <3> QED
        BY <3>1, <3>2, <3>3, <3>4
  <2>3. g[{}] = base
      BY <1>3 DEF Unfolds
  <2> HIDE DEF base, V
  <2> QED
      BY <2>1, <2>2, <2>3
<1>5. iter = F(iter)
  <2> HIDE DEF F
  <2> QED  BY <1>4
<1>6. iter[{}] = base
  <2> HIDE DEF iter, base
  <2> QED  BY <1>5
<1>7. ASSUME NEW k \in 1..n
      PROVE  iter[1..k] = SeeNext(iter[1..(k - 1)], amount[order[k]])
  <2>1. Max(1..k) = k
      BY MaxOfInterval
  <2>2. (1..k) \ {k} = 1..(k - 1) /\ 1..k \in SUBSET S /\ 1..k # {}
      BY UpToLast
  <2>3. iter[1..k] = SeeNext(iter[(1..k) \ {Max(1..k)}], amount[order[Max(1..k)]])
    <3> HIDE DEF iter, base, S
    <3> QED  BY <1>5, <2>2
  <2> HIDE DEF iter
  <2> QED
      BY <2>1, <2>2, <2>3
<1>8. DetectSupplierConcentration(order, amount) = LevelOf(iter[1..n])
    BY DEF DetectSupplierConcentration, LevelOf, FoldLeft, MapThenFoldSet, SeeNext, NoneSeen
<1> DEFINE at == [k \in 0..n |-> iter[1..k]]
<1>9. at[0] = base
  <2>1. 1..0 = {}
      OBVIOUS
  <2> HIDE DEF iter, base
  <2> QED
      BY <1>6, <2>1
<1>10. \A k \in 1..n : at[k] = SeeNext(at[k - 1], amount[order[k]])
  <2> HIDE DEF iter
  <2> QED
      BY <1>7
<1>11. DetectSupplierConcentration(order, amount) = LevelOf(at[n])
  <2> HIDE DEF iter
  <2> QED
      BY <1>8
<1>12. at \in [0..n -> SeenSet]
  <2> DEFINE G == {k \in Nat : k <= n => at[k] \in SeenSet}
  <2>1. 0 \in G
      BY <1>9, <1>a
  <2>2. ASSUME NEW k \in Nat, k \in G  PROVE k + 1 \in G
    <3> SUFFICES ASSUME k + 1 <= n PROVE at[k + 1] \in SeenSet
        OBVIOUS
    <3>1. k + 1 \in 1..n /\ k <= n /\ (k + 1) - 1 = k
        OBVIOUS
    <3> HIDE DEF at
    <3> QED  BY <3>1, <2>2, <1>10, <1>b
  <2>3. Nat \subseteq G
    <3> HIDE DEF G
    <3> QED  BY <2>1, <2>2, NatUpwards
  <2>4. \A k \in 0..n : at[k] \in SeenSet
    <3> HIDE DEF at
    <3> QED  BY <2>3
  <2>5. at = [k \in 0..n |-> at[k]]
      OBVIOUS
  <2> HIDE DEF at
  <2> QED  BY <2>4, <2>5
<1> HIDE DEF at
<1> QED
    BY <1>9, <1>10, <1>11, <1>12 DEF SeenChain

\* The total is the sum of the amounts, the top the greatest of them and zero.
SeenOf(seen, order, amount, n) ==
    /\ seen \in SeenSet
    /\ seen.total = SumOn([k \in 1..n |-> amount[order[k]]], 1..n)
    /\ \A k \in 1..n : amount[order[k]] <= seen.top
    /\ seen.top = 0 \/ \E k \in 1..n : seen.top = amount[order[k]]

\* After n suppliers the pass has seen their sum and the greatest of them.
LEMMA SeenAll ==
    ASSUME NEW order, NEW amount, NEW n \in Nat, \A k \in 1..n : amount[order[k]] \in Nat,
           NEW at, SeenChain(at, order, amount, n)
    PROVE  SeenOf(at[n], order, amount, n)
<1> DEFINE g == [k \in 1..n |-> amount[order[k]]]
           Good(m) == /\ at[m].total = SumOn(g, 1..m)
                      /\ \A k \in 1..m : amount[order[k]] <= at[m].top
                      /\ at[m].top = 0 \/ \E k \in 1..m : at[m].top = amount[order[k]]
           G == {m \in Nat : m <= n => Good(m)}
<1>1. /\ SumOn(g, 1..0) = 0
      /\ \A m \in 1..n : SumOn(g, 1..m) = SumOn(g, 1..(m - 1)) + g[m]
  <2>1. \A k \in 1..n : g[k] \in Int
      OBVIOUS
  <2> HIDE DEF g
  <2> QED  BY <2>1, SumUpTo
<1>2. 0 \in G
  <2> HIDE DEF g
  <2> QED  BY <1>1 DEF SeenChain, NoneSeen
<1>3. ASSUME NEW m \in Nat, m \in G  PROVE m + 1 \in G
  <2> SUFFICES ASSUME m + 1 <= n PROVE Good(m + 1)
      OBVIOUS
  <2>1. m + 1 \in 1..n /\ m \in 0..n /\ (m + 1) - 1 = m /\ Good(m)
      BY <1>3
  <2>2. at[m + 1] = SeeNext(at[m], amount[order[m + 1]]) /\ at[m] \in SeenSet
      BY <2>1 DEF SeenChain
  <2>3. SumOn(g, 1..(m + 1)) = SumOn(g, 1..m) + amount[order[m + 1]]
      BY <1>1, <2>1
  <2>4. amount[order[m + 1]] \in Nat /\ at[m].top \in Nat
      BY <2>1, <2>2 DEF SeenSet
  <2>5. /\ at[m + 1].total = at[m].total + amount[order[m + 1]]
        /\ at[m + 1].top = Greater(at[m].top, amount[order[m + 1]])
      BY <2>2 DEF SeeNext
  <2>6. at[m + 1].total = SumOn(g, 1..(m + 1))
      BY <2>1, <2>3, <2>5
  <2>7. at[m + 1].top >= at[m].top /\ at[m + 1].top >= amount[order[m + 1]]
      BY <2>4, <2>5 DEF Greater
  <2>8. at[m + 1].top = at[m].top \/ at[m + 1].top = amount[order[m + 1]]
      BY <2>5 DEF Greater
  <2>9. \A k \in 1..(m + 1) : amount[order[k]] <= at[m + 1].top
    <3> TAKE k \in 1..(m + 1)
    <3>1. CASE k = m + 1
        BY <3>1, <2>7, <2>4
    <3>2. CASE k \in 1..m
      <4>1. amount[order[k]] <= at[m].top /\ amount[order[k]] \in Nat
          BY <2>1, <3>2
      <4>2. at[m + 1].top \in Nat
          BY <2>4, <2>8
      <4> QED  BY <4>1, <4>2, <2>4, <2>7
    <3> QED  BY <3>1, <3>2
  <2>10. at[m + 1].top = 0 \/ \E k \in 1..(m + 1) : at[m + 1].top = amount[order[k]]
    <3>1. m + 1 \in 1..(m + 1) /\ 1..m \subseteq 1..(m + 1)
        OBVIOUS
    <3> QED  BY <2>1, <2>8, <3>1
  <2> QED
      BY <2>6, <2>9, <2>10
<1>4. Nat \subseteq G
  <2> HIDE DEF G
  <2> QED  BY <1>2, <1>3, NatUpwards
<1>5. Good(n)
    BY <1>4
<1> QED
    BY <1>5 DEF SeenChain, SeenOf

\* So an order of the suppliers leaves no trace in the level.
LEMMA LevelOfOrder ==
    ASSUME RiskTypeOK, NEW order \in SetToSeqs(Suppliers)
    PROVE  \E top \in Nat :
              /\ DetectSupplierConcentration(order, bought)
                    = LevelOf([top |-> top, total |-> SumOn(bought, Suppliers)])
              /\ \A s \in Suppliers : bought[s] <= top
              /\ top = 0 \/ \E s \in Suppliers : top = bought[s]
<1> DEFINE n == Cardinality(Suppliers)
           g == [k \in 1..n |-> bought[order[k]]]
<1>1. IsFiniteSet(Suppliers) /\ n \in Nat
    BY RiskAssumption, FS_CardinalityType
<1>2. order \in [1..n -> Suppliers] /\ \A j, k \in 1..n : order[j] = order[k] => j = k
    BY DEF SetToSeqs
<1>3. \A s \in Suppliers : \E k \in 1..n : order[k] = s
  <2>1. order \in Injection(1..n, Suppliers)
      BY <1>2 DEF Injection, IsInjective
  <2>2. IsFiniteSet(1..n) /\ Cardinality(1..n) = Cardinality(Suppliers)
      BY <1>1, FS_Interval, 1 \in Int
  <2>3. order \in Surjection(1..n, Suppliers)
    <3> HIDE DEF n
    <3> QED  BY <1>1, <2>1, <2>2, FS_Injection
  <2> QED  BY <2>3 DEF Surjection
<1>4. \A k \in 1..n : bought[order[k]] \in Nat
    BY <1>2 DEF RiskTypeOK
<1>5. PICK at : /\ SeenChain(at, order, bought, n)
                /\ DetectSupplierConcentration(order, bought) = LevelOf(at[n])
  <2>1. DOMAIN order = 1..n
      BY <1>2
  <2> HIDE DEF n
  <2> QED  BY <1>1, <1>4, <2>1, SeenSteps
<1>6. /\ at[n] \in SeenSet
      /\ at[n].total = SumOn([k \in 1..n |-> bought[order[k]]], 1..n)
      /\ \A k \in 1..n : bought[order[k]] <= at[n].top
      /\ at[n].top = 0 \/ \E k \in 1..n : at[n].top = bought[order[k]]
  <2>1. SeenOf(at[n], order, bought, n)
    <3> HIDE DEF n, g
    <3> QED  BY <1>1, <1>4, <1>5, SeenAll
  <2> QED  BY <2>1 DEF SeenOf
<1>7. SumOn(g, 1..n) = SumOn(bought, Suppliers)
  <2>1. {order[k] : k \in 1..n} = Suppliers
      BY <1>2, <1>3
  <2>2. SumOn(bought, {order[k] : k \in 1..n}) = SumOn(g, 1..n)
    <3>1. IsFiniteSet(1..n)
        BY <1>1, FS_Interval, 1 \in Int
    <3>2. \A k \in 1..n : bought[order[k]] \in Int
        BY <1>4
    <3> HIDE DEF n
    <3> QED  BY <1>2, <3>1, <3>2, SumRenamed
  <2> QED  BY <2>1, <2>2
<1> DEFINE top == at[n].top
<1>8. top \in Nat /\ at[n] = [top |-> top, total |-> SumOn(bought, Suppliers)]
    BY <1>6, <1>7 DEF SeenSet
<1>9. \A s \in Suppliers : bought[s] <= top
    BY <1>3, <1>6
<1>10. top = 0 \/ \E s \in Suppliers : top = bought[s]
    BY <1>2, <1>6
<1> HIDE DEF top
<1> QED
    BY <1>5, <1>8, <1>9, <1>10

\* ConcentrationOrderFree: the order in which Go's map iteration visits the
\* suppliers cannot change the level DetectSupplierConcentration reports.
THEOREM LevelsOrderFree == RiskSpec => []ConcentrationOrderFree
<1>1. RiskTypeOK => ConcentrationOrderFree
  <2> SUFFICES ASSUME RiskTypeOK, NEW o1 \in SetToSeqs(Suppliers), NEW o2 \in SetToSeqs(Suppliers)
               PROVE  DetectSupplierConcentration(o1, bought) = DetectSupplierConcentration(o2, bought)
      BY Zenon DEF ConcentrationOrderFree
  <2>1. PICK t1 \in Nat :
              /\ DetectSupplierConcentration(o1, bought)
                    = LevelOf([top |-> t1, total |-> SumOn(bought, Suppliers)])
              /\ \A s \in Suppliers : bought[s] <= t1
              /\ t1 = 0 \/ \E s \in Suppliers : t1 = bought[s]
      BY LevelOfOrder
  <2>2. PICK t2 \in Nat :
              /\ DetectSupplierConcentration(o2, bought)
                    = LevelOf([top |-> t2, total |-> SumOn(bought, Suppliers)])
              /\ \A s \in Suppliers : bought[s] <= t2
              /\ t2 = 0 \/ \E s \in Suppliers : t2 = bought[s]
      BY LevelOfOrder
  <2>3. \A s \in Suppliers : bought[s] \in Nat
      BY DEF RiskTypeOK
  <2>4. t1 = t2
      BY <2>1, <2>2, <2>3
  <2> QED
      BY <2>1, <2>2, <2>4
<1> QED
    BY <1>1, RiskTypeOKAlways, PTL

-----------------------------------------------------------------------------

(* Comparisons *)

\* Integer division by a constant is monotone.
LEMMA DivGrows ==
    ASSUME NEW x \in Nat, NEW y \in Nat, x <= y, NEW k \in Nat, k > 0
    PROVE  x \div k \in Nat /\ x \div k <= y \div k
<1> DEFINE p == x \div k
           q == y \div k
<1>1. p \in Int /\ k * p <= x /\ x < k * p + k
    OBVIOUS
<1>2. q \in Int /\ k * q <= y /\ y < k * q + k
    OBVIOUS
<1>3. p >= 0
    OBVIOUS
<1>4. ASSUME p >= q + 1 PROVE FALSE
  <2> HIDE DEF p, q
  <2>1. k * p >= k * (q + 1)
      BY <1>1, <1>2, <1>4
  <2>2. k * (q + 1) = k * q + k
      BY <1>2
  <2> QED
      BY <1>1, <1>2, <2>1, <2>2
<1> HIDE DEF p, q
<1>5. p <= q
    BY <1>1, <1>2, <1>4
<1> QED
    BY <1>1, <1>3, <1>5 DEF p, q

\* Percent of a magnitude.
Quotient(d, b) == (200 * d + b) \div (2 * b)

\* So is a rounded percentage,
LEMMA QuotientGrows ==
    ASSUME NEW x \in Nat, NEW y \in Nat, x <= y, NEW b \in Nat, b > 0
    PROVE  Quotient(x, b) \in Nat /\ Quotient(x, b) <= Quotient(y, b)
<1>1. 200 * x + b \in Nat /\ 200 * y + b \in Nat /\ 200 * x + b <= 200 * y + b
    OBVIOUS
<1>2. 2 * b \in Nat /\ 2 * b > 0
    OBVIOUS
<1> QED
    BY <1>1, <1>2, DivGrows DEF Quotient

\* which is what Percent is, but for the sign.
LEMMA PercentIsQuotient ==
    ASSUME NEW x \in Int, NEW b \in Nat, b > 0
    PROVE  /\ Magnitude(x) \in Nat
           /\ Magnitude(Percent(x, b)) = Quotient(Magnitude(x), b)
           /\ x >= 0 => Percent(x, b) = Quotient(x, b) /\ Magnitude(x) = x
<1>1. Magnitude(x) \in Nat /\ (x >= 0 => Magnitude(x) = x)
    BY DEF Magnitude
<1>2. Quotient(Magnitude(x), b) \in Nat
    BY <1>1, QuotientGrows
<1>3. Percent(x, b) = IF x < 0 THEN -Quotient(Magnitude(x), b) ELSE Quotient(Magnitude(x), b)
    BY DEF Percent, Quotient
<1>4. Magnitude(Percent(x, b)) = Quotient(Magnitude(x), b)
    BY <1>2, <1>3 DEF Magnitude
<1> QED
    BY <1>1, <1>3, <1>4

\* A tolerance of 1% or 5% grows, but never faster than the amount it is drawn from.
LEMMA ShareSlow ==
    ASSUME NEW x \in Nat, NEW y \in Nat, x <= y, NEW n, n = 1 \/ n = 5
    PROVE  /\ Share(x, n, 100) \in Nat /\ Share(y, n, 100) \in Nat
           /\ Share(x, n, 100) <= Share(y, n, 100)
           /\ Share(y, n, 100) <= Share(x, n, 100) + (y - x)
BY DEF Share, ShareOf

-----------------------------------------------------------------------------
\* The grades, as functions of the distance alone.
Grade(q, low, high) == CASE q <= low -> 1 [] q > high -> 4 [] OTHER -> 3
InvoicedRank(b, d) == IF b <= 0 THEN 1 ELSE Grade(Quotient(d, b), 5, 15)
ExpenseRank(b, ind, d) == IF b <= 0 THEN 1 ELSE Grade(Quotient(d, b), ExpenseShare(ind), 100)
RevenueRank(b, d) == IF b <= 0 THEN 1 ELSE Grade(Quotient(d, b), 50, 100)
BurdenRank(ind, small, d) ==
    IF d >= 0 THEN 1
    ELSE LET q == Quotient(-d, IndustryBurden(ind, small)) IN
         IF q >= 60 THEN 1 ELSE IF q < 40 THEN 4 ELSE 3
Other(a, below, d) == IF below THEN a + d ELSE a - d
ApartRank(n, least, a, below, d) ==
    IF d <= Greater(Share(Greater(a, Other(a, below, d)), n, 100), least) THEN 1 ELSE 3

Industries == {"manufacturing", "wholesale", "services", "other"}

\* A greater percentage is graded no milder.
LEMMA GradeGrows ==
    ASSUME NEW p \in Nat, NEW q \in Nat, p <= q, NEW low \in Nat, NEW high \in Nat, low <= high
    PROVE  Grade(p, low, high) <= Grade(q, low, high)
BY DEF Grade

\* Nor is a greater distance, by any of the detectors with two thresholds.
LEMMA RanksGrow ==
    ASSUME NEW b \in Nat, NEW d \in Nat, NEW e \in Nat, d <= e
    PROVE  /\ InvoicedRank(b, d) <= InvoicedRank(b, e)
           /\ \A ind \in Industries : ExpenseRank(b, ind, d) <= ExpenseRank(b, ind, e)
           /\ RevenueRank(b, d) <= RevenueRank(b, e)
<1>1. CASE b = 0
    BY <1>1 DEF InvoicedRank, ExpenseRank, RevenueRank
<1>2. CASE b > 0
  <2>1. /\ Quotient(d, b) \in Nat /\ Quotient(e, b) \in Nat
        /\ Quotient(d, b) <= Quotient(e, b)
      BY <1>2, QuotientGrows
  <2>2. \A ind \in Industries : ExpenseShare(ind) \in Nat /\ ExpenseShare(ind) <= 100
      BY DEF Industries, ExpenseShare
  <2>3. \A low, high \in Nat : low <= high =>
            Grade(Quotient(d, b), low, high) <= Grade(Quotient(e, b), low, high)
      BY <2>1, GradeGrows
  <2>4. InvoicedRank(b, d) <= InvoicedRank(b, e)
      BY <1>2, <2>3 DEF InvoicedRank
  <2>5. RevenueRank(b, d) <= RevenueRank(b, e)
      BY <1>2, <2>3 DEF RevenueRank
  <2>6. \A ind \in Industries : ExpenseRank(b, ind, d) <= ExpenseRank(b, ind, e)
      BY <1>2, <2>2, <2>3 DEF ExpenseRank
  <2> QED  BY <2>4, <2>5, <2>6
<1> QED  BY <1>1, <1>2

LEMMA BurdenTyped == \A ind \in Industries, small \in BOOLEAN :
                        IndustryBurden(ind, small) \in Nat /\ IndustryBurden(ind, small) > 0
BY DEF Industries, IndustryBurden

\* A burden of which less is left is graded no milder, unless nothing is left.
LEMMA BurdenGrows ==
    ASSUME NEW ind \in Industries, NEW small \in BOOLEAN, NEW d \in Int, NEW e \in Int, d <= e, e < 0
    PROVE  BurdenRank(ind, small, d) <= BurdenRank(ind, small, e)
<1> DEFINE k == IndustryBurden(ind, small)
<1>1. k \in Nat /\ k > 0
    BY BurdenTyped
<1>2. -e \in Nat /\ -d \in Nat /\ -e <= -d
    OBVIOUS
<1>3. Quotient(-e, k) \in Nat /\ Quotient(-d, k) \in Nat /\ Quotient(-e, k) <= Quotient(-d, k)
  <2> HIDE DEF k
  <2> QED  BY <1>1, <1>2, QuotientGrows
<1> QED
    BY <1>3 DEF BurdenRank

\* A tolerance grows, but by less than the distance.
LEMMA ApartGrows ==
    ASSUME NEW n, n = 1 \/ n = 5, NEW least \in Nat, NEW a \in Nat, NEW below \in BOOLEAN,
           NEW d \in Nat, NEW e \in Nat, d <= e
    PROVE  ApartRank(n, least, a, below, d) <= ApartRank(n, least, a, below, e)
<1>1. CASE below
  <2>1. /\ Greater(a, Other(a, below, d)) = a + d
        /\ Greater(a, Other(a, below, e)) = a + e
      BY <1>1 DEF Greater, Other
  <2>2. /\ Share(a + d, n, 100) \in Nat /\ Share(a + e, n, 100) \in Nat
        /\ Share(a + e, n, 100) <= Share(a + d, n, 100) + (e - d)
    <3>1. a + d \in Nat /\ a + e \in Nat /\ a + d <= a + e /\ (a + e) - (a + d) = e - d
        OBVIOUS
    <3> QED  BY <3>1, ShareSlow
  <2> QED
      BY <2>1, <2>2 DEF ApartRank, Greater
<1>2. CASE ~below
  <2>1. /\ Greater(a, Other(a, below, d)) = a
        /\ Greater(a, Other(a, below, e)) = a
      BY <1>2 DEF Greater, Other
  <2>2. Share(a, n, 100) \in Nat
      BY ShareSlow
  <2> QED
      BY <2>1, <2>2 DEF ApartRank, Greater
<1> QED  BY <1>1, <1>2

-----------------------------------------------------------------------------

\* What Compare stores is that grade of the distance.
LEMMA RankOfGrade ==
    ASSUME NEW q \in Nat, NEW low \in Nat, NEW high \in Nat, low <= high
    PROVE  Rank(CASE q <= low -> "none" [] q > high -> "danger" [] OTHER -> "warning")
             = Grade(q, low, high)
<1> DEFINE level == CASE q <= low -> "none" [] q > high -> "danger" [] OTHER -> "warning"
<1>1. CASE q <= low
  <2>1. level = "none" /\ Grade(q, low, high) = 1
      BY <1>1 DEF Grade
  <2> QED  BY <2>1, RankOrder
<1>2. CASE q > high
  <2>1. level = "danger" /\ Grade(q, low, high) = 4
      BY <1>2 DEF Grade
  <2> QED  BY <2>1, RankOrder
<1>3. CASE q > low /\ q <= high
  <2>1. level = "warning" /\ Grade(q, low, high) = 3
      BY <1>3 DEF Grade
  <2> QED  BY <2>1, RankOrder
<1> QED  BY <1>1, <1>2, <1>3

\* The detectors answer the grade of the distance: invoices and revenue,
LEMMA InvoicedIsGraded ==
    ASSUME NEW i \in Nat, NEW b \in Nat
    PROVE  /\ Rank(DetectInvoiceRevenueMismatch(i, b)) = InvoicedRank(b, Magnitude(i - b))
           /\ Rank(DetectSuddenRevenueChange(i, b)) = RevenueRank(b, Magnitude(i - b))
<1>1. CASE b <= 0
    BY <1>1, RankOrder DEF DetectInvoiceRevenueMismatch, DetectSuddenRevenueChange, InvoicedRank, RevenueRank
<1>2. CASE b > 0
  <2> DEFINE q == Quotient(Magnitude(i - b), b)
  <2>1. Magnitude(Percent(i - b, b)) = q /\ q \in Nat
    <3>1. i - b \in Int
        OBVIOUS
    <3>2. Magnitude(i - b) \in Nat
        BY <3>1, <1>2, PercentIsQuotient
    <3> QED  BY <3>1, <3>2, <1>2, PercentIsQuotient, QuotientGrows
  <2> HIDE DEF q
  <2>2. /\ DetectInvoiceRevenueMismatch(i, b)
              = CASE q <= 5 -> "none" [] q > 15 -> "danger" [] OTHER -> "warning"
        /\ DetectSuddenRevenueChange(i, b)
              = CASE q <= 50 -> "none" [] q > 100 -> "danger" [] OTHER -> "warning"
      BY <1>2, <2>1 DEF DetectInvoiceRevenueMismatch, DetectSuddenRevenueChange
  <2>3. /\ Rank(DetectInvoiceRevenueMismatch(i, b)) = Grade(q, 5, 15)
        /\ Rank(DetectSuddenRevenueChange(i, b)) = Grade(q, 50, 100)
      BY <2>1, <2>2, RankOfGrade
  <2> QED
      BY <1>2, <2>3 DEF q, InvoicedRank, RevenueRank
<1> QED  BY <1>1, <1>2

\* expenses,
LEMMA ExpenseIsGraded ==
    ASSUME NEW e \in Nat, NEW b \in Nat, NEW ind \in Industries
    PROVE  Rank(DetectExpenseToRevenueRatio(e, b, ind)) = ExpenseRank(b, ind, e)
<1>1. CASE b <= 0
    BY <1>1, RankOrder DEF DetectExpenseToRevenueRatio, ExpenseRank
<1>2. CASE b > 0
  <2> DEFINE q == Quotient(e, b)
             low == ExpenseShare(ind)
  <2>1. Percent(e, b) = q /\ q \in Nat
      BY <1>2, PercentIsQuotient, QuotientGrows
  <2>2. low \in Nat /\ low <= 100
      BY DEF Industries, ExpenseShare
  <2> HIDE DEF q, low
  <2>3. DetectExpenseToRevenueRatio(e, b, ind)
              = CASE q <= low -> "none" [] q > 100 -> "danger" [] OTHER -> "warning"
      BY <1>2, <2>1 DEF DetectExpenseToRevenueRatio, low
  <2>4. Rank(DetectExpenseToRevenueRatio(e, b, ind)) = Grade(q, low, 100)
      BY <2>1, <2>2, <2>3, RankOfGrade
  <2> QED
      BY <1>2, <2>4 DEF q, low, ExpenseRank
<1> QED  BY <1>1, <1>2

\* tax burden, whose distance is its negation,
LEMMA BurdenIsGraded ==
    ASSUME NEW b \in Nat, NEW ind \in Industries, NEW small \in BOOLEAN
    PROVE  Rank(CalcTaxBurdenBenchmark(b, ind, small)) = BurdenRank(ind, small, -b)
<1>1. CASE b <= 0
    BY <1>1, RankOrder DEF CalcTaxBurdenBenchmark, BurdenRank
<1>2. CASE b > 0
  <2>1. Percent(b, IndustryBurden(ind, small)) = Quotient(b, IndustryBurden(ind, small))
      BY BurdenTyped, PercentIsQuotient
  <2>2. - -b = b /\ ~(-b >= 0)
      BY <1>2
  <2> QED
      BY <1>2, <2>1, <2>2, RankOrder DEF CalcTaxBurdenBenchmark, BurdenRank
<1> QED  BY <1>1, <1>2

\* and the comparisons of two sources.
LEMMA SourcesAreGraded ==
    ASSUME NEW a \in Nat, NEW b \in Nat
    PROVE  LET d == Magnitude(a - b) IN
           /\ d \in Nat
           /\ Rank(IF CheckInvoiceToVAT(b, 0, a, 0) THEN "none" ELSE "warning")
                 = ApartRank(1, 100, a, FALSE, d)
           /\ Rank(IF CheckVATToCITRevenue(a, b) THEN "none" ELSE "warning")
                 = ApartRank(5, 100, a, a < b, d)
           /\ Rank(IF CheckJournalToBank(a, b) THEN "none" ELSE "warning")
                 = ApartRank(1, 2, a, a < b, d)
<1> DEFINE d == Magnitude(a - b)
<1>1. d \in Nat /\ Magnitude(b - a) = d /\ Magnitude(0 - 0) = 0
    BY DEF Magnitude
<1>2. Magnitude(a) = a /\ Magnitude(b) = b /\ Greater(a, 0) = a
    BY DEF Magnitude, Greater
<1>3. Greater(a, Other(a, FALSE, d)) = a
    BY <1>1 DEF Other, Greater
<1>4. Other(a, a < b, d) = b
    BY DEF Other, Magnitude
<1>5. CheckInvoiceToVAT(b, 0, a, 0) <=> d <= Greater(Share(a, 1, 100), 100)
    BY <1>1, <1>2 DEF CheckInvoiceToVAT
<1>6. CheckVATToCITRevenue(a, b) <=> d <= Greater(Share(Greater(a, b), 5, 100), 100)
    BY <1>2 DEF CheckVATToCITRevenue
<1>7. CheckJournalToBank(a, b) <=> d <= Greater(Share(Greater(a, b), 1, 100), 2)
    BY <1>2 DEF CheckJournalToBank
<1> HIDE DEF d
<1> QED
    BY <1>1, <1>3, <1>4, <1>5, <1>6, <1>7, RankOrder DEF ApartRank, d

-----------------------------------------------------------------------------

\* The tolerance of the VAT comparison is drawn from the declared side alone.
DeclaredRank(a, d) == ApartRank(1, 100, a, FALSE, d)

\* What is compared, and how far apart it is, fixes the rank.
ComparedInv ==
    LET a == compared.asked  d == compared.distance  rank == compared.rank IN
    /\ d \in Int
    /\ a[1] \in {"nothing", "invoiced", "expense", "revenue", "burden", "vat", "cit", "bank"}
    /\ a[1] = "nothing" => rank = 1
    /\ a[1] = "invoiced" => d \in Nat /\ a[2] \in Nat /\ rank = InvoicedRank(a[2], d)
    /\ a[1] = "expense" =>
          d \in Nat /\ a[2] \in Nat /\ a[3] \in Industries /\ rank = ExpenseRank(a[2], a[3], d)
    /\ a[1] = "revenue" => d \in Nat /\ a[2] \in Nat /\ rank = RevenueRank(a[2], d)
    /\ a[1] = "burden" =>
          d <= 0 /\ a[2] \in Industries /\ a[3] \in BOOLEAN /\ rank = BurdenRank(a[2], a[3], d)
    /\ a[1] = "vat" => d \in Nat /\ a[2] \in Nat /\ rank = DeclaredRank(a[2], d)
    /\ a[1] = "cit" =>
          d \in Nat /\ a[2] \in Nat /\ a[3] \in BOOLEAN /\ rank = ApartRank(5, 100, a[2], a[3], d)
    /\ a[1] = "bank" =>
          d \in Nat /\ a[2] \in Nat /\ a[3] \in BOOLEAN /\ rank = ApartRank(1, 2, a[2], a[3], d)

\* Two comparisons of one question.
LEMMA GravenessGrows ==
    ASSUME ComparedInv, ComparedInv', compared'.asked = compared.asked,
           compared'.distance >= compared.distance,
           ~(compared'.asked[1] = "burden" /\ compared'.distance = 0)
    PROVE  compared'.rank >= compared.rank
<1> DEFINE a == compared.asked
           d == compared.distance
           e == compared'.distance
<1>0. d \in Int /\ e \in Int /\ d <= e
    BY DEF ComparedInv
<1>1. CASE a[1] = "nothing"
    BY <1>1 DEF ComparedInv
<1>2. CASE a[1] = "invoiced"
  <2>1. /\ d \in Nat /\ e \in Nat /\ a[2] \in Nat
        /\ compared.rank = InvoicedRank(a[2], d) /\ compared'.rank = InvoicedRank(a[2], e)
      BY <1>2 DEF ComparedInv
  <2>2. InvoicedRank(a[2], d) \in Int /\ InvoicedRank(a[2], e) \in Int
      BY DEF InvoicedRank, Grade
  <2> HIDE DEF a, d, e
  <2>3. InvoicedRank(a[2], d) <= InvoicedRank(a[2], e)
      BY <1>0, <2>1, RanksGrow
  <2> QED  BY <2>1, <2>2, <2>3
<1>3. CASE a[1] = "expense"
  <2>1. /\ d \in Nat /\ e \in Nat /\ a[2] \in Nat /\ a[3] \in Industries
        /\ compared.rank = ExpenseRank(a[2], a[3], d) /\ compared'.rank = ExpenseRank(a[2], a[3], e)
      BY <1>3 DEF ComparedInv
  <2>2. ExpenseRank(a[2], a[3], d) \in Int /\ ExpenseRank(a[2], a[3], e) \in Int
      BY DEF ExpenseRank, Grade
  <2> HIDE DEF a, d, e
  <2>3. ExpenseRank(a[2], a[3], d) <= ExpenseRank(a[2], a[3], e)
      BY <1>0, <2>1, RanksGrow
  <2> QED  BY <2>1, <2>2, <2>3
<1>4. CASE a[1] = "revenue"
  <2>1. /\ d \in Nat /\ e \in Nat /\ a[2] \in Nat
        /\ compared.rank = RevenueRank(a[2], d) /\ compared'.rank = RevenueRank(a[2], e)
      BY <1>4 DEF ComparedInv
  <2>2. RevenueRank(a[2], d) \in Int /\ RevenueRank(a[2], e) \in Int
      BY DEF RevenueRank, Grade
  <2> HIDE DEF a, d, e
  <2>3. RevenueRank(a[2], d) <= RevenueRank(a[2], e)
      BY <1>0, <2>1, RanksGrow
  <2> QED  BY <2>1, <2>2, <2>3
<1>5. CASE a[1] = "burden"
  <2>1. /\ e < 0 /\ a[2] \in Industries /\ a[3] \in BOOLEAN
        /\ compared.rank = BurdenRank(a[2], a[3], d) /\ compared'.rank = BurdenRank(a[2], a[3], e)
      BY <1>5, <1>0 DEF ComparedInv
  <2>2. BurdenRank(a[2], a[3], d) \in Int /\ BurdenRank(a[2], a[3], e) \in Int
      BY DEF BurdenRank
  <2> HIDE DEF a, d, e
  <2>3. BurdenRank(a[2], a[3], d) <= BurdenRank(a[2], a[3], e)
      BY <1>0, <2>1, BurdenGrows
  <2> QED  BY <2>1, <2>2, <2>3
<1>6. \A n, least, x, below, y : ApartRank(n, least, x, below, y) \in Int
    BY DEF ApartRank
<1>7. CASE a[1] = "vat"
  <2>1. /\ d \in Nat /\ e \in Nat /\ a[2] \in Nat
        /\ compared.rank = DeclaredRank(a[2], d)
        /\ compared'.rank = DeclaredRank(a[2], e)
      BY <1>7 DEF ComparedInv
  <2> HIDE DEF a, d, e
  <2>2. DeclaredRank(a[2], d) <= DeclaredRank(a[2], e)
      BY <1>0, <2>1, ApartGrows DEF DeclaredRank
  <2> QED  BY <1>6, <2>1, <2>2 DEF DeclaredRank
<1>8. CASE a[1] = "cit"
  <2>1. /\ d \in Nat /\ e \in Nat /\ a[2] \in Nat /\ a[3] \in BOOLEAN
        /\ compared.rank = ApartRank(5, 100, a[2], a[3], d)
        /\ compared'.rank = ApartRank(5, 100, a[2], a[3], e)
      BY <1>8 DEF ComparedInv
  <2> HIDE DEF a, d, e
  <2>2. ApartRank(5, 100, a[2], a[3], d) <= ApartRank(5, 100, a[2], a[3], e)
      BY <1>0, <2>1, ApartGrows
  <2> QED  BY <1>6, <2>1, <2>2
<1>9. CASE a[1] = "bank"
  <2>1. /\ d \in Nat /\ e \in Nat /\ a[2] \in Nat /\ a[3] \in BOOLEAN
        /\ compared.rank = ApartRank(1, 2, a[2], a[3], d)
        /\ compared'.rank = ApartRank(1, 2, a[2], a[3], e)
      BY <1>9 DEF ComparedInv
  <2> HIDE DEF a, d, e
  <2>2. ApartRank(1, 2, a[2], a[3], d) <= ApartRank(1, 2, a[2], a[3], e)
      BY <1>0, <2>1, ApartGrows
  <2> QED  BY <1>6, <2>1, <2>2
<1> QED
    BY <1>1, <1>2, <1>3, <1>4, <1>5, <1>7, <1>8, <1>9 DEF ComparedInv

LEMMA ComparedInit == RiskInit => ComparedInv
BY DEF RiskInit, ComparedInv, Uncompared

LEMMA ComparedStep ==
    ComparedInv /\ [FilingNext \/ PurchaseNext \/ CompareNext]_riskVars => ComparedInv'
<1> SUFFICES ASSUME ComparedInv, [FilingNext \/ PurchaseNext \/ CompareNext]_riskVars
             PROVE  ComparedInv'
    OBVIOUS
<1>0. Compared \subseteq Nat
    BY RiskAssumption
<1>1. CASE CompareInvoiced
  <2>1. PICK i \in Compared, b \in Compared :
            /\ compared'.asked = <<"invoiced", b>>
            /\ compared'.distance = Magnitude(i - b)
            /\ compared'.rank = Rank(DetectInvoiceRevenueMismatch(i, b))
      BY <1>1 DEF CompareInvoiced, Compare
  <2>2. Magnitude(i - b) \in Nat /\ compared'.rank = InvoicedRank(b, Magnitude(i - b))
      BY <1>0, <2>1, InvoicedIsGraded, SourcesAreGraded
  <2> QED  BY <1>0, <2>1, <2>2 DEF ComparedInv
<1>2. CASE CompareExpense
  <2>1. PICK e \in Compared, b \in Compared, ind \in {"manufacturing", "wholesale", "other"} :
            /\ compared'.asked = <<"expense", b, ind>>
            /\ compared'.distance = e
            /\ compared'.rank = Rank(DetectExpenseToRevenueRatio(e, b, ind))
      BY <1>2 DEF CompareExpense, Compare
  <2>2. ind \in Industries
      BY DEF Industries
  <2>3. compared'.rank = ExpenseRank(b, ind, e)
      BY <1>0, <2>1, <2>2, ExpenseIsGraded
  <2> QED  BY <1>0, <2>1, <2>2, <2>3 DEF ComparedInv
<1>3. CASE CompareRevenue
  <2>1. PICK c \in Compared, b \in Compared :
            /\ compared'.asked = <<"revenue", b>>
            /\ compared'.distance = Magnitude(c - b)
            /\ compared'.rank = Rank(DetectSuddenRevenueChange(c, b))
      BY <1>3 DEF CompareRevenue, Compare
  <2>2. Magnitude(c - b) \in Nat /\ compared'.rank = RevenueRank(b, Magnitude(c - b))
      BY <1>0, <2>1, InvoicedIsGraded, SourcesAreGraded
  <2> QED  BY <1>0, <2>1, <2>2 DEF ComparedInv
<1>4. CASE CompareBurden
  <2>1. PICK b \in Compared, ind \in {"manufacturing", "services", "other"}, small \in BOOLEAN :
            /\ compared'.asked = <<"burden", ind, small>>
            /\ compared'.distance = -b
            /\ compared'.rank = Rank(CalcTaxBurdenBenchmark(b, ind, small))
      BY <1>4 DEF CompareBurden, Compare
  <2>2. ind \in Industries /\ b \in Nat /\ -b <= 0 /\ -b \in Int
      BY <1>0 DEF Industries
  <2>3. compared'.rank = BurdenRank(ind, small, -b)
      BY <2>1, <2>2, BurdenIsGraded
  <2> QED  BY <2>1, <2>2, <2>3 DEF ComparedInv
<1>5. CASE CompareSources
  <2>1. PICK a \in Compared, b \in Compared :
            /\ compared'.distance = Magnitude(a - b)
            /\ \/ /\ compared'.asked = <<"vat", a, a < b>>
                  /\ compared'.rank = Rank(IF CheckInvoiceToVAT(b, 0, a, 0) THEN "none" ELSE "warning")
               \/ /\ compared'.asked = <<"cit", a, a < b>>
                  /\ compared'.rank = Rank(IF CheckVATToCITRevenue(a, b) THEN "none" ELSE "warning")
               \/ /\ compared'.asked = <<"bank", a, a < b>>
                  /\ compared'.rank = Rank(IF CheckJournalToBank(a, b) THEN "none" ELSE "warning")
      BY <1>5 DEF CompareSources, Compare
  <2>2. a \in Nat /\ b \in Nat /\ (a < b) \in BOOLEAN
      BY <1>0
  <2>3. PICK below \in BOOLEAN : below = (a < b)
      BY <2>2
  <2>4. /\ Magnitude(a - b) \in Nat
        /\ \/ /\ compared'.asked = <<"vat", a, below>>
              /\ compared'.rank = DeclaredRank(a, Magnitude(a - b))
           \/ /\ compared'.asked = <<"cit", a, below>>
              /\ compared'.rank = ApartRank(5, 100, a, below, Magnitude(a - b))
           \/ /\ compared'.asked = <<"bank", a, below>>
              /\ compared'.rank = ApartRank(1, 2, a, below, Magnitude(a - b))
      BY <2>1, <2>2, <2>3, SourcesAreGraded DEF DeclaredRank
  <2>5. compared'.distance \in Nat /\ compared'.distance = Magnitude(a - b)
      BY <2>1, <2>4
  <2>6. CASE compared'.asked = <<"vat", a, below>>
      BY <2>2, <2>4, <2>5, <2>6 DEF ComparedInv
  <2>7. CASE compared'.asked = <<"cit", a, below>>
      BY <2>2, <2>4, <2>5, <2>7 DEF ComparedInv
  <2>8. CASE compared'.asked = <<"bank", a, below>>
      BY <2>2, <2>4, <2>5, <2>8 DEF ComparedInv
  <2> QED  BY <2>4, <2>6, <2>7, <2>8
<1>6. CASE UNCHANGED compared
    BY <1>6 DEF ComparedInv
<1> QED
    BY <1>1, <1>2, <1>3, <1>4, <1>5, <1>6
       DEF FilingNext, ListPlace, File, PurchaseNext, Purchase, CompareNext, riskVars

\* LevelFollowsDistance: across every threshold of risk.go and tolerance of
\* consistency.go, figures that are further apart are never graded milder.
THEOREM GraverWhenFurther == RiskSpec => LevelFollowsDistance
<1>1. ComparedInv /\ ComparedInv'
         => [ /\ compared'.asked = compared.asked
              /\ compared'.distance >= compared.distance
              /\ ~(compared'.asked[1] = "burden" /\ compared'.distance = 0)
              => compared'.rank >= compared.rank ]_compared
    BY GravenessGrows
<1>2. RiskSpec => []ComparedInv
    BY ComparedInit, ComparedStep, PTL DEF RiskSpec
<1> QED
    BY <1>1, <1>2, PTL DEF LevelFollowsDistance

-----------------------------------------------------------------------------

(* Sorted lists *)

\* e lists T from the smallest to the greatest.
Ascends(e, n, T) ==
    /\ e \in [1..n -> T]
    /\ \A x \in T : \E k \in 1..n : e[k] = x
    /\ \A j, k \in 1..n : j < k => e[j] < e[k]
Sortable == {T \in SUBSET Int : \E n \in Nat : \E e : Ascends(e, n, T)}

\* A list of a set without its greatest member becomes one of the set.
LEMMA OneMore ==
    ASSUME NEW T \in SUBSET Int, NEW m \in T, \A x \in T : m >= x,
           NEW n \in Nat, NEW e, Ascends(e, n, T \ {m})
    PROVE  \E f : Ascends(f, n + 1, T)
<1> DEFINE f == [k \in 1..(n + 1) |-> IF k = n + 1 THEN m ELSE e[k]]
<1>1. \A k \in 1..(n + 1) : k = n + 1 \/ k \in 1..n
    OBVIOUS
<1>2. \A k \in 1..n : e[k] \in T \ {m} /\ k # n + 1 /\ k \in 1..(n + 1)
    BY DEF Ascends
<1>3. n + 1 \in 1..(n + 1)
    OBVIOUS
<1>4. f \in [1..(n + 1) -> T]
    BY <1>1, <1>2
<1>5. f[n + 1] = m /\ \A k \in 1..n : f[k] = e[k]
    BY <1>2, <1>3
<1>6. \A x \in T : \E k \in 1..(n + 1) : f[k] = x
  <2> HIDE DEF f
  <2> QED  BY <1>2, <1>3, <1>5 DEF Ascends
<1>7. ASSUME NEW j \in 1..(n + 1), NEW k \in 1..(n + 1), j < k  PROVE f[j] < f[k]
  <2>1. j \in 1..n
      BY <1>7
  <2>2. CASE k = n + 1
    <3>1. f[k] = m /\ f[j] \in T \ {m}
        BY <1>2, <1>5, <2>1, <2>2
    <3>2. \A x \in T \ {m} : x < m
      <4> TAKE x \in T \ {m}
      <4>1. x \in Int /\ m \in Int /\ m >= x /\ m # x
          OBVIOUS
      <4> QED  BY <4>1
    <3> HIDE DEF f
    <3> QED  BY <3>1, <3>2
  <2>3. CASE k \in 1..n
    <3> HIDE DEF f
    <3> QED  BY <1>5, <1>7, <2>1, <2>3 DEF Ascends
  <2> QED  BY <1>1, <2>2, <2>3
<1> HIDE DEF f
<1> QED
    BY <1>4, <1>6, <1>7 DEF Ascends

\* Every finite set of numbers has such a list.
LEMMA EverySetSorts ==
    ASSUME NEW S, IsFiniteSet(S), S \in SUBSET Int
    PROVE  \E n \in Nat : \E e : Ascends(e, n, S)
<1>1. ASSUME NEW T \in SUBSET S, \A x \in T : T \ {x} \in Sortable
      PROVE  T \in Sortable
  <2>1. CASE T = {}
    <3>1. Ascends([k \in 1..0 |-> 0], 0, {})
        BY DEF Ascends
    <3> QED  BY <2>1, <3>1 DEF Sortable
  <2>2. CASE T # {}
    <3>1. Max(T) \in T /\ \A y \in T : Max(T) >= y
        BY <2>2, MaxIsMember
    <3>n. PICK n \in Nat : \E e : Ascends(e, n, T \ {Max(T)})
        BY <1>1, <3>1 DEF Sortable
    <3>2. PICK e : Ascends(e, n, T \ {Max(T)})
        BY <3>n
    <3>3. T \in SUBSET Int
        OBVIOUS
    <3>4. PICK m \in T : m = Max(T)
        BY <3>1
    <3>5. \E f : Ascends(f, n + 1, T)
        BY <3>1, <3>2, <3>3, <3>4, OneMore
    <3>6. n + 1 \in Nat
        OBVIOUS
    <3> QED  BY <3>3, <3>5, <3>6 DEF Sortable
  <2> QED  BY <2>1, <2>2
<1>2. SUBSET S \subseteq Sortable
    BY <1>1, SubsetsUpwards
<1> QED
    BY <1>2 DEF Sortable

\* Ascending lists a finite set of numbers, each once, from the smallest to the greatest.
LEMMA SortedList ==
    ASSUME NEW S, IsFiniteSet(S), S \in SUBSET Int
    PROVE  \E n \in Nat : Ascends(Ascending(S), n, S)
<1>n. PICK n \in Nat : \E e : Ascends(e, n, S)
    BY EverySetSorts
<1>1. PICK e : Ascends(e, n, S)
    BY <1>n
<1>2. /\ e \in [1..n -> S] /\ \A x \in S : \E k \in 1..n : e[k] = x
      /\ \A j, k \in 1..n : j < k => e[j] < e[k]
      /\ \A k \in 1..n : e[k] \in Int
    BY <1>1 DEF Ascends
<1>3. \A j, k \in 1..n : e[j] < e[k] <=> j < k
  <2> TAKE j, k \in 1..n
  <2>1. j < k \/ j = k \/ k < j
      OBVIOUS
  <2> QED  BY <1>2, <2>1
<1>4. \A j, k \in 1..n : e[j] = e[k] => j = k
  <2> TAKE j, k \in 1..n
  <2>1. j < k \/ j = k \/ k < j
      OBVIOUS
  <2> QED  BY <1>2, <2>1
<1>5. Cardinality(S) = n
  <2>1. e \in Bijection(1..n, S)
      BY <1>2, <1>4 DEF Bijection, Injection, Surjection, IsInjective
  <2> QED  BY <2>1, FS_CountingElements DEF ExistsBijection
<1>6. ASSUME NEW k \in 1..n
      PROVE  Cardinality({y \in S : y < e[k]}) = k - 1
  <2> DEFINE m == k - 1
             below == {y \in S : y < e[k]}
             f == [j \in 1..m |-> e[j]]
  <2>1. m \in Nat /\ 1..m \subseteq 1..n /\ \A j \in 1..n : j < k <=> j \in 1..m
      OBVIOUS
  <2>2. \A j \in 1..m : e[j] \in below
      BY <1>2, <1>3, <2>1
  <2>3. f \in [1..m -> below]
      BY <2>2
  <2>4. \A y \in below : \E j \in 1..m : f[j] = y
    <3> TAKE y \in below
    <3>1. PICK j \in 1..n : e[j] = y
        BY <1>2
    <3>2. j \in 1..m
        BY <1>3, <2>1, <3>1
    <3> QED  BY <3>1, <3>2
  <2>5. \A i, j \in 1..m : f[i] = f[j] => i = j
      BY <1>4, <2>1
  <2>6. f \in Bijection(1..m, below)
    <3> HIDE DEF f, m, below
    <3> QED  BY <2>3, <2>4, <2>5 DEF Bijection, Injection, Surjection, IsInjective
  <2>7. Cardinality(below) = m
    <3> HIDE DEF f, m, below
    <3> QED  BY <2>1, <2>6, FS_CountingElements DEF ExistsBijection
  <2> QED  BY <2>7
<1>7. ASSUME NEW k \in 1..n
      PROVE  (CHOOSE x \in S : Cardinality({y \in S : y < x}) = k - 1) = e[k]
  <2>1. e[k] \in S /\ Cardinality({y \in S : y < e[k]}) = k - 1
      BY <1>2, <1>6
  <2>2. ASSUME NEW x \in S, Cardinality({y \in S : y < x}) = k - 1  PROVE x = e[k]
    <3>1. PICK j \in 1..n : e[j] = x
        BY <1>2
    <3>2. j - 1 = k - 1
        BY <1>6, <2>2, <3>1
    <3>3. j = k
        BY <3>2
    <3> QED  BY <3>1, <3>3
  <2> QED  BY <2>1, <2>2
<1>8. Ascending(S) = [k \in 1..n |-> e[k]]
    BY <1>5, <1>7 DEF Ascending
<1>9. [k \in 1..n |-> e[k]] = e
    BY <1>2
<1> QED
    BY <1>1, <1>8, <1>9

-----------------------------------------------------------------------------

(* Runs of filings *)

RunRow == [places : Seq(Nat), level : {"warning", "danger"}]
ScanSet == [run : Seq(Nat), found : Seq(RunRow)]
NothingScanned == [run |-> <<>>, found |-> <<>>]
ScanChain(at, places, flagged, n) ==
    /\ at \in [0..n -> ScanSet]
    /\ at[0] = NothingScanned
    /\ \A k \in 1..n : at[k] = ScanStep(at[k - 1], places[k], places[k] \in flagged)

\* A scan keeps its type.
LEMMA ScanTyped ==
    ASSUME NEW scan \in ScanSet, NEW place \in Nat, NEW inRun \in BOOLEAN
    PROVE  /\ ScanStep(scan, place, inRun) \in ScanSet
           /\ Flush(scan) \in Seq(RunRow)
<1>1. scan.run \in Seq(Nat) /\ scan.found \in Seq(RunRow)
    BY DEF ScanSet
<1>2. [places |-> scan.run, level |-> RunLevel(Len(scan.run))] \in RunRow
    BY <1>1 DEF RunRow, RunLevel
<1>3. Flush(scan) \in Seq(RunRow)
    BY <1>1, <1>2 DEF Flush
<1>4. \A r \in Seq(Nat) : [scan EXCEPT !.run = r] \in ScanSet
    BY DEF ScanSet
<1>5. Append(scan.run, place) \in Seq(Nat) /\ <<>> \in Seq(Nat)
    BY <1>1
<1>6. CASE inRun
  <2>1. ScanStep(scan, place, inRun) = [scan EXCEPT !.run = Append(scan.run, place)]
      BY <1>6 DEF ScanStep
  <2> QED
      BY <1>3, <1>4, <1>5, <2>1
<1>7. CASE ~inRun
    BY <1>3, <1>5, <1>7 DEF ScanStep, ScanSet
<1> QED
    BY <1>3, <1>6, <1>7

\* The fold of Runs, as a chain of its steps.
LEMMA ScanSteps ==
    ASSUME NEW n \in Nat, NEW places \in [1..n -> Nat], NEW flagged
    PROVE  \E at : /\ ScanChain(at, places, flagged, n)
                   /\ Runs(places, flagged) = Flush(at[n])
<1> DEFINE S == 1..n
           V == ScanSet
           base == NothingScanned
           Next1(v, k) == ScanStep(v, places[k], places[k] \in flagged)
           pick == [T \in SUBSET S |-> Max(T)]
           step == [p \in S \X V |-> Next1(p[2], p[1])]
           F(g) == [T \in SUBSET S |->
                       IF T = {} THEN base ELSE Next1(g[T \ {Max(T)}], Max(T))]
           iter == CHOOSE g : g = F(g)
<1>1. IsFiniteSet(S) /\ S \in SUBSET Int
    BY UpToLast
<1>2. \A T \in SUBSET S : T # {} => Max(T) \in T
    BY <1>1, MaxIsMember
<1>a. base \in V
    BY DEF NothingScanned, ScanSet
<1>b. \A k \in S : \A v \in V : Next1(v, k) \in V
  <2> TAKE k \in S
  <2> TAKE v \in V
  <2>1. places[k] \in Nat /\ (places[k] \in flagged) \in BOOLEAN
      OBVIOUS
  <2> QED  BY <2>1, ScanTyped
<1> HIDE DEF Next1
<1>3. PICK g : Unfolds(g, S, pick, base, V, step)
  <2>1. step \in [S \X V -> V]
      BY <1>b
  <2>2. \A T \in SUBSET S : T # {} => pick[T] \in T
      BY <1>2
  <2> HIDE DEF pick, step, base, V, S
  <2> QED
      BY <1>1, <1>a, <2>1, <2>2, SubsetRecursion
<1>4. g = F(g)
  <2>1. g \in [SUBSET S -> V]
      BY <1>3 DEF Unfolds
  <2>2. ASSUME NEW T \in SUBSET S, T # {}
        PROVE  g[T] = Next1(g[T \ {Max(T)}], Max(T))
    <3>1. g[T] = step[<<pick[T], g[T \ {pick[T]}]>>]
      <4> HIDE DEF pick, step
      <4> QED  BY <1>3, <2>2 DEF Unfolds
    <3>2. pick[T] = Max(T)
        OBVIOUS
    <3>3. Max(T) \in S /\ T \ {Max(T)} \in SUBSET S
        BY <1>2, <2>2
    <3>4. g[T \ {Max(T)}] \in V
        BY <2>1, <3>3
    <3> HIDE DEF pick, V, S
    <3> QED
        BY <3>1, <3>2, <3>3, <3>4
  <2>3. g[{}] = base
      BY <1>3 DEF Unfolds
  <2> HIDE DEF base, V
  <2> QED
      BY <2>1, <2>2, <2>3
<1>5. iter = F(iter)
  <2> HIDE DEF F
  <2> QED  BY <1>4
<1>6. iter[{}] = base
  <2> HIDE DEF iter, base
  <2> QED  BY <1>5
<1>7. ASSUME NEW k \in 1..n
      PROVE  iter[1..k] = Next1(iter[1..(k - 1)], k)
  <2>1. Max(1..k) = k
      BY MaxOfInterval
  <2>2. (1..k) \ {k} = 1..(k - 1) /\ 1..k \in SUBSET S /\ 1..k # {}
      BY UpToLast
  <2>3. iter[1..k] = Next1(iter[(1..k) \ {Max(1..k)}], Max(1..k))
    <3> HIDE DEF iter, base, S
    <3> QED  BY <1>5, <2>2
  <2> HIDE DEF iter
  <2> QED
      BY <2>1, <2>2, <2>3
<1>8. Runs(places, flagged) = Flush(iter[1..n])
    BY DEF Runs, FoldLeft, MapThenFoldSet, NothingScanned, Next1
<1> DEFINE at == [k \in 0..n |-> iter[1..k]]
<1>9. at[0] = base
  <2>1. 1..0 = {}
      OBVIOUS
  <2> HIDE DEF iter, base
  <2> QED
      BY <1>6, <2>1
<1>10. \A k \in 1..n : at[k] = Next1(at[k - 1], k)
  <2> HIDE DEF iter
  <2> TAKE k \in 1..n
  <2>1. k \in 0..n /\ k - 1 \in 0..n
      OBVIOUS
  <2>2. at[k] = iter[1..k] /\ at[k - 1] = iter[1..(k - 1)]
      BY <2>1
  <2> QED
      BY <1>7, <2>2
<1>11. Runs(places, flagged) = Flush(at[n])
  <2> HIDE DEF iter
  <2> QED
      BY <1>8
<1>12. at \in [0..n -> ScanSet]
  <2> DEFINE G == {k \in Nat : k <= n => at[k] \in ScanSet}
  <2>1. 0 \in G
      BY <1>9, <1>a
  <2>2. ASSUME NEW k \in Nat, k \in G  PROVE k + 1 \in G
    <3> SUFFICES ASSUME k + 1 <= n PROVE at[k + 1] \in ScanSet
        OBVIOUS
    <3>1. k + 1 \in 1..n /\ k <= n /\ (k + 1) - 1 = k
        OBVIOUS
    <3> HIDE DEF at
    <3> QED  BY <3>1, <2>2, <1>10, <1>b
  <2>3. Nat \subseteq G
    <3> HIDE DEF G
    <3> QED  BY <2>1, <2>2, NatUpwards
  <2>4. \A k \in 0..n : at[k] \in ScanSet
    <3> HIDE DEF at
    <3> QED  BY <2>3
  <2>5. at = [k \in 0..n |-> at[k]]
      OBVIOUS
  <2> HIDE DEF at
  <2> QED  BY <2>4, <2>5
<1> HIDE DEF at
<1> QED
    BY <1>9, <1>10, <1>11, <1>12 DEF ScanChain, Next1

-----------------------------------------------------------------------------

(* The runs a scan reports *)

\* The places from the i-th to the j-th.
Piece(P, i, j) == [m \in 1..(j + 1 - i) |-> P[i + m - 1]]
RunOf(P, i, j) == [places |-> Piece(P, i, j), level |-> RunLevel(j + 1 - i)]

\* H is the set of flagged positions: from i to j all of them, and no neighbour.
IsRun(H, i, j) == i < j /\ i..j \subseteq H /\ i - 1 \notin H /\ j + 1 \notin H

\* found lists, in their order, the runs of H that end before k, and before s.
Tabulates(found, P, H, k, s, c, lo, hi) ==
    /\ found \in Seq(RunRow) /\ Len(found) = c
    /\ lo \in [1..c -> Nat] /\ hi \in [1..c -> Nat]
    /\ \A m \in 1..c : found[m] = RunOf(P, lo[m], hi[m])
    /\ \A m \in 1..c : IsRun(H, lo[m], hi[m]) /\ hi[m] < k /\ hi[m] < s
    /\ \A i, j \in Nat : IsRun(H, i, j) /\ j < k => \E m \in 1..c : lo[m] = i /\ hi[m] = j
    /\ \A m, p \in 1..c : lo[m] = lo[p] => m = p
Listing(found, P, H, k, s) == \E c \in Nat : \E lo, hi : Tabulates(found, P, H, k, s, c, lo, hi)

\* The run that is open at k starts at s, and what was closed before it is listed.
Open(scan, P, H, k, s) ==
    /\ s \in Nat /\ 1 <= s /\ s <= k + 1
    /\ scan.run = Piece(P, s, k)
    /\ s..k \subseteq H /\ s - 1 \notin H
    /\ Listing(scan.found, P, H, k, s)

\* Three facts that the provers do not see next to other definitions.
LEMMA SameLength ==
    ASSUME NEW a \in Nat, NEW b \in Nat, 1..a = 1..b
    PROVE  a = b
<1>1. \A m \in Nat : m \in 1..a <=> 1 <= m /\ m <= a
    OBVIOUS
<1>2. \A m \in Nat : m \in 1..b <=> 1 <= m /\ m <= b
    OBVIOUS
<1> QED
    BY <1>1, <1>2

LEMMA OtherRun ==
    ASSUME NEW scan \in ScanSet, NEW r
    PROVE  [scan EXCEPT !.run = r] = [run |-> r, found |-> scan.found]
<1>1. PICK A, B : A = Seq(Nat) /\ B = Seq(RunRow)
    OBVIOUS
<1>2. scan \in [run : A, found : B]
    BY <1>1 DEF ScanSet
<1> QED
    BY <1>2

LEMMA AppendOne ==
    ASSUME NEW q \in Seq(Nat), NEW z \in Nat, NEW w \in Nat, Len(q) = w
    PROVE  /\ Append(q, z) \in [1..(w + 1) -> Nat] /\ Append(q, z)[w + 1] = z
           /\ \A m \in 1..w : Append(q, z)[m] = q[m]
<1>1. Append(q, z) \in Seq(Nat) /\ Len(Append(q, z)) = w + 1
    BY AppendProperties
<1>2. Append(q, z) \in [1..(w + 1) -> Nat]
    BY <1>1, LenProperties
<1> QED
    BY <1>2, AppendProperties

\* The run that ends at k is the open one.
LEMMA EndsHere ==
    ASSUME NEW H, NEW k \in Nat, NEW s \in Nat, 1 <= s, s <= k + 1, s..k \subseteq H, s - 1 \notin H,
           NEW i \in Nat, NEW j \in Nat, IsRun(H, i, j), j < k + 1, ~(j < k)
    PROVE  i = s /\ j = k /\ s < k
<1>1. j = k /\ i < k /\ i..k \subseteq H /\ i - 1 \notin H
    BY DEF IsRun
<1>2. ~(i < s)
  <2> SUFFICES ASSUME i < s PROVE FALSE
      OBVIOUS
  <2>1. s - 1 \in i..k
      OBVIOUS
  <2> QED  BY <1>1, <2>1
<1>3. ~(s < i)
  <2> SUFFICES ASSUME s < i PROVE FALSE
      OBVIOUS
  <2>1. i - 1 \in s..k
      BY <1>1
  <2> QED  BY <1>1, <2>1
<1> QED
    BY <1>1, <1>2, <1>3

\* A flagged place closes no run.
LEMMA StaysListed ==
    ASSUME NEW P, NEW H, NEW k \in Nat, NEW s, NEW found, k + 1 \in H, Listing(found, P, H, k, s)
    PROVE  Listing(found, P, H, k + 1, s)
<1>c. PICK c \in Nat : \E lo, hi : Tabulates(found, P, H, k, s, c, lo, hi)
    BY DEF Listing
<1>1. PICK lo, hi : Tabulates(found, P, H, k, s, c, lo, hi)
    BY <1>c
<1>2. \A m \in 1..c : hi[m] < k => hi[m] < k + 1
    BY <1>1 DEF Tabulates
<1>3. \A i, j \in Nat : IsRun(H, i, j) /\ j < k + 1 => j < k
  <2> TAKE i, j \in Nat
  <2>1. CASE j = k
      BY <2>1 DEF IsRun
  <2> QED
      BY <2>1
<1>4. Tabulates(found, P, H, k + 1, s, c, lo, hi)
    BY <1>1, <1>2, <1>3 DEF Tabulates
<1> QED
    BY <1>4 DEF Listing

\* What a place that is not flagged, or the end, leaves listed.
LEMMA FlushLists ==
    ASSUME NEW P, NEW H, NEW k \in Nat, NEW s, NEW scan \in ScanSet, k + 1 \notin H,
           Open(scan, P, H, k, s)
    PROVE  Listing(Flush(scan), P, H, k + 1, k + 2)
<1>c. PICK c \in Nat : \E lo, hi : Tabulates(scan.found, P, H, k, s, c, lo, hi)
    BY DEF Listing, Open
<1>1. PICK lo, hi : Tabulates(scan.found, P, H, k, s, c, lo, hi)
    BY <1>c
<1>2. s \in Nat /\ 1 <= s /\ s <= k + 1 /\ s..k \subseteq H /\ s - 1 \notin H
    BY DEF Open
<1>3. \A m \in 1..c : hi[m] \in Nat /\ lo[m] \in Nat /\ hi[m] < k + 1 /\ hi[m] < k + 2 /\ lo[m] < s
  <2> TAKE m \in 1..c
  <2>1. hi[m] \in Nat /\ lo[m] \in Nat /\ hi[m] < k /\ hi[m] < s /\ lo[m] < hi[m]
      BY <1>1 DEF Tabulates, IsRun
  <2> QED  BY <1>2, <2>1
<1>4. Len(scan.run) = k + 1 - s
  <2>1. scan.run \in Seq(Nat) /\ scan.run = Piece(P, s, k) /\ k + 1 - s \in Nat
      BY <1>2 DEF Open, ScanSet
  <2>2. DOMAIN scan.run = 1..(k + 1 - s)
      BY <2>1 DEF Piece
  <2>3. DOMAIN scan.run = 1..Len(scan.run) /\ Len(scan.run) \in Nat
      BY <2>1
  <2> QED  BY <2>1, <2>2, <2>3
<1>5. Flush(scan) \in Seq(RunRow)
    BY ScanTyped DEF ScanSet
<1>6. CASE k + 1 - s < 2
  <2>1. Flush(scan) = scan.found
      BY <1>2, <1>4, <1>6 DEF Flush
  <2>2. \A i, j \in Nat : IsRun(H, i, j) /\ j < k + 1 => j < k
    <3> TAKE i, j \in Nat
    <3> SUFFICES ASSUME IsRun(H, i, j), j < k + 1, ~(j < k) PROVE FALSE
        OBVIOUS
    <3>1. s < k
        BY <1>2, EndsHere
    <3> QED  BY <1>2, <1>6, <3>1
  <2>3. Tabulates(Flush(scan), P, H, k + 1, k + 2, c, lo, hi)
      BY <1>1, <1>3, <2>1, <2>2 DEF Tabulates
  <2> QED
      BY <2>3 DEF Listing
<1>7. CASE ~(k + 1 - s < 2)
  <2> DEFINE row == [places |-> scan.run, level |-> RunLevel(Len(scan.run))]
             lo2 == [m \in 1..(c + 1) |-> IF m = c + 1 THEN s ELSE lo[m]]
             hi2 == [m \in 1..(c + 1) |-> IF m = c + 1 THEN k ELSE hi[m]]
  <2>1. Flush(scan) = Append(scan.found, row)
      BY <1>2, <1>4, <1>7 DEF Flush
  <2>2. row = RunOf(P, s, k)
      BY <1>4 DEF RunOf, Open
  <2>3. scan.found \in Seq(RunRow) /\ Len(scan.found) = c
      BY <1>1 DEF Tabulates
  <2>r. row \in RunRow
      BY <1>4 DEF RunRow, RunLevel, ScanSet
  <2>4. /\ Len(Flush(scan)) = c + 1 /\ Flush(scan)[c + 1] = row
        /\ \A m \in 1..c : Flush(scan)[m] = scan.found[m]
    <3> HIDE DEF row
    <3> QED  BY <2>1, <2>3, <2>r
  <2>5. \A m \in 1..(c + 1) : m = c + 1 \/ m \in 1..c
      OBVIOUS
  <2>6. c + 1 \in 1..(c + 1) /\ \A m \in 1..c : m \in 1..(c + 1) /\ m # c + 1
      OBVIOUS
  <2>7. /\ lo2[c + 1] = s /\ hi2[c + 1] = k
        /\ \A m \in 1..c : lo2[m] = lo[m] /\ hi2[m] = hi[m]
      BY <2>6
  <2>8. lo2 \in [1..(c + 1) -> Nat] /\ hi2 \in [1..(c + 1) -> Nat]
      BY <1>2, <1>3, <2>5
  <2> HIDE DEF row, lo2, hi2
  <2>9. \A m \in 1..(c + 1) : Flush(scan)[m] = RunOf(P, lo2[m], hi2[m])
    <3>1. \A m \in 1..c : Flush(scan)[m] = RunOf(P, lo2[m], hi2[m])
        BY <1>1, <2>4, <2>7 DEF Tabulates
    <3> QED  BY <2>2, <2>4, <2>5, <2>7, <3>1
  <2>10. IsRun(H, s, k) /\ k < k + 1 /\ k < k + 2
      BY <1>2, <1>7 DEF IsRun
  <2>11. \A m \in 1..(c + 1) : IsRun(H, lo2[m], hi2[m]) /\ hi2[m] < k + 1 /\ hi2[m] < k + 2
    <3>1. \A m \in 1..c : IsRun(H, lo2[m], hi2[m]) /\ hi2[m] < k + 1 /\ hi2[m] < k + 2
        BY <1>1, <1>3, <2>7 DEF Tabulates
    <3> QED  BY <2>5, <2>7, <2>10, <3>1
  <2>12. ASSUME NEW i \in Nat, NEW j \in Nat, IsRun(H, i, j), j < k + 1
         PROVE  \E m \in 1..(c + 1) : lo2[m] = i /\ hi2[m] = j
    <3>1. CASE j < k
      <4>0. \A a, b \in Nat : IsRun(H, a, b) /\ b < k => \E m \in 1..c : lo[m] = a /\ hi[m] = b
          BY <1>1 DEF Tabulates
      <4>1. PICK m \in 1..c : lo[m] = i /\ hi[m] = j
          BY <2>12, <3>1, <4>0
      <4> QED  BY <2>6, <2>7, <4>1
    <3>2. CASE ~(j < k)
      <4>1. i = s /\ j = k
          BY <1>2, <2>12, <3>2, EndsHere
      <4> QED  BY <2>6, <2>7, <4>1
    <3> QED  BY <3>1, <3>2
  <2>13. ASSUME NEW m \in 1..(c + 1), NEW p \in 1..(c + 1), lo2[m] = lo2[p]  PROVE m = p
    <3>1. CASE m \in 1..c /\ p \in 1..c
        BY <1>1, <2>7, <2>13, <3>1 DEF Tabulates
    <3>2. CASE m = c + 1 /\ p \in 1..c
        BY <1>2, <1>3, <2>7, <2>13, <3>2
    <3>3. CASE p = c + 1 /\ m \in 1..c
        BY <1>2, <1>3, <2>7, <2>13, <3>3
    <3> QED  BY <2>5, <3>1, <3>2, <3>3
  <2>14. Tabulates(Flush(scan), P, H, k + 1, k + 2, c + 1, lo2, hi2)
      BY <1>5, <2>4, <2>8, <2>9, <2>11, <2>12, <2>13 DEF Tabulates
  <2>15. c + 1 \in Nat
      OBVIOUS
  <2> QED
      BY <2>14, <2>15 DEF Listing
<1> QED
    BY <1>6, <1>7

\* The scan before its first place.
LEMMA OpensAtFirst ==
    ASSUME NEW P, NEW H \in SUBSET (Nat \ {0})
    PROVE  Open(NothingScanned, P, H, 0, 1)
<1>1. Piece(P, 1, 0) = <<>>
    BY DEF Piece
<1>2. 1..0 = {} /\ 1 - 1 = 0 /\ 0 + 1 = 1
    OBVIOUS
<1>3. Tabulates(<<>>, P, H, 0, 1, 0, [m \in 1..0 |-> 0], [m \in 1..0 |-> 0])
  <2>1. \A i, j \in Nat : ~(j < 0)
      OBVIOUS
  <2>2. <<>> \in Seq(RunRow) /\ Len(<<>>) = 0
      OBVIOUS
  <2> QED  BY <1>2, <2>1, <2>2 DEF Tabulates
<1>4. Listing(<<>>, P, H, 0, 1)
    BY <1>3 DEF Listing
<1> QED
    BY <1>1, <1>2, <1>4 DEF Open, NothingScanned

\* The scan of one place more.
LEMMA OpenStep ==
    ASSUME NEW n \in Nat, NEW P \in [1..n -> Nat], NEW H, NEW flagged, NEW k \in 0..(n - 1),
           NEW s, NEW scan \in ScanSet, Open(scan, P, H, k, s),
           k + 1 \in H <=> P[k + 1] \in flagged
    PROVE  \E z : Open(ScanStep(scan, P[k + 1], P[k + 1] \in flagged), P, H, k + 1, z)
<1>1. k \in Nat /\ k + 1 \in 1..n /\ P[k + 1] \in Nat
    OBVIOUS
<1>2. s \in Nat /\ 1 <= s /\ s <= k + 1 /\ s..k \subseteq H /\ s - 1 \notin H
    BY DEF Open
<1>3. CASE k + 1 \in H
  <2>1. ScanStep(scan, P[k + 1], P[k + 1] \in flagged) = [scan EXCEPT !.run = Append(scan.run, P[k + 1])]
      BY <1>3 DEF ScanStep
  <2>2. Append(scan.run, P[k + 1]) = Piece(P, s, k + 1)
    <3> DEFINE w == k + 1 - s
               q == scan.run
               a == Append(q, P[k + 1])
    <3>1. w \in Nat /\ (k + 1) + 1 - s = w + 1 /\ s + (w + 1) - 1 = k + 1
        BY <1>1, <1>2
    <3>2. q \in Seq(Nat) /\ q = [m \in 1..w |-> P[s + m - 1]]
        BY DEF ScanSet, Open, Piece
    <3> HIDE DEF w, q
    <3>3. Len(q) = w
      <4>1. DOMAIN q = 1..w /\ DOMAIN q = 1..Len(q) /\ Len(q) \in Nat
        <5>1. DOMAIN q = 1..w
            BY <3>2
        <5> QED  BY <3>2, <5>1, LenProperties
      <4>2. w \in Nat /\ Len(q) \in Nat
          BY <3>1, <4>1
      <4>3. 1..w = 1..Len(q)
          BY <4>1
      <4> QED  BY <4>2, <4>3, SameLength
    <3>4. a \in [1..(w + 1) -> Nat] /\ a[w + 1] = P[k + 1] /\ \A m \in 1..w : a[m] = q[m]
      <4>1. P[k + 1] \in Nat /\ w \in Nat /\ q \in Seq(Nat)
          BY <1>1, <3>1, <3>2
      <4>2. PICK z \in Nat : z = P[k + 1]
          BY <4>1
      <4>3. Append(q, z) \in [1..(w + 1) -> Nat] /\ Append(q, z)[w + 1] = z
          BY <3>3, <4>1, AppendOne
      <4>4. \A m \in 1..w : Append(q, z)[m] = q[m]
          BY <3>3, <4>1, AppendOne
      <4> QED  BY <4>2, <4>3, <4>4
    <3> HIDE DEF a
    <3>5. \A m \in 1..(w + 1) : m = w + 1 \/ m \in 1..w
        BY <3>1
    <3>6. \A m \in 1..w : a[m] = P[s + m - 1]
        BY <3>2, <3>4
    <3>7. \A m \in 1..(w + 1) : a[m] = P[s + m - 1]
        BY <3>1, <3>4, <3>5, <3>6
    <3>8. a = [m \in 1..(w + 1) |-> a[m]]
        BY <3>4
    <3>9. a = [m \in 1..(w + 1) |-> P[s + m - 1]]
        BY <3>7, <3>8
    <3> QED  BY <3>1, <3>9 DEF Piece, a, q
  <2>3. s..(k + 1) \subseteq H
    <3>1. \A x \in s..(k + 1) : x \in s..k \/ x = k + 1
        BY <1>1, <1>2
    <3> QED  BY <1>2, <1>3, <3>1
  <2>4. Listing(scan.found, P, H, k + 1, s)
      BY <1>1, <1>3, StaysListed DEF Open
  <2>5. s <= (k + 1) + 1
      BY <1>1, <1>2
  <2>6. [scan EXCEPT !.run = Append(scan.run, P[k + 1])]
            = [run |-> Append(scan.run, P[k + 1]), found |-> scan.found]
      BY OtherRun
  <2>7. Open([scan EXCEPT !.run = Append(scan.run, P[k + 1])], P, H, k + 1, s)
      BY <1>2, <2>2, <2>3, <2>4, <2>5, <2>6 DEF Open
  <2> QED
      BY <2>1, <2>7
<1>4. CASE k + 1 \notin H
  <2>1. ScanStep(scan, P[k + 1], P[k + 1] \in flagged) = [run |-> <<>>, found |-> Flush(scan)]
      BY <1>4 DEF ScanStep
  <2>2. Listing(Flush(scan), P, H, k + 1, k + 2)
      BY <1>1, <1>4, FlushLists
  <2>3. /\ k + 2 \in Nat /\ 1 <= k + 2 /\ k + 2 <= (k + 1) + 1 /\ (k + 2)..(k + 1) = {}
        /\ (k + 2) - 1 = k + 1 /\ 1..((k + 1) + 1 - (k + 2)) = {}
      BY <1>1
  <2>4. Piece(P, k + 2, k + 1) = <<>>
      BY <2>3 DEF Piece
  <2>5. Open([run |-> <<>>, found |-> Flush(scan)], P, H, k + 1, k + 2)
      BY <1>4, <2>2, <2>3, <2>4 DEF Open
  <2> QED
      BY <2>1, <2>5
<1> QED
    BY <1>3, <1>4

\* The runs of a list are those of its flagged positions.
LEMMA RunsListed ==
    ASSUME NEW n \in Nat, NEW P \in [1..n -> Nat], NEW flagged,
           NEW H, H = {k \in 1..n : P[k] \in flagged}
    PROVE  Listing(Runs(P, flagged), P, H, n + 1, n + 2)
<1>1. PICK at : ScanChain(at, P, flagged, n) /\ Runs(P, flagged) = Flush(at[n])
    BY ScanSteps
<1>2. H \in SUBSET (Nat \ {0}) /\ n + 1 \notin H /\ \A k \in 1..n : k \in H <=> P[k] \in flagged
  <2>1. \A k \in 1..n : k \in Nat \ {0} /\ k # n + 1
      OBVIOUS
  <2> QED
      BY <2>1
<1> DEFINE Held(k) == \E s : Open(at[k], P, H, k, s)
           G == {k \in Nat : k <= n => Held(k)}
<1>3. 0 \in G
    BY <1>1, <1>2, OpensAtFirst DEF ScanChain
<1>4. ASSUME NEW k \in Nat, k \in G  PROVE k + 1 \in G
  <2> SUFFICES ASSUME k + 1 <= n PROVE Held(k + 1)
    <3> HIDE DEF Held
    <3> QED  OBVIOUS
  <2>1. k \in 0..(n - 1) /\ k + 1 \in 1..n /\ (k + 1) - 1 = k /\ k <= n /\ k \in 0..n
      OBVIOUS
  <2>2. PICK s : Open(at[k], P, H, k, s)
      BY <1>4, <2>1
  <2>3. at[k + 1] = ScanStep(at[k], P[k + 1], P[k + 1] \in flagged) /\ at[k] \in ScanSet
      BY <1>1, <2>1 DEF ScanChain
  <2>4. k + 1 \in H <=> P[k + 1] \in flagged
      BY <1>2, <2>1
  <2> HIDE DEF G
  <2>5. \E z : Open(ScanStep(at[k], P[k + 1], P[k + 1] \in flagged), P, H, k + 1, z)
      BY <2>1, <2>2, <2>3, <2>4, OpenStep
  <2> QED
      BY <2>3, <2>5
<1>5. Nat \subseteq G
  <2> HIDE DEF G
  <2> QED  BY <1>3, <1>4, NatUpwards
<1>6. PICK s : Open(at[n], P, H, n, s)
  <2>1. n \in G /\ n <= n
    <3> HIDE DEF G
    <3> QED  BY <1>5
  <2> QED
      BY <2>1
<1>7. at[n] \in ScanSet
  <2>1. n \in 0..n
      OBVIOUS
  <2> QED  BY <1>1, <2>1 DEF ScanChain
<1> QED
    BY <1>1, <1>2, <1>6, <1>7, FlushLists

-----------------------------------------------------------------------------

\* SubSeq, as MaximalRuns uses it, is a piece.
LEMMA SubSeqIsPiece ==
    ASSUME NEW n \in Nat, NEW P \in [1..n -> Nat], NEW i \in 1..n, NEW j \in 1..n, i < j
    PROVE  SubSeq(P, i, j) = Piece(P, i, j)
<1>1. P \in Seq(Nat) /\ Len(P) = n
    OBVIOUS
<1>2. i \in Int /\ j \in Int /\ i <= j + 1 /\ i \in 1..(Len(P) + 1) /\ j \in (i - 1)..Len(P)
    BY <1>1
<1>3. SubSeq(P, i, j) = [m \in 1..(j - i + 1) |-> P[i + m - 1]]
    BY <1>1, <1>2, SubSeqProperties
<1>4. j - i + 1 = j + 1 - i
    OBVIOUS
<1> QED
    BY <1>3, <1>4 DEF Piece

LEMMA IsSeqOf ==
    ASSUME NEW w \in Nat, NEW q \in [1..w -> Nat]
    PROVE  q \in Seq(Nat) /\ Len(q) = w
    OBVIOUS

\* What MaximalRuns asks of two positions.
Bounded(P, flagged, i, j) ==
    /\ i < j
    /\ \A m \in i..j : P[m] \in flagged
    /\ i = 1 \/ P[i - 1] \notin flagged
    /\ j = Len(P) \/ P[j + 1] \notin flagged

\* What MaximalRuns asks is what a run of flagged positions is.
LEMMA RunsAreBounded ==
    ASSUME NEW n \in Nat, NEW P \in [1..n -> Nat], NEW flagged,
           NEW H, H = {k \in 1..n : P[k] \in flagged}, NEW i \in 1..n, NEW j \in 1..n
    PROVE  Bounded(P, flagged, i, j) <=> IsRun(H, i, j)
<1>1. Len(P) = n
    OBVIOUS
<1>2. \A m \in 1..n : m \in H <=> P[m] \in flagged
    OBVIOUS
<1>3. 0 \notin H /\ n + 1 \notin H
  <2>1. \A m \in 1..n : m # 0 /\ m # n + 1
      OBVIOUS
  <2> QED  BY <2>1
<1>4. i..j \subseteq 1..n
    OBVIOUS
<1>5. i = 1 \/ i - 1 \in 1..n
    OBVIOUS
<1>6. j = n \/ j + 1 \in 1..n
    OBVIOUS
<1>7. 1 - 1 = 0
    OBVIOUS
<1>8. (\A m \in i..j : P[m] \in flagged) <=> i..j \subseteq H
    BY <1>2, <1>4
<1>9. (i = 1 \/ P[i - 1] \notin flagged) <=> i - 1 \notin H
    BY <1>2, <1>3, <1>5, <1>7
<1>10. (j = n \/ P[j + 1] \notin flagged) <=> j + 1 \notin H
    BY <1>2, <1>3, <1>6
<1> QED
    BY <1>1, <1>8, <1>9, <1>10 DEF Bounded, IsRun

\* The ends of a run are positions of the list.
LEMMA RunsInside ==
    ASSUME NEW n \in Nat, NEW H \in SUBSET (1..n), NEW i \in Nat, NEW j \in Nat, IsRun(H, i, j)
    PROVE  i \in 1..n /\ j \in 1..n
<1>1. i \in i..j /\ j \in i..j
    BY DEF IsRun
<1> QED
    BY <1>1 DEF IsRun

\* The pieces of the listed runs are the maximal runs.
LEMMA MaximalIsListed ==
    ASSUME NEW n \in Nat, NEW P \in [1..n -> Nat], NEW flagged,
           NEW H, H = {k \in 1..n : P[k] \in flagged},
           NEW found, NEW c \in Nat, NEW lo, NEW hi,
           Tabulates(found, P, H, n + 1, n + 2, c, lo, hi)
    PROVE  MaximalRuns(P, flagged) = {Piece(P, lo[m], hi[m]) : m \in 1..c}
<1>1. Len(P) = n /\ H \in SUBSET (1..n)
    OBVIOUS
<1>2. ASSUME NEW m \in 1..c
      PROVE  lo[m] \in 1..n /\ hi[m] \in 1..n /\ IsRun(H, lo[m], hi[m])
  <2>1. lo[m] \in Nat /\ hi[m] \in Nat /\ IsRun(H, lo[m], hi[m])
      BY DEF Tabulates
  <2> QED  BY <1>1, <2>1, RunsInside
<1> DEFINE K == {k \in (1..n) \X (1..n) : Bounded(P, flagged, k[1], k[2])}
<1>3. MaximalRuns(P, flagged) = {SubSeq(P, k[1], k[2]) : k \in K}
    BY <1>1 DEF MaximalRuns, Bounded
<1>4. \A k \in K : /\ k[1] \in 1..n /\ k[2] \in 1..n /\ IsRun(H, k[1], k[2])
                   /\ SubSeq(P, k[1], k[2]) = Piece(P, k[1], k[2])
  <2> TAKE k \in K
  <2>1. PICK i \in 1..n, j \in 1..n : i = k[1] /\ j = k[2]
      OBVIOUS
  <2>2. IsRun(H, i, j)
      BY <2>1, RunsAreBounded
  <2>3. SubSeq(P, i, j) = Piece(P, i, j)
      BY <2>2, SubSeqIsPiece DEF IsRun
  <2> QED  BY <2>1, <2>2, <2>3
<1>5. ASSUME NEW k \in K
      PROVE  \E m \in 1..c : SubSeq(P, k[1], k[2]) = Piece(P, lo[m], hi[m])
  <2> HIDE DEF K
  <2>0. PICK i \in 1..n, j \in 1..n : i = k[1] /\ j = k[2] /\ IsRun(H, i, j)
      BY <1>4
  <2>1. i \in Nat /\ j \in Nat /\ i = k[1] /\ j = k[2] /\ IsRun(H, i, j) /\ j < n + 1
      BY <2>0
  <2>2. PICK m \in 1..c : lo[m] = i /\ hi[m] = j
    <3>1. \A a, b \in Nat : IsRun(H, a, b) /\ b < n + 1 => \E m \in 1..c : lo[m] = a /\ hi[m] = b
        BY DEF Tabulates
    <3> QED  BY <2>1, <3>1
  <2> QED  BY <1>4, <2>1, <2>2
<1>6. ASSUME NEW m \in 1..c
      PROVE  \E k \in K : SubSeq(P, k[1], k[2]) = Piece(P, lo[m], hi[m])
  <2>1. PICK i \in 1..n, j \in 1..n : i = lo[m] /\ j = hi[m] /\ IsRun(H, i, j)
      BY <1>2
  <2>2. Bounded(P, flagged, i, j)
      BY <2>1, RunsAreBounded
  <2>3. <<i, j>> \in K /\ <<i, j>>[1] = i /\ <<i, j>>[2] = j
      BY <2>2
  <2> HIDE DEF K
  <2> QED  BY <1>4, <2>1, <2>3
<1> HIDE DEF K
<1> QED
    BY <1>3, <1>5, <1>6

\* Runs finds exactly the maximal runs, each once and with its level.
LEMMA RunsAreMaximal ==
    ASSUME NEW n \in Nat, NEW P \in [1..n -> Nat], NEW flagged,
           \A i, j \in 1..n : P[i] = P[j] => i = j
    PROVE  Exactly(Runs(P, flagged), MaximalRuns(P, flagged))
<1>1. PICK H : H = {k \in 1..n : P[k] \in flagged}
    OBVIOUS
<1>2. PICK found : found = Runs(P, flagged)
    OBVIOUS
<1>3. PICK c \in Nat : \E lo, hi : Tabulates(found, P, H, n + 1, n + 2, c, lo, hi)
    BY <1>1, <1>2, RunsListed DEF Listing
<1>4. PICK lo, hi : Tabulates(found, P, H, n + 1, n + 2, c, lo, hi)
    BY <1>3
<1> DEFINE piece == [m \in 1..c |-> Piece(P, lo[m], hi[m])]
           M == MaximalRuns(P, flagged)
<1>5. M = {piece[m] : m \in 1..c}
  <2>1. MaximalRuns(P, flagged) = {Piece(P, lo[m], hi[m]) : m \in 1..c}
    <3> HIDE DEF piece, M
    <3>1. n \in Nat /\ P \in [1..n -> Nat] /\ c \in Nat
        OBVIOUS
    <3> QED  BY <1>1, <1>4, <3>1, MaximalIsListed
  <2> QED  BY <2>1
<1>6. DOMAIN found = 1..c /\ Len(found) = c
  <2>1. found \in Seq(RunRow) /\ Len(found) = c
      BY <1>4 DEF Tabulates
  <2> QED  BY <2>1, LenProperties
<1>7. ASSUME NEW m \in 1..c
      PROVE  /\ found[m].places = piece[m]
             /\ found[m].level = RunLevel(hi[m] + 1 - lo[m])
             /\ lo[m] \in 1..n /\ hi[m] \in 1..n /\ lo[m] < hi[m]
  <2>1. found[m] = RunOf(P, lo[m], hi[m]) /\ IsRun(H, lo[m], hi[m]) /\ lo[m] \in Nat /\ hi[m] \in Nat
      BY <1>4 DEF Tabulates
  <2>2. H \in SUBSET (1..n)
      BY <1>1
  <2>3. lo[m] \in 1..n /\ hi[m] \in 1..n
      BY <2>1, <2>2, RunsInside
  <2> QED  BY <2>1, <2>3 DEF RunOf, IsRun
<1>8. ASSUME NEW m \in 1..c
      PROVE  piece[m] \in Seq(Nat) /\ Len(piece[m]) = hi[m] + 1 - lo[m] /\ piece[m][1] = P[lo[m]]
  <2>1. PICK i \in 1..n, j \in 1..n : i = lo[m] /\ j = hi[m] /\ i < j
      BY <1>7
  <2>2. piece[m] = [x \in 1..(j + 1 - i) |-> P[i + x - 1]]
      BY <2>1 DEF Piece
  <2>3. j + 1 - i \in Nat /\ 1 \in 1..(j + 1 - i) /\ i + 1 - 1 = i
        /\ \A x \in 1..(j + 1 - i) : i + x - 1 \in 1..n
    <3>1. i \in Int /\ j \in Int /\ n \in Int /\ 1 <= i /\ j <= n /\ i < j
        BY <2>1
    <3>2. \A x \in 1..(j + 1 - i) : x \in Int /\ 1 <= x /\ x <= j + 1 - i
        BY <3>1
    <3>3. \A x \in 1..(j + 1 - i) : i + x - 1 \in Int /\ 1 <= i + x - 1 /\ i + x - 1 <= n
        BY <3>1, <3>2
    <3>4. j + 1 - i \in Nat /\ 1 \in 1..(j + 1 - i) /\ i + 1 - 1 = i
        BY <3>1
    <3> QED  BY <3>3, <3>4
  <2>4. PICK w \in Nat : w = j + 1 - i
      BY <2>3
  <2>5. piece[m] \in [1..w -> Nat] /\ piece[m][1] = P[i]
    <3> HIDE DEF piece
    <3> QED  BY <2>2, <2>3, <2>4
  <2>6. piece[m] \in Seq(Nat) /\ Len(piece[m]) = w
    <3>1. PICK q \in [1..w -> Nat] : q = piece[m]
        BY <2>5
    <3> HIDE DEF piece
    <3> QED  BY <3>1, IsSeqOf
  <2> QED  BY <2>1, <2>4, <2>5, <2>6
<1>9. \A m, p \in 1..c : piece[m] = piece[p] => m = p
  <2> TAKE m, p \in 1..c
  <2> SUFFICES ASSUME piece[m] = piece[p] PROVE m = p
      OBVIOUS
  <2> HIDE DEF piece
  <2>1. P[lo[m]] = P[lo[p]]
      BY <1>8
  <2>2. lo[m] = lo[p]
      BY <1>7, <2>1
  <2> QED  BY <1>4, <2>2 DEF Tabulates
<1>10. Cardinality(M) = c
  <2>1. piece \in [1..c -> M] /\ \A y \in M : \E m \in 1..c : piece[m] = y
      BY <1>5
  <2> HIDE DEF piece, M
  <2>2. piece \in Bijection(1..c, M)
      BY <1>9, <2>1 DEF Bijection, Injection, Surjection, IsInjective
  <2> QED  BY <2>2, FS_CountingElements DEF ExistsBijection
<1>11. ToSet(found) = {found[m] : m \in 1..c}
    BY <1>6 DEF ToSet
<1>12. {r.places : r \in ToSet(found)} = M
  <2> HIDE DEF piece, M
  <2> QED  BY <1>5, <1>7, <1>11
<1>13. \A r \in ToSet(found) : (r.level = "danger") = (Len(r.places) >= 3)
  <2> TAKE r \in ToSet(found)
  <2>1. PICK m \in 1..c : r = found[m]
      BY <1>11
  <2>2. r.places = piece[m] /\ r.level = RunLevel(hi[m] + 1 - lo[m])
      BY <1>7, <2>1
  <2>3. Len(r.places) = hi[m] + 1 - lo[m]
    <3> HIDE DEF piece
    <3> QED  BY <1>8, <2>2
  <2> HIDE DEF piece
  <2> QED  BY <2>2, <2>3 DEF RunLevel
<1> QED
    BY <1>2, <1>6, <1>10, <1>12, <1>13 DEF Exactly

\* DetectZeroFiling and DetectConsecutiveLosses report every maximal run of zero or
\* negative filings exactly once, in whatever order the filings were made.
THEOREM RunsAlwaysMaximal == RiskSpec => []RunsMaximal
<1>1. RiskTypeOK => RunsMaximal
  <2> SUFFICES ASSUME RiskTypeOK PROVE RunsMaximal
      OBVIOUS
  <2>1. IsFiniteSet(filing.listed) /\ filing.listed \in SUBSET Nat
      BY RiskAssumption, FS_Subset DEF RiskTypeOK
  <2>2. PICK P : P = Ascending(filing.listed)
      OBVIOUS
  <2>3. PICK n \in Nat : Ascends(P, n, filing.listed)
    <3>1. filing.listed \in SUBSET Int
        BY <2>1
    <3> QED  BY <2>1, <2>2, <3>1, SortedList
  <2>4. P \in [1..n -> Nat] /\ \A k \in 1..n : P[k] \in Nat
      BY <2>1, <2>3 DEF Ascends
  <2>5. \A i, j \in 1..n : P[i] = P[j] => i = j
    <3> TAKE i, j \in 1..n
    <3>1. i < j \/ i = j \/ j < i
        OBVIOUS
    <3>2. (i < j => P[i] < P[j]) /\ (j < i => P[j] < P[i])
        BY <2>3 DEF Ascends
    <3> QED  BY <2>4, <3>1, <3>2
  <2>6. \A F : Exactly(Runs(P, F), MaximalRuns(P, F))
    <3> TAKE F
    <3> QED  BY <2>4, <2>5, RunsAreMaximal
  <2> QED
      BY <2>2, <2>6 DEF RunsMaximal, DetectZeroFiling, DetectConsecutiveLosses
<1> QED
    BY <1>1, RiskTypeOKAlways, PTL

-----------------------------------------------------------------------------

(* What the invariants say of the types *)

\* A VAT with its surcharges is a number,
LEMMA LevyTaxTyped ==
    ASSUME NEW x \in Nat, NEW loc \in Locs
    PROVE  LevyTax(x, loc) \in Int
<1>1. UrbanConstructionRate(loc) \in Rates /\ 3 \in Rates /\ 2 \in Rates
    BY SMT DEF UrbanConstructionRate, Rates, Locs
<1>2. \A n \in Rates : Share(x, n, 100) \in Nat
    BY ShareNat
<1> QED
    BY <1>1, <1>2, SMT DEF LevyTax, Surcharges

\* and so is every answer.
LEMMA AnswerTyped ==
    ASSUME AnswerInv
    PROVE  answer.base \in Int /\ answer.tax \in Int
<1> DEFINE a == answer.asked  x == answer.base  tax == answer.tax
<1>1. x \in Nat
    BY DEF AnswerInv
<1>2. CASE a[1] = "nothing"
    BY <1>1, <1>2 DEF AnswerInv
<1>3. CASE a[1] = "general"
  <2>1. a[2] \in Nat /\ a[3] \in Locs /\ tax = GeneralTax(a[2], a[3], x)
      BY <1>3, TaxAssumption DEF AnswerInv
  <2>2. AtLeast0(x - a[2]) \in Nat
      BY <1>1, <2>1, AtLeast0Nat
  <2> QED
      BY <1>1, <2>1, <2>2, LevyTaxTyped DEF GeneralTax
<1>4. CASE a[1] = "small_scale"
  <2>1. a[2] \in {0, 1, 5} /\ a[3] \in Locs /\ tax = SmallScaleTax(a[2], a[3], x)
      BY <1>4 DEF AnswerInv
  <2>2. LevyRate(a[2]) \in Rates
      BY <2>1, SMT DEF LevyRate, Rates
  <2>3. AtLeast0(Share(x, LevyRate(a[2]), 100)) \in Nat
      BY <1>1, <2>2, ShareNat, AtLeast0Nat
  <2> QED
      BY <1>1, <2>1, <2>3, LevyTaxTyped DEF SmallScaleTax
<1>5. CASE a[1] = "exempt"
  <2>1. a[2] \in {0, 1} /\ a[3] \in {0, 1} /\ tax = CalcSmallScaleVAT(x, a[2], a[3])
      BY <1>5 DEF AnswerInv
  <2>2. LevyRate(a[2]) \in Rates
      BY <2>1, SMT DEF LevyRate, Rates
  <2>3. Share(x, LevyRate(a[2]), 100) \in Nat
      BY <1>1, <2>2, ShareNat
  <2> QED
      BY <1>1, <2>1, <2>3 DEF CalcSmallScaleVAT
<1>6. CASE a[1] = "pit"
    BY <1>1, <1>6, MarginalTaxGrows DEF AnswerInv
<1>7. CASE a[1] = "cit"
  <2>1. tax = CITOf(a[2], x)
      BY <1>7 DEF AnswerInv
  <2>2. CITOf(a[2], x) = IF a[2] /\ x <= 300000000 THEN CalcSmallProfitCIT(x) ELSE Share(x, 25, 100)
      BY <1>1, SMT DEF CITOf, CalcAnnualSettlement, AtLeast0, YUAN
  <2>3. Share(x, 25, 100) \in Nat
    <3>1. 25 \in Rates
        BY DEF Rates
    <3> QED  BY <1>1, <3>1, ShareNat
  <2>4. x <= 300000000 => CalcSmallProfitCIT(x) \in Nat
      BY <1>1, SmallTaxIsSmaller, SMT
  <2> QED
      BY <1>1, <2>1, <2>2, <2>3, <2>4
<1>8. CASE a[1] = "stamp"
  <2>1. a[2] \in {"sales", "loan", "lease", "property", "books"} /\ tax = StampOf(a[2], x)
      BY <1>8 DEF AnswerInv
  <2>2. CASE a[2] = "books"
      BY <1>1, <2>1, <2>2, SMT DEF StampOf, CalcStampTax, YUAN
  <2>3. CASE a[2] # "books"
    <3>1. tax = Share(x, StampRate(a[2]).n, StampRate(a[2]).d)
        BY <2>1, <2>3 DEF StampOf, CalcStampTax
    <3>2. StampRate(a[2]) \in {[n |-> 1, d |-> 20000], [n |-> 1, d |-> 1000], [n |-> 1, d |-> 2000],
                               [n |-> 3, d |-> 10000]}
        BY DEF StampRate
    <3>3. \A n \in {1, 3} : \A d \in {20000, 1000, 2000, 10000} : Share(x, n, d) \in Int
        BY <1>1, SMT DEF Share, ShareOf
    <3>4. StampRate(a[2]).n \in {1, 3} /\ StampRate(a[2]).d \in {20000, 1000, 2000, 10000}
        BY <3>2
    <3>5. PICK n \in {1, 3}, d \in {20000, 1000, 2000, 10000} :
              n = StampRate(a[2]).n /\ d = StampRate(a[2]).d
        BY <3>4
    <3>6. tax = Share(x, n, d) /\ Share(x, n, d) \in Int
        BY <3>1, <3>3, <3>5
    <3> QED  BY <1>1, <3>6
  <2> QED
      BY <2>2, <2>3
<1> QED
    BY <1>2, <1>3, <1>4, <1>5, <1>6, <1>7, <1>8 DEF AnswerInv

\* No two rows of tax_adjustments have one id.
OneRowPerId == \A r, s \in adjustment : r.id = s.id => r = s

\* UpsertAdjustments replaces the row of an id, so there is at most one.
LEMMA OneRowAlways == AdjustmentsSpec => []OneRowPerId
<1>1. AdjustmentsInit => OneRowPerId
    BY DEF AdjustmentsInit, OneRowPerId
<1>2. OneRowPerId /\ [AdjustmentsNext]_adjustmentVars => OneRowPerId'
  <2> SUFFICES ASSUME OneRowPerId, [AdjustmentsNext]_adjustmentVars PROVE OneRowPerId'
      OBVIOUS
  <2>1. CASE UpsertNext
    <3>1. \E r : adjustment' = Upserted(r)
        BY <2>1 DEF UpsertNext
    <3> QED  BY <3>1 DEF Upserted, OneRowPerId
  <2>2. CASE UNCHANGED adjustment
      BY <2>2 DEF OneRowPerId
  <2>3. Send \/ Acknowledge \/ Fail \/ Retry => UNCHANGED adjustment
      BY DEF Send, Acknowledge, Fail, Retry
  <2> QED
      BY <2>1, <2>2, <2>3 DEF AdjustmentsNext, adjustmentVars
<1> QED
    BY <1>1, <1>2, PTL DEF AdjustmentsSpec

LEMMA AdjustmentsTyped == OneRowPerId /\ AdjustmentsInv => AdjustmentsTypeOK
<1> SUFFICES ASSUME OneRowPerId, AdjustmentsInv PROVE AdjustmentsTypeOK
    OBVIOUS
<1>1. ASSUME NEW r \in adjustment PROVE Cardinality(RowsWith(r.id)) = 1
  <2>1. RowsWith(r.id) = {r}
      BY DEF RowsWith, OneRowPerId
  <2> QED  BY <2>1, FS_Singleton
<1>2. ASSUME NEW c \in Senders PROVE sending[c].done \in 0..Len(sending[c].batch)
  <2>1. sending[c].done \in Nat /\ sending[c].done <= Len(sending[c].batch) /\ Len(sending[c].batch) \in Nat
      BY DEF AdjustmentsInv
  <2> QED  BY <2>1
<1> QED
    BY <1>1, <1>2 DEF AdjustmentsTypeOK, AdjustmentsInv

ReconciliationTyped == ReconciliationInv /\ ReconciliationTypeOK

LEMMA ReconciliationTyped_Step ==
    ReconciliationTyped /\ [ReconciliationNext]_reconciliationVars => ReconciliationTyped'
<1> SUFFICES ASSUME ReconciliationTyped, [ReconciliationNext]_reconciliationVars
             PROVE  ReconciliationTypeOK'
    BY ReconciliationStep_Inv DEF ReconciliationTyped
<1> USE DEF ReconciliationTypeOK
<1>0. ReconciliationTypeOK /\ view \in [Clerks -> SUBSET Invoices]
    BY DEF ReconciliationTyped, ReconciliationInv
<1>1. CASE Review
    BY <1>0, <1>1 DEF Review
<1>2. CASE UpsertLogistics
  <2>1. PICK i \in Invoices : /\ shipments[i] < MaxShipments
                              /\ shipments' = [shipments EXCEPT ![i] = shipments[i] + 1]
                              /\ UNCHANGED <<stage, recorded, matched, view, outdated, doubtful>>
      BY <1>2 DEF UpsertLogistics
  <2>2. shipments[i] + 1 \in 0..MaxShipments
      BY <1>0, <2>1, ReconciliationAssumption
  <2> QED  BY <1>0, <2>1, <2>2
<1>3. CASE UpsertBankTransaction
    BY <1>0, <1>3 DEF UpsertBankTransaction
<1>4. CASE ThreeWayMatch
    BY <1>0, <1>4 DEF ThreeWayMatch
<1>5. CASE MatchBankToInvoice
    BY <1>0, <1>5 DEF MatchBankToInvoice
<1>6. CASE UnmatchBankFromInvoice
    BY <1>0, <1>6 DEF UnmatchBankFromInvoice
<1>7. CASE UNCHANGED reconciliationVars
    BY <1>0, <1>7 DEF reconciliationVars
<1> QED
    BY <1>1, <1>2, <1>3, <1>4, <1>5, <1>6, <1>7 DEF ReconciliationNext

\* The tables of the reconciliation keep their types.
LEMMA ReconciliationTypedAlways == ReconciliationSpec => []ReconciliationTyped
<1>1. ReconciliationInit => ReconciliationTyped
    BY ReconciliationAssumption DEF ReconciliationInit, ReconciliationTyped, ReconciliationInv,
       ReconciliationTypeOK, DoublePaymentNeedsOldSummary
<1> QED
    BY <1>1, ReconciliationTyped_Step, PTL DEF ReconciliationSpec

-----------------------------------------------------------------------------
(* The desks together *)

\* Every behaviour of the back office is, seen from each desk, one of that desk: what the
\* desks share is no table, so nothing that one does is a step of another.
THEOREM EveryDeskForItself ==
    BackOfficeSpec => /\ TaxSpec /\ RiskSpec /\ VoucherSpec
                      /\ BooksSpec /\ AdjustmentsSpec /\ ReconciliationSpec
<1>1. BackOfficeInit => /\ TaxInit /\ RiskInit /\ VoucherInit
                        /\ BooksInit /\ AdjustmentsInit /\ ReconciliationInit
    BY DEF BackOfficeInit
<1>2. [BackOfficeNext]_backOfficeVars =>
          /\ [TaxNext]_taxVars /\ [FilingNext \/ PurchaseNext \/ CompareNext]_riskVars
          /\ [VoucherNext]_voucherVars /\ [BooksNext]_bookVars
          /\ [AdjustmentsNext]_adjustmentVars /\ [ReconciliationNext]_reconciliationVars
    BY DEF BackOfficeNext, backOfficeVars, TaxDesks, RiskDesks, TaxNext
<1> QED
    BY <1>1, <1>2, PTL DEF BackOfficeSpec, TaxSpec, RiskSpec, VoucherSpec, BooksSpec, AdjustmentsSpec,
       ReconciliationSpec

\* Every desk's tables and answers keep their types, whatever happens at the others.
THEOREM BackOfficeTyped == BackOfficeSpec => []BackOfficeTypeOK
<1>1. TaxSpec => []TaxTypeOK
  <2>1. TaxSpec => []AnswerInv
      BY AnswerInit, AnswerStep, PTL DEF TaxSpec
  <2>2. AnswerInv /\ PayrollInv /\ YearInv => TaxTypeOK
      BY AnswerTyped DEF TaxTypeOK, PayrollInv, YearInv
  <2> QED
      BY <2>1, <2>2, PayrollAlways, YearAlways, PTL
<1>2. BooksSpec => []BooksTypeOK
    BY DefaultKept, PTL
<1>3. AdjustmentsSpec => []AdjustmentsTypeOK
  <2>1. AdjustmentsSpec => []AdjustmentsInv
      BY AdjustmentsInit_Inv, AdjustmentsStep_Inv, PTL DEF AdjustmentsSpec
  <2> QED
      BY <2>1, OneRowAlways, AdjustmentsTyped, PTL
<1>4. ReconciliationSpec => []ReconciliationTypeOK
  <2>1. ReconciliationTyped => ReconciliationTypeOK
      BY DEF ReconciliationTyped
  <2> QED
      BY <2>1, ReconciliationTypedAlways, PTL
<1>5. TaxTypeOK /\ RiskTypeOK /\ VoucherTypeOK /\ BooksTypeOK /\ AdjustmentsTypeOK
      /\ ReconciliationTypeOK => BackOfficeTypeOK
    BY DEF BackOfficeTypeOK
<1> QED
    BY <1>1, <1>2, <1>3, <1>4, <1>5, EveryDeskForItself, RiskTypeOKAlways, VoucherRowsTyped, PTL

\* All invariants and action properties that are checked of the back office, whichever desk
\* a behaviour is about.
THEOREM BackOfficeCorrect ==
    BackOfficeSpec =>
        /\ [](BracketsMarginal /\ WithholdingTracksYear /\ QuartersSettle)
        /\ [](RunsMaximal /\ ConcentrationOrderFree)
        /\ [](BooksBalance /\ VATMatchesLedger /\ CrossCheckComplete /\ ReturnMatchesEngine)
        /\ [](StatementsAddUp /\ StatementsCountOnce /\ ProfitsReconcile)
        /\ [](PostedBooksPassOnlyUnread /\ DangerIsNotLow)
        /\ [](OneDefault /\ DefaultServes /\ BatchStoredOnce /\ DoublePaymentNeedsOldSummary)
        /\ MoreBaseMoreTax /\ LevelFollowsDistance
<1>1. TaxSpec => [](BracketsMarginal /\ WithholdingTracksYear /\ QuartersSettle)
    BY TaxMarginal, YearWithheld, YearSettled, PTL
<1>2. RiskSpec => [](RunsMaximal /\ ConcentrationOrderFree)
    BY RunsAlwaysMaximal, LevelsOrderFree, PTL
<1>3. VoucherSpec => [](BooksBalance /\ VATMatchesLedger /\ CrossCheckComplete /\ ReturnMatchesEngine)
    BY BooksAlwaysBalance, VATAlwaysMatchesLedger, CrossChecksComplete, ReturnsMatchEngine, PTL
<1>4. VoucherSpec => [](StatementsAddUp /\ StatementsCountOnce /\ ProfitsReconcile)
    BY StatementsAlwaysAddUp, StatementsAlwaysCountOnce, ProfitsAlwaysReconcile, PTL
<1>5. VoucherSpec => [](PostedBooksPassOnlyUnread /\ DangerIsNotLow)
    BY EnhancedCheckPassesOnlyUnread, DangerNeverLow, PTL
<1>6. BooksSpec => [](OneDefault /\ DefaultServes)
    BY DefaultUnique, DefaultKept, PTL
<1> QED
    BY <1>1, <1>2, <1>3, <1>4, <1>5, <1>6, EveryDeskForItself, TaxGrows, GraverWhenFurther,
       BatchesRepeatable, PaidOnceOnFreshSummaries, PTL

==============================================================================
