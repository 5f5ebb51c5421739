--------------------------- MODULE StatementProofs ----------------------------
(***************************************************************************)
(* The profit statement and the balance sheet: one pass over the mapping   *)
(* computes every subtotal from final amounts, so the statements add up    *)
(* and count every amount once, and the three profits can be reconciled.   *)
(***************************************************************************)
EXTENDS ReportProofs

-----------------------------------------------------------------------------
(* Statements *)

\* The greatest of an interval of numbers is its end.
LEMMA MaxOfInterval ==
    ASSUME NEW k \in Nat, k # 0
    PROVE  Max(1..k) = k
<1>1. IsFiniteSet(1..k)
    BY FS_Interval, 1 \in Int
<1>2. k \in 1..k /\ 1..k \in SUBSET Int /\ 1..k # {}
    OBVIOUS
<1>3. Max(1..k) \in 1..k /\ \A y \in 1..k : Max(1..k) >= y
    BY <1>1, <1>2, MaxIsMember
<1> QED
    BY <1>2, <1>3

\* The rows that are read from the ledger; what the statement holds before the subtotals;
\* and what one more row makes of it.
RowsIn(mapping) == {k \in DOMAIN mapping : ~IsSubtotal(mapping[k])}
BaseAmounts(mapping, lines) ==
    [c \in {mapping[k].code : k \in RowsIn(mapping)} |->
        RowAmount(mapping[CHOOSE k \in RowsIn(mapping) : mapping[k].code = c], lines)]
NextAmounts(row, amounts) ==
    IF IsSubtotal(row) THEN WithAmount(amounts, row.code,
        EvalFormula(row.formula, amounts)) ELSE amounts

AmountsOver(C) == UNION {[D -> Int] : D \in SUBSET C}

\* The amounts after 0, 1, ... n rows.
StatementChain(at, mapping, lines, n) ==
    /\ at[0] = BaseAmounts(mapping, lines)
    /\ \A k \in 1..n : at[k] = NextAmounts(mapping[k], at[k - 1])
    /\ Statement(mapping, lines) = at[n]

\* Statement is a fold over its mapping: there is a chain of amounts that begins with the
\* rows of the ledger and ends with the statement.
LEMMA StatementSteps ==
    ASSUME NEW mapping, NEW lines, NEW n \in Nat, DOMAIN mapping = 1..n, NEW C,
           BaseAmounts(mapping, lines) \in AmountsOver(C),
           \A k \in 1..n : \A v \in AmountsOver(C) : NextAmounts(mapping[k], v) \in AmountsOver(C)
    PROVE  \E at : StatementChain(at, mapping, lines, n)
<1> DEFINE S == 1..n
           V == AmountsOver(C)
           base == BaseAmounts(mapping, lines)
           pick == [T \in SUBSET S |-> Max(T)]
           step == [p \in S \X V |-> NextAmounts(mapping[p[1]], p[2])]
           F(g) == [T \in SUBSET S |->
                       IF T = {} THEN base ELSE NextAmounts(mapping[Max(T)], g[T \ {Max(T)}])]
           iter == CHOOSE g : g = F(g)
<1>1. IsFiniteSet(S) /\ S \in SUBSET Int
    BY FS_Interval, 1 \in Int
<1>2. \A T \in SUBSET S : T # {} => Max(T) \in T
    BY <1>1, MaxIsMember
<1>3. PICK g : Unfolds(g, S, pick, base, V, step)
  <2>1. step \in [S \X V -> V]
      OBVIOUS
  <2>2. \A T \in SUBSET S : T # {} => pick[T] \in T
      BY <1>2
  <2> HIDE DEF pick, step, base, V, S
  <2> QED
      BY <1>1, <2>1, <2>2, SubsetRecursion DEF base, V
<1>4. g = F(g)
  <2>1. g \in [SUBSET S -> V]
      BY <1>3 DEF Unfolds
  <2>2. ASSUME NEW T \in SUBSET S, T # {}
        PROVE  g[T] = NextAmounts(mapping[Max(T)], g[T \ {Max(T)}])
    <3>1. g[T] = step[<<pick[T], g[T \ {pick[T]}]>>]
      <4> HIDE DEF pick, step
      <4> QED  BY <1>3, <2>2 DEF Unfolds
    <3>2. pick[T] = Max(T)
        OBVIOUS
    <3>3. Max(T) \in S /\ T \ {Max(T)} \in SUBSET S
        BY <1>2, <2>2
    <3>4. g[T \ {Max(T)}] \in V
        BY <2>1, <3>3
    <3> HIDE DEF pick, V, S
    <3> QED
        BY <3>1, <3>2, <3>3, <3>4
  <2>3. g[{}] = base
      BY <1>3 DEF Unfolds
  <2> HIDE DEF base, V
  <2> QED
      BY <2>1, <2>2, <2>3
<1>5. iter = F(iter)
  <2> HIDE DEF F
  <2> QED  BY <1>4
<1>6. iter[{}] = base
  <2> HIDE DEF iter, base
  <2> QED  BY <1>5
<1>7. ASSUME NEW k \in 1..n
      PROVE  iter[1..k] = NextAmounts(mapping[k], iter[1..(k - 1)])
  <2>1. Max(1..k) = k
      BY MaxOfInterval
  <2>2. (1..k) \ {k} = 1..(k - 1) /\ 1..k \in SUBSET S /\ 1..k # {}
      OBVIOUS
  <2>3. iter[1..k] = NextAmounts(mapping[Max(1..k)], iter[(1..k) \ {Max(1..k)}])
    <3> HIDE DEF iter, base, S
    <3> QED  BY <1>5, <2>2
  <2> HIDE DEF iter
  <2> QED
      BY <2>1, <2>2, <2>3
<1>8. Statement(mapping, lines) = iter[1..n]
    BY DEF Statement, FoldLeft, MapThenFoldSet, BaseAmounts, NextAmounts, RowsIn
<1> DEFINE at == [k \in 0..n |-> iter[1..k]]
<1>9. at[0] = base
  <2>1. 1..0 = {}
      OBVIOUS
  <2> HIDE DEF iter, base
  <2> QED
      BY <1>6, <2>1
<1>10. \A k \in 1..n : at[k] = NextAmounts(mapping[k], at[k - 1])
  <2> HIDE DEF iter
  <2> QED
      BY <1>7
<1>11. Statement(mapping, lines) = at[n]
  <2> HIDE DEF iter
  <2> QED
      BY <1>8
<1> HIDE DEF at
<1> QED
    BY <1>9, <1>10, <1>11 DEF StatementChain

\* A subtotal is an integer when its terms are.
LEMMA NextIsTyped ==
    ASSUME NEW C, NEW row, row.code \in C, NEW v \in AmountsOver(C), EvalFormula(row.formula, v) \in Int
    PROVE  NextAmounts(row, v) \in AmountsOver(C)
<1>1. PICK D \in SUBSET C : v \in [D -> Int]
    BY DEF AmountsOver
<1>2. WithAmount(v, row.code, EvalFormula(row.formula, v)) \in [D \cup {row.code} -> Int]
    BY <1>1 DEF WithAmount
<1> QED
    BY <1>1, <1>2 DEF AmountsOver, NextAmounts

\* So is a formula.
LEMMA FormulaIsInt ==
    ASSUME NEW C, NEW v \in AmountsOver(C), NEW formula, NEW n \in Nat, DOMAIN formula = 1..n,
           \A k \in 1..n : formula[k][1] \in Int
    PROVE  /\ EvalFormula(formula, v) \in Int
           /\ EvalFormula(formula, v) = SumOn([k \in 1..n |-> formula[k][1] *
                  (IF formula[k][2] \in DOMAIN v THEN v[formula[k][2]] ELSE 0)], 1..n)
<1> DEFINE f == [k \in 1..n |-> formula[k][1] * (IF formula[k][2] \in DOMAIN v THEN v[formula[k][2]] ELSE 0)]
<1>1. EvalFormula(formula, v) = SumFunction(f)
    BY DEF EvalFormula
<1>2. PICK D \in SUBSET C : v \in [D -> Int]
    BY DEF AmountsOver
<1>3. \A k \in 1..n : f[k] \in Int
  <2> TAKE k \in 1..n
  <2>1. (IF formula[k][2] \in DOMAIN v THEN v[formula[k][2]] ELSE 0) \in Int
      BY <1>2
  <2> QED
      BY <2>1
<1>4. SumFunction(f) = SumOn(f, 1..n)
  <2>1. f = [k \in 1..n |-> f[k]]
      OBVIOUS
  <2> HIDE DEF f
  <2> QED  BY <2>1, SumIsSumOn
<1>5. IsFiniteSet(1..n)
    BY FS_Interval, 1 \in Int
<1>6. SumOn(f, 1..n) \in Int
  <2> HIDE DEF f
  <2> QED  BY <1>3, <1>5, SumSteps
<1> HIDE DEF f
<1> QED
    BY <1>1, <1>4, <1>6 DEF f

-----------------------------------------------------------------------------
\* The sum of a list, term by term,
LEMMA SumUpTo ==
    ASSUME NEW g, NEW n \in Nat, \A k \in 1..n : g[k] \in Int
    PROVE  /\ SumOn(g, 1..0) = 0
           /\ \A m \in 1..n : SumOn(g, 1..m) = SumOn(g, 1..(m - 1)) + g[m]
           /\ \A m \in 0..n : SumOn(g, 1..m) \in Int
<1>1. \A m \in 0..n : IsFiniteSet(1..m) /\ \A k \in 1..m : g[k] \in Int
    BY FS_Interval, 1 \in Int
<1>2. \A m \in 0..n : SumOn(g, 1..m) \in Int
    BY <1>1, SumSteps
<1>3. ASSUME NEW m \in 1..n PROVE SumOn(g, 1..m) = SumOn(g, 1..(m - 1)) + g[m]
  <2>1. m \in 0..n /\ m - 1 \in 0..n /\ m \in 1..m /\ (1..m) \ {m} = 1..(m - 1) /\ g[m] \in Int
      OBVIOUS
  <2>2. SumOn(g, 1..m) = g[m] + SumOn(g, (1..m) \ {m})
      BY <1>1, <2>1, SumSteps
  <2>3. SumOn(g, 1..(m - 1)) \in Int
      BY <1>2, <2>1
  <2>4. SumOn(g, 1..m) = g[m] + SumOn(g, 1..(m - 1))
      BY <2>1, <2>2
  <2> QED
      BY <2>1, <2>3, <2>4
<1>4. SumOn(g, 1..0) = 0
  <2>1. 1..0 = {} /\ IsFiniteSet({})
      BY FS_EmptySet
  <2> QED
      BY <2>1, SumSteps
<1> QED
    BY <1>2, <1>3, <1>4

\* and of up to seven terms.
LEMMA SumOfFew ==
    ASSUME NEW g, NEW n \in 1..10, \A k \in 1..n : g[k] \in Int
    PROVE  /\ n = 1 => SumOn(g, 1..n) = g[1]
           /\ n = 2 => SumOn(g, 1..n) = g[1] + g[2]
           /\ n = 3 => SumOn(g, 1..n) = g[1] + g[2] + g[3]
           /\ n = 4 => SumOn(g, 1..n) = g[1] + g[2] + g[3] + g[4]
           /\ n = 5 => SumOn(g, 1..n) = g[1] + g[2] + g[3] + g[4] + g[5]
           /\ n = 7 => SumOn(g, 1..n) = g[1] + g[2] + g[3] + g[4] + g[5] + g[6] + g[7]
           /\ n = 10 => SumOn(g, 1..n) =
                 g[1] + g[2] + g[3] + g[4] + g[5] + g[6] + g[7] + g[8] + g[9] + g[10]
<1> DEFINE s == [m \in 0..n |-> SumOn(g, 1..m)]
<1>1. n \in Nat
    OBVIOUS
<1>2. s[0] = 0 /\ \A m \in 1..n : s[m] = s[m - 1] + g[m]
    BY <1>1, SumUpTo
<1>3. SumOn(g, 1..n) = s[n]
    BY <1>1
<1> HIDE DEF s
<1>4. s[1] = 0 + g[1]
  <2>1. 1 \in 1..n
      OBVIOUS
  <2> QED
      BY <1>2, <2>1
<1>5. n > 1 => s[2] = s[1] + g[2]
    BY <1>2
<1>6. n > 2 => s[3] = s[2] + g[3]
    BY <1>2
<1>7. n > 3 => s[4] = s[3] + g[4]
    BY <1>2
<1>8. n > 4 => s[5] = s[4] + g[5]
    BY <1>2
<1>9. n > 5 => s[6] = s[5] + g[6]
    BY <1>2
<1>10. n > 6 => s[7] = s[6] + g[7]
    BY <1>2
<1>11. n > 7 => s[8] = s[7] + g[8]
    BY <1>2
<1>12. n > 8 => s[9] = s[8] + g[9]
    BY <1>2
<1>13. n > 9 => s[10] = s[9] + g[10]
    BY <1>2
<1> QED
    BY <1>3, <1>4, <1>5, <1>6, <1>7, <1>8, <1>9, <1>10, <1>11, <1>12, <1>13

\* A list without repetition.
Lists(s, n, S, f, g) ==
    /\ n \in Nat /\ S = {s[i] : i \in 1..n} /\ \A i, j \in 1..n : s[i] = s[j] => i = j
    /\ \A i \in 1..n : g[i] = f[s[i]] /\ f[s[i]] \in Int

\* Its terms may be summed as the set they make up.
LEMMA SumOfList ==
    ASSUME NEW f, NEW s, NEW n, NEW S, NEW g, Lists(s, n, S, f, g)
    PROVE  SumOn(f, S) = SumOn(g, 1..n)
<1>1. n \in Nat
    BY DEF Lists
<1>2. IsFiniteSet(1..n)
    BY <1>1, FS_Interval, 1 \in Int
<1>3. SumOn(f, {s[i] : i \in 1..n}) = SumOn([i \in 1..n |-> f[s[i]]], 1..n)
    BY <1>2, SumRenamed DEF Lists
<1>4. SumOn([i \in 1..n |-> f[s[i]]], 1..n) = SumOn(g, 1..n)
    BY DEF SumOn, Lists
<1> QED
    BY <1>3, <1>4 DEF Lists

\* What the ledger gives a row.
LEMMA RowAmountIsInt ==
    ASSUME NEW row, NEW lines, IsFiniteSet(lines), Columns(lines)
    PROVE  RowAmount(row, lines) \in Int
<1> DEFINE on == {l \in lines : MatchSelector(l.account, row)}
           f == [l \in on |-> ReportAmount(l)]
<1>1. on \in SUBSET lines /\ \A l \in on : f[l] \in Int
    BY DEF Columns, ReportAmount
<1>2. RowAmount(row, lines) = SumFunction(f)
    BY DEF RowAmount
<1>3. f = [l \in on |-> f[l]]
    OBVIOUS
<1>4. IsFiniteSet(on)
  <2> HIDE DEF on
  <2> QED  BY <1>1, FS_Subset
<1> HIDE DEF f, on
<1>5. SumFunction(f) = SumOn(f, on)
    BY <1>3, SumIsSumOn
<1> QED
    BY <1>1, <1>2, <1>4, <1>5, SumSteps

\* The amounts before the subtotals are those of the ledger.
LEMMA BaseRead ==
    ASSUME NEW mapping, NEW lines, IsFiniteSet(lines), Columns(lines),
           \A j, k \in RowsIn(mapping) : mapping[j].code = mapping[k].code => j = k,
           NEW C, \A k \in RowsIn(mapping) : mapping[k].code \in C
    PROVE  /\ BaseAmounts(mapping, lines) \in AmountsOver(C)
           /\ DOMAIN BaseAmounts(mapping, lines) = {mapping[k].code : k \in RowsIn(mapping)}
           /\ \A k \in RowsIn(mapping) :
                 BaseAmounts(mapping, lines)[mapping[k].code] = RowAmount(mapping[k], lines)
<1> DEFINE D == {mapping[k].code : k \in RowsIn(mapping)}
<1>1. \A c \in D : BaseAmounts(mapping, lines)[c] \in Int
    BY RowAmountIsInt DEF BaseAmounts
<1>2. BaseAmounts(mapping, lines) \in [D -> Int]
    BY <1>1 DEF BaseAmounts
<1>3. D \in SUBSET C
    OBVIOUS
<1>4. \A k \in RowsIn(mapping) :
          BaseAmounts(mapping, lines)[mapping[k].code] = RowAmount(mapping[k], lines)
  <2> TAKE k \in RowsIn(mapping)
  <2> DEFINE c == mapping[k].code
             j == CHOOSE j \in RowsIn(mapping) : mapping[j].code = c
  <2>1. j \in RowsIn(mapping) /\ mapping[j].code = c
      OBVIOUS
  <2>2. j = k
    <3> HIDE DEF j
    <3> QED  BY <2>1
  <2>3. BaseAmounts(mapping, lines)[c] = RowAmount(mapping[j], lines)
      BY DEF BaseAmounts
  <2> QED
      BY <2>2, <2>3
<1> QED
    BY <1>2, <1>3, <1>4 DEF AmountsOver

-----------------------------------------------------------------------------
\* Formulas as the two mappings write them: at most seven terms.
Terms(formula, n) == n \in 0..7 /\ DOMAIN formula = 1..n /\ \A k \in 1..n : formula[k][1] \in Int

\* The amounts stay integers along the chain.
LEMMA NextAmountsTyped ==
    ASSUME NEW mapping, NEW n \in Nat, NEW C,
           \A k \in 1..n : mapping[k].code \in C /\ \E m : Terms(mapping[k].formula, m)
    PROVE  \A k \in 1..n : \A v \in AmountsOver(C) : NextAmounts(mapping[k], v) \in AmountsOver(C)
<1> TAKE k \in 1..n
<1> TAKE v \in AmountsOver(C)
<1>1. PICK m : Terms(mapping[k].formula, m)
    OBVIOUS
<1>2. m \in Nat /\ DOMAIN mapping[k].formula = 1..m /\ \A i \in 1..m : mapping[k].formula[i][1] \in Int
    BY <1>1 DEF Terms
<1>3. EvalFormula(mapping[k].formula, v) \in Int
    BY <1>2, FormulaIsInt
<1> QED
    BY <1>3, NextIsTyped

\* No formula at all,
LEMMA EmptyFormula == Terms(<<>>, 0)
BY DEF Terms

\* and formulas of one to seven terms.
LEMMA ShortFormulas ==
    /\ \A a : a[1] \in Int
          => Terms(<<a>>, 1)
    /\ \A a, b : a[1] \in Int /\ b[1] \in Int
          => Terms(<<a, b>>, 2)
    /\ \A a, b, c : a[1] \in Int /\ b[1] \in Int /\ c[1] \in Int
          => Terms(<<a, b, c>>, 3)
    /\ \A a, b, c, d : a[1] \in Int /\ b[1] \in Int /\ c[1] \in Int /\ d[1] \in Int
          => Terms(<<a, b, c, d>>, 4)
    /\ \A a, b, c, d, e : a[1] \in Int /\ b[1] \in Int /\ c[1] \in Int /\ d[1] \in Int /\ e[1] \in Int
          => Terms(<<a, b, c, d, e>>, 5)
    /\ \A a, b, c, d, e, f, g : a[1] \in Int /\ b[1] \in Int /\ c[1] \in Int /\ d[1] \in Int /\
          e[1] \in Int /\ f[1] \in Int /\ g[1] \in Int
          => Terms(<<a, b, c, d, e, f, g>>, 7)
BY DEF Terms

\* A term of a formula, a code the statement does not have counting as zero.
Amount(v, t) == t[1] * (IF t[2] \in DOMAIN v THEN v[t[2]] ELSE 0)

\* EvalFormula written out.
LEMMA EvalTerms ==
    ASSUME NEW C, NEW v \in AmountsOver(C)
    PROVE  /\ \A a : a[1] \in Int
                 => EvalFormula(<<a>>, v) =
                       Amount(v, a)
           /\ \A a, b : a[1] \in Int /\ b[1] \in Int
                 => EvalFormula(<<a, b>>, v) =
                       Amount(v, a) + Amount(v, b)
           /\ \A a, b, c : a[1] \in Int /\ b[1] \in Int /\ c[1] \in Int
                 => EvalFormula(<<a, b, c>>, v) =
                       Amount(v, a) + Amount(v, b) + Amount(v, c)
           /\ \A a, b, c, d : a[1] \in Int /\ b[1] \in Int /\ c[1] \in Int /\ d[1] \in Int
                 => EvalFormula(<<a, b, c, d>>, v) =
                       Amount(v, a) + Amount(v, b) + Amount(v, c) + Amount(v, d)
           /\ \A a, b, c, d, e : a[1] \in Int /\ b[1] \in Int /\ c[1] \in Int /\ d[1] \in Int /\
                 e[1] \in Int
                 => EvalFormula(<<a, b, c, d, e>>, v) =
                       Amount(v, a) + Amount(v, b) + Amount(v, c) + Amount(v, d) + Amount(v, e)
           /\ \A a, b, c, d, e, f, g : a[1] \in Int /\ b[1] \in Int /\ c[1] \in Int /\ d[1] \in Int /\
                 e[1] \in Int /\ f[1] \in Int /\ g[1] \in Int
                 => EvalFormula(<<a, b, c, d, e, f, g>>, v) =
                       Amount(v, a) + Amount(v, b) + Amount(v, c) + Amount(v, d) + Amount(v, e)
                           + Amount(v, f) + Amount(v, g)
<1>1. \A t : t[1] \in Int => Amount(v, t) \in Int
  <2>1. PICK D \in SUBSET C : v \in [D -> Int]
      BY DEF AmountsOver
  <2> SUFFICES ASSUME NEW t, t[1] \in Int PROVE Amount(v, t) \in Int
      OBVIOUS
  <2>2. (IF t[2] \in DOMAIN v THEN v[t[2]] ELSE 0) \in Int
      BY <2>1
  <2> QED
      BY <2>2 DEF Amount
<1>2. ASSUME NEW s, NEW n \in 1..7, Terms(s, n), NEW h, h = [k \in 1..n |-> Amount(v, s[k])]
      PROVE  EvalFormula(s, v) = SumOn(h, 1..n) /\ \A k \in 1..n : h[k] \in Int
  <2>1. n \in Nat /\ DOMAIN s = 1..n /\ \A k \in 1..n : s[k][1] \in Int
      BY <1>2 DEF Terms
  <2>2. EvalFormula(s, v) = SumOn([k \in 1..n |-> s[k][1] *
                  (IF s[k][2] \in DOMAIN v THEN v[s[k][2]] ELSE 0)], 1..n)
      BY <2>1, FormulaIsInt
  <2>3. \A k \in 1..n : h[k] \in Int
      BY <1>1, <1>2, <2>1
  <2>4. [k \in 1..n |-> s[k][1] * (IF s[k][2] \in DOMAIN v THEN v[s[k][2]] ELSE 0)] = h
      BY <1>2 DEF Amount
  <2> QED
      BY <2>2, <2>3, <2>4
<1>3. ASSUME NEW a, a[1] \in Int
      PROVE  EvalFormula(<<a>>, v) = Amount(v, a)
  <2> DEFINE s == <<a>>
             h == [k \in 1..1 |-> Amount(v, s[k])]
  <2>1. Terms(s, 1)
      BY <1>3, ShortFormulas
  <2>2. h[1] = Amount(v, a)
      OBVIOUS
  <2>3. EvalFormula(s, v) = SumOn(h, 1..1) /\ \A k \in 1..1 : h[k] \in Int
    <3>1. h = [k \in 1..1 |-> Amount(v, s[k])] /\ 1 \in 1..7
        OBVIOUS
    <3> HIDE DEF s, h
    <3> QED  BY <1>2, <2>1, <3>1
  <2> HIDE DEF h
  <2>4. SumOn(h, 1..1) = h[1]
      BY <2>3, SumOfFew
  <2> QED
      BY <2>2, <2>3, <2>4
<1>4. ASSUME NEW a, NEW b, a[1] \in Int, b[1] \in Int
      PROVE  EvalFormula(<<a, b>>, v) = Amount(v, a) + Amount(v, b)
  <2> DEFINE s == <<a, b>>
             h == [k \in 1..2 |-> Amount(v, s[k])]
  <2>1. Terms(s, 2)
      BY <1>4, ShortFormulas
  <2>2. h[1] = Amount(v, a) /\ h[2] = Amount(v, b)
      OBVIOUS
  <2>3. EvalFormula(s, v) = SumOn(h, 1..2) /\ \A k \in 1..2 : h[k] \in Int
    <3>1. h = [k \in 1..2 |-> Amount(v, s[k])] /\ 2 \in 1..7
        OBVIOUS
    <3> HIDE DEF s, h
    <3> QED  BY <1>2, <2>1, <3>1
  <2> HIDE DEF h
  <2>4. SumOn(h, 1..2) = h[1] + h[2]
      BY <2>3, SumOfFew
  <2> QED
      BY <2>2, <2>3, <2>4
<1>5. ASSUME NEW a, NEW b, NEW c, a[1] \in Int, b[1] \in Int, c[1] \in Int
      PROVE  EvalFormula(<<a, b, c>>, v) = Amount(v, a) + Amount(v, b) + Amount(v, c)
  <2> DEFINE s == <<a, b, c>>
             h == [k \in 1..3 |-> Amount(v, s[k])]
  <2>1. Terms(s, 3)
      BY <1>5, ShortFormulas
  <2>2. h[1] = Amount(v, a) /\ h[2] = Amount(v, b) /\ h[3] = Amount(v, c)
      OBVIOUS
  <2>3. EvalFormula(s, v) = SumOn(h, 1..3) /\ \A k \in 1..3 : h[k] \in Int
    <3>1. h = [k \in 1..3 |-> Amount(v, s[k])] /\ 3 \in 1..7
        OBVIOUS
    <3> HIDE DEF s, h
    <3> QED  BY <1>2, <2>1, <3>1
  <2> HIDE DEF h
  <2>4. SumOn(h, 1..3) = h[1] + h[2] + h[3]
      BY <2>3, SumOfThree
  <2> QED
      BY <2>2, <2>3, <2>4
<1>6. ASSUME NEW a, NEW b, NEW c, NEW d, a[1] \in Int, b[1] \in Int, c[1] \in Int, d[1] \in Int
      PROVE  EvalFormula(<<a, b, c, d>>, v) = Amount(v, a) + Amount(v, b) + Amount(v, c) + Amount(v, d)
  <2> DEFINE s == <<a, b, c, d>>
             h == [k \in 1..4 |-> Amount(v, s[k])]
  <2>1. Terms(s, 4)
      BY <1>6, ShortFormulas
  <2>2. h[1] = Amount(v, a) /\ h[2] = Amount(v, b) /\ h[3] = Amount(v, c) /\ h[4] = Amount(v, d)
      OBVIOUS
  <2>3. EvalFormula(s, v) = SumOn(h, 1..4) /\ \A k \in 1..4 : h[k] \in Int
    <3>1. h = [k \in 1..4 |-> Amount(v, s[k])] /\ 4 \in 1..7
        OBVIOUS
    <3> HIDE DEF s, h
    <3> QED  BY <1>2, <2>1, <3>1
  <2> HIDE DEF h
  <2>4. SumOn(h, 1..4) = h[1] + h[2] + h[3] + h[4]
      BY <2>3, SumOfFew
  <2> QED
      BY <2>2, <2>3, <2>4
<1>7. ASSUME NEW a, NEW b, NEW c, NEW d, NEW e, a[1] \in Int, b[1] \in Int, c[1] \in Int, d[1] \in Int,
      e[1] \in Int
      PROVE  EvalFormula(<<a, b, c, d, e>>, v) =
          Amount(v, a) + Amount(v, b) + Amount(v, c) + Amount(v, d) + Amount(v, e)
  <2> DEFINE s == <<a, b, c, d, e>>
             h == [k \in 1..5 |-> Amount(v, s[k])]
  <2>1. Terms(s, 5)
      BY <1>7, ShortFormulas
  <2>2. /\ h[1] = Amount(v, a) /\ h[2] = Amount(v, b) /\ h[3] = Amount(v, c) /\ h[4] = Amount(v, d)
        /\ h[5] = Amount(v, e)
      OBVIOUS
  <2>3. EvalFormula(s, v) = SumOn(h, 1..5) /\ \A k \in 1..5 : h[k] \in Int
    <3>1. h = [k \in 1..5 |-> Amount(v, s[k])] /\ 5 \in 1..7
        OBVIOUS
    <3> HIDE DEF s, h
    <3> QED  BY <1>2, <2>1, <3>1
  <2> HIDE DEF h
  <2>4. SumOn(h, 1..5) = h[1] + h[2] + h[3] + h[4] + h[5]
      BY <2>3, SumOfFew
  <2> QED
      BY <2>2, <2>3, <2>4
<1>8. ASSUME NEW a, NEW b, NEW c, NEW d, NEW e, NEW f, NEW g, a[1] \in Int, b[1] \in Int, c[1] \in Int,
      d[1] \in Int, e[1] \in Int, f[1] \in Int, g[1] \in Int
      PROVE  EvalFormula(<<a, b, c, d, e, f, g>>, v) =
          Amount(v, a) + Amount(v, b) + Amount(v, c) + Amount(v, d) + Amount(v, e)
          + Amount(v, f) + Amount(v, g)
  <2> DEFINE s == <<a, b, c, d, e, f, g>>
             h == [k \in 1..7 |-> Amount(v, s[k])]
  <2>1. Terms(s, 7)
      BY <1>8, ShortFormulas
  <2>2. /\ h[1] = Amount(v, a) /\ h[2] = Amount(v, b) /\ h[3] = Amount(v, c) /\ h[4] = Amount(v, d)
        /\ h[5] = Amount(v, e) /\ h[6] = Amount(v, f) /\ h[7] = Amount(v, g)
      OBVIOUS
  <2>3. EvalFormula(s, v) = SumOn(h, 1..7) /\ \A k \in 1..7 : h[k] \in Int
    <3>1. h = [k \in 1..7 |-> Amount(v, s[k])] /\ 7 \in 1..7
        OBVIOUS
    <3> HIDE DEF s, h
    <3> QED  BY <1>2, <2>1, <3>1
  <2> HIDE DEF h
  <2>4. SumOn(h, 1..7) = h[1] + h[2] + h[3] + h[4] + h[5] + h[6] + h[7]
      BY <2>3, SumOfFew
  <2> QED
      BY <2>2, <2>3, <2>4
<1> QED
    BY <1>3, <1>4, <1>5, <1>6, <1>7, <1>8

\* The sign of a term.
LEMMA PlusMinus ==
    ASSUME NEW v, NEW c \in DOMAIN v, v[c] \in Int
    PROVE  /\ Plus(c)[1] \in Int /\ Minus(c)[1] \in Int
           /\ Amount(v, Plus(c)) = v[c] /\ Amount(v, Minus(c)) = -v[c]
BY DEF Plus, Minus, Amount

-----------------------------------------------------------------------------
\* One amount is added, or replaced.
Extends(w, v, C, code, x) ==
    /\ w \in AmountsOver(C) /\ DOMAIN w = DOMAIN v \cup {code} /\ w[code] = x
    /\ \A c \in DOMAIN v : c # code => w[c] = v[c]

\* WithAmount does it.
LEMMA WithAmountExtends ==
    ASSUME NEW C, NEW v \in AmountsOver(C), NEW code \in C, NEW x \in Int
    PROVE  Extends(WithAmount(v, code, x), v, C, code, x)
<1> DEFINE w == WithAmount(v, code, x)
<1>1. PICK D \in SUBSET C : v \in [D -> Int]
    BY DEF AmountsOver
<1>2. w \in [D \cup {code} -> Int]
    BY <1>1 DEF WithAmount
<1>3. D \cup {code} \in SUBSET C
    OBVIOUS
<1>4. w \in AmountsOver(C)
    BY <1>2, <1>3 DEF AmountsOver
<1>5. DOMAIN w = DOMAIN v \cup {code} /\ w[code] = x /\ \A c \in DOMAIN v : c # code => w[c] = v[c]
    BY DEF WithAmount
<1> QED
    BY <1>4, <1>5 DEF Extends

\* A subtotal adds what its formula gives.
LEMMA SubtotalStep ==
    ASSUME NEW C, NEW v \in AmountsOver(C), NEW row, row.code \in C, IsSubtotal(row),
           EvalFormula(row.formula, v) \in Int
    PROVE  Extends(NextAmounts(row, v), v, C, row.code, EvalFormula(row.formula, v))
<1>1. \A code \in C : \A x \in Int : Extends(WithAmount(v, code, x), v, C, code, x)
    BY WithAmountExtends
<1>2. NextAmounts(row, v) = WithAmount(v, row.code, EvalFormula(row.formula, v))
    BY DEF NextAmounts
<1> QED
    BY <1>1, <1>2

\* A formula says the same of two statements that agree on its codes.
LEMMA SameFormula ==
    ASSUME NEW formula, NEW v, NEW w,
           \A t \in DOMAIN formula : /\ formula[t][2] \in DOMAIN v /\ formula[t][2] \in DOMAIN w
                                     /\ v[formula[t][2]] = w[formula[t][2]]
    PROVE  EvalFormula(formula, v) = EvalFormula(formula, w)
BY DEF EvalFormula

\* The rows J show what they should: the ledger's amount, or the value of their formula
\* over the statement as it is.
Settled(mapping, lines, J, v) ==
    /\ \A j \in RowsIn(mapping) : v[mapping[j].code] = RowAmount(mapping[j], lines)
    /\ \A j \in J \ RowsIn(mapping) : v[mapping[j].code] = EvalFormula(mapping[j].formula, v)

Codes(mapping, J) == {mapping[j].code : j \in J}

\* No code twice, and a formula only over codes of earlier rows.
WellOrdered(mapping, n, C) ==
    /\ DOMAIN mapping = 1..n
    /\ \A j, k \in 1..n : mapping[j].code = mapping[k].code => j = k
    /\ \A k \in 1..n : mapping[k].code \in C /\ \E m : Terms(mapping[k].formula, m)
    /\ \A k \in 1..n : \A t \in DOMAIN mapping[k].formula :
          mapping[k].formula[t][2] \in Codes(mapping, RowsIn(mapping) \cup 1..(k - 1))

\* Then one pass in the order of the mapping settles every row: no subtotal is computed
\* from an amount that changes afterwards.
LEMMA StatementSettles ==
    ASSUME NEW mapping, NEW lines, IsFiniteSet(lines), Columns(lines), NEW n \in Nat, NEW C,
           WellOrdered(mapping, n, C)
    PROVE  LET p == Statement(mapping, lines) IN
           /\ p \in AmountsOver(C) /\ DOMAIN p = Codes(mapping, 1..n)
           /\ Settled(mapping, lines, 1..n, p)
<1> DEFINE R == RowsIn(mapping)
           b == BaseAmounts(mapping, lines)
           K(k) == Codes(mapping, R \cup 1..k)
<1>0. R \subseteq 1..n /\ \A k \in 1..n : k \in R <=> ~IsSubtotal(mapping[k])
    BY DEF RowsIn, WellOrdered
<1>1. /\ b \in AmountsOver(C) /\ DOMAIN b = Codes(mapping, R)
      /\ \A k \in R : b[mapping[k].code] = RowAmount(mapping[k], lines)
  <2>1. /\ \A j, k \in R : mapping[j].code = mapping[k].code => j = k
        /\ \A k \in R : mapping[k].code \in C
      BY <1>0 DEF WellOrdered
  <2> QED
      BY <2>1, BaseRead DEF Codes
<1>2. \A k \in 1..n : \A v \in AmountsOver(C) : NextAmounts(mapping[k], v) \in AmountsOver(C)
    BY NextAmountsTyped DEF WellOrdered
<1>3. PICK at : StatementChain(at, mapping, lines, n)
    BY <1>1, <1>2, StatementSteps DEF WellOrdered
<1>4. /\ at[0] = b /\ Statement(mapping, lines) = at[n]
      /\ \A k \in 1..n : at[k] = NextAmounts(mapping[k], at[k - 1])
    BY <1>3 DEF StatementChain
<1> HIDE DEF b, R
<1> DEFINE Q(k) == /\ at[k] \in AmountsOver(C) /\ DOMAIN at[k] = K(k)
                   /\ Settled(mapping, lines, 1..k, at[k])
           G == {k \in Nat : k <= n => Q(k)}
<1>5. 0 \in G
  <2>1. R \cup 1..0 = R /\ (1..0) \ R = {}
      OBVIOUS
  <2>2. DOMAIN at[0] = K(0) /\ at[0] \in AmountsOver(C)
      BY <1>1, <1>4, <2>1
  <2>3. Settled(mapping, lines, 1..0, at[0])
      BY <1>1, <1>4, <2>1 DEF Settled, R
  <2> QED
      BY <2>2, <2>3
<1>6. ASSUME NEW k \in Nat, k \in G
      PROVE  k + 1 \in G
  <2> SUFFICES ASSUME k + 1 <= n  PROVE Q(k + 1)
      OBVIOUS
  <2> DEFINE row == mapping[k + 1]
             v == at[k]
             w == at[k + 1]
  <2>1. k + 1 \in 1..n /\ (k + 1) - 1 = k /\ 1..(k + 1) = 1..k \cup {k + 1} /\ k + 1 \notin 1..k
      OBVIOUS
  <2>2. w = NextAmounts(row, v)
      BY <1>4, <2>1
  <2>3. v \in AmountsOver(C) /\ DOMAIN v = K(k) /\ Settled(mapping, lines, 1..k, v)
    <3>1. k <= n
        OBVIOUS
    <3> QED
        BY <1>6, <3>1
  <2>4. CASE k + 1 \in R
    <3>1. w = v
        BY <1>0, <2>1, <2>2, <2>4 DEF NextAmounts
    <3>2. R \cup 1..(k + 1) = R \cup 1..k /\ (1..(k + 1)) \ R = (1..k) \ R
        BY <2>1, <2>4
    <3>3. Settled(mapping, lines, 1..(k + 1), w)
        BY <2>3, <3>1, <3>2 DEF Settled, R
    <3> QED
        BY <2>3, <3>1, <3>2, <3>3
  <2>5. CASE k + 1 \notin R
    <3>1. IsSubtotal(row) /\ row.code \in C
        BY <1>0, <2>1, <2>5 DEF WellOrdered
    <3>2. EvalFormula(row.formula, v) \in Int
      <4>1. PICK m : Terms(row.formula, m)
          BY <2>1 DEF WellOrdered
      <4>2. m \in Nat /\ DOMAIN row.formula = 1..m /\ \A t \in 1..m : row.formula[t][1] \in Int
          BY <4>1 DEF Terms
      <4> HIDE DEF row, v
      <4> QED
          BY <2>3, <4>2, FormulaIsInt
    <3>3. Extends(w, v, C, row.code, EvalFormula(row.formula, v))
        BY <2>2, <2>3, <3>1, <3>2, SubtotalStep
    <3>4. row.code \notin K(k)
      <4>1. \A j \in R \cup 1..k : j \in 1..n /\ j # k + 1
          BY <1>0, <2>1, <2>5
      <4> QED
          BY <2>1, <4>1 DEF Codes, WellOrdered
    <3>5. /\ w \in AmountsOver(C) /\ DOMAIN w = K(k) \cup {row.code}
          /\ w[row.code] = EvalFormula(row.formula, v) /\ \A c \in K(k) : w[c] = v[c]
        BY <2>3, <3>3, <3>4 DEF Extends
    <3>6. DOMAIN w = K(k + 1)
        BY <2>1, <3>5 DEF Codes
    <3>7. ASSUME NEW j \in 1..(k + 1)
          PROVE  EvalFormula(mapping[j].formula, w) = EvalFormula(mapping[j].formula, v)
      <4>1. j \in 1..n /\ R \cup 1..(j - 1) \subseteq R \cup 1..k
          BY <2>1
      <4>2. Codes(mapping, R \cup 1..(j - 1)) \subseteq K(k)
          BY <4>1 DEF Codes
      <4>3. \A t \in DOMAIN mapping[j].formula : mapping[j].formula[t][2] \in K(k)
          BY <4>1, <4>2 DEF WellOrdered, R
      <4>4. \A t \in DOMAIN mapping[j].formula :
                /\ mapping[j].formula[t][2] \in DOMAIN w /\ mapping[j].formula[t][2] \in DOMAIN v
                /\ w[mapping[j].formula[t][2]] = v[mapping[j].formula[t][2]]
          BY <2>3, <3>5, <4>3
      <4> HIDE DEF v, w, K
      <4> QED
          BY <4>4, SameFormula
    <3>8. Settled(mapping, lines, 1..(k + 1), w)
      <4>1. \A j \in R : mapping[j].code \in K(k) /\ w[mapping[j].code] = RowAmount(mapping[j], lines)
          BY <2>3, <3>5 DEF Settled, Codes, R
      <4>2. \A j \in (1..k) \ R : w[mapping[j].code] = EvalFormula(mapping[j].formula, w)
        <5>1. \A j \in (1..k) \ R : /\ mapping[j].code \in K(k)
                                    /\ v[mapping[j].code] = EvalFormula(mapping[j].formula, v)
            BY <2>3 DEF Settled, Codes, R
        <5> QED
            BY <2>1, <3>5, <3>7, <5>1
      <4>3. w[mapping[k + 1].code] = EvalFormula(mapping[k + 1].formula, w)
          BY <2>1, <3>5, <3>7
      <4>4. \A j \in (1..(k + 1)) \ R : w[mapping[j].code] = EvalFormula(mapping[j].formula, w)
          BY <2>1, <4>2, <4>3
      <4> QED
          BY <4>1, <4>4 DEF Settled, R
    <3> QED
        BY <3>5, <3>6, <3>8
  <2> QED
      BY <2>4, <2>5
<1>7. n \in G
  <2> HIDE DEF G
  <2> QED  BY <1>5, <1>6, NatUpwards
<1>8. R \cup 1..n = 1..n
    BY <1>0
<1>9. Q(n)
    BY <1>7
<1> QED
    BY <1>4, <1>8, <1>9

-----------------------------------------------------------------------------
\* The rows of the profit statement that are no subtotals.
ProfitPlaces == {1, 2, 3, 4, 5, 6, 7, 9, 10, 12}

\* The codes and the formulas of the profit statement.
LEMMA ProfitCodes ==
    /\ DOMAIN ProfitMapping = 1..13
    /\ ProfitMapping[1].code = "revenue" /\ ProfitMapping[2].code = "cost"
    /\ ProfitMapping[3].code = "tax_and_surcharge" /\ ProfitMapping[4].code = "selling_expense"
    /\ ProfitMapping[5].code = "admin_expense" /\ ProfitMapping[6].code = "finance_expense"
    /\ ProfitMapping[7].code = "investment_income" /\ ProfitMapping[8].code = "operating_profit"
    /\ ProfitMapping[9].code = "non_op_income" /\ ProfitMapping[10].code = "non_op_expense"
    /\ ProfitMapping[11].code = "total_profit" /\ ProfitMapping[12].code = "income_tax"
    /\ ProfitMapping[13].code = "net_profit"
BY DEF ProfitMapping, Row, Subtotal

LEMMA ProfitFormulas ==
    /\ \A k \in ProfitPlaces : ProfitMapping[k].formula = <<>>
    /\ ProfitMapping[8].formula =
           << Plus("revenue"), Minus("cost"), Minus("tax_and_surcharge"), Minus("selling_expense"),
              Minus("admin_expense"), Minus("finance_expense"), Plus("investment_income") >>
    /\ ProfitMapping[11].formula =
           << Plus("operating_profit"), Plus("non_op_income"), Minus("non_op_expense") >>
    /\ ProfitMapping[13].formula =
           << Plus("total_profit"), Minus("income_tax") >>
BY DEF ProfitMapping, Row, Subtotal, ProfitPlaces

\* A row is one or the other.
LEMMA ProfitCases == 1..13 = ProfitPlaces \cup {8, 11, 13} /\ ProfitPlaces \cap {8, 11, 13} = {}
BY DEF ProfitPlaces

LEMMA ProfitRowsIn == RowsIn(ProfitMapping) = ProfitPlaces
<1>1. \A k \in {8, 11, 13} : IsSubtotal(ProfitMapping[k])
  <2>1. IsSubtotal(ProfitMapping[8])
    <3>1. \A a, b, c, d, e, f, g : <<a, b, c, d, e, f, g>> # <<>>
        OBVIOUS
    <3> QED
        BY <3>1, ProfitFormulas DEF IsSubtotal
  <2>2. IsSubtotal(ProfitMapping[11])
    <3>1. \A a, b, c : <<a, b, c>> # <<>>
        OBVIOUS
    <3> QED
        BY <3>1, ProfitFormulas DEF IsSubtotal
  <2>3. IsSubtotal(ProfitMapping[13])
    <3>1. \A a, b : <<a, b>> # <<>>
        OBVIOUS
    <3> QED
        BY <3>1, ProfitFormulas DEF IsSubtotal
  <2> QED
      BY <2>1, <2>2, <2>3
<1>2. \A k \in ProfitPlaces : ~IsSubtotal(ProfitMapping[k])
    BY ProfitFormulas DEF IsSubtotal
<1> QED
    BY <1>1, <1>2, ProfitCases, ProfitCodes DEF RowsIn

\* The mapping is well ordered.
LEMMA ProfitWellOrdered == WellOrdered(ProfitMapping, 13, Codes(ProfitMapping, 1..13))
<1>1. \A j, k \in 1..13 : ProfitMapping[j].code = ProfitMapping[k].code => j = k
    BY ProfitCodes
<1>2. \A k \in ProfitPlaces : Terms(ProfitMapping[k].formula, 0) /\ DOMAIN ProfitMapping[k].formula = {}
    BY ProfitFormulas, EmptyFormula
<1>3. /\ Terms(ProfitMapping[8].formula, 7)
      /\ \A t \in DOMAIN ProfitMapping[8].formula :
            ProfitMapping[8].formula[t][2] \in Codes(ProfitMapping, ProfitPlaces \cup 1..(8 - 1))
  <2> DEFINE f == << Plus("revenue"), Minus("cost"), Minus("tax_and_surcharge"),
        Minus("selling_expense"), Minus("admin_expense"), Minus("finance_expense"),
            Plus("investment_income") >>
  <2>1. ProfitMapping[8].formula = f
      BY ProfitFormulas
  <2>2. \A t \in 1..7 : f[t][1] \in Int
      BY DEF Plus, Minus
  <2>3. DOMAIN f = 1..7 /\ 7 \in 0..7
      OBVIOUS
  <2>4. f[1][2] = "revenue" /\ f[2][2] = "cost" /\ f[3][2] = "tax_and_surcharge" /\
        f[4][2] = "selling_expense" /\ f[5][2] = "admin_expense" /\ f[6][2] = "finance_expense" /\
            f[7][2] = "investment_income"
      BY DEF Plus, Minus
  <2>5. {1, 2, 3, 4, 5, 6, 7} \subseteq ProfitPlaces \cup 1..(8 - 1)
      BY DEF ProfitPlaces
  <2>6. f[1][2] = ProfitMapping[1].code /\ f[2][2] = ProfitMapping[2].code /\
        f[3][2] = ProfitMapping[3].code /\ f[4][2] = ProfitMapping[4].code /\
            f[5][2] = ProfitMapping[5].code /\ f[6][2] = ProfitMapping[6].code /\
                f[7][2] = ProfitMapping[7].code
      BY <2>4, ProfitCodes
  <2>7. \A t \in 1..7 : \E j \in ProfitPlaces \cup 1..(8 - 1) : f[t][2] = ProfitMapping[j].code
    <3> HIDE DEF f
    <3> QED  BY <2>5, <2>6
  <2> HIDE DEF f
  <2> QED
      BY <2>1, <2>2, <2>3, <2>7 DEF Terms, Codes
<1>4. /\ Terms(ProfitMapping[11].formula, 3)
      /\ \A t \in DOMAIN ProfitMapping[11].formula :
            ProfitMapping[11].formula[t][2] \in Codes(ProfitMapping, ProfitPlaces \cup 1..(11 - 1))
  <2> DEFINE f == << Plus("operating_profit"), Plus("non_op_income"), Minus("non_op_expense") >>
  <2>1. ProfitMapping[11].formula = f
      BY ProfitFormulas
  <2>2. \A t \in 1..3 : f[t][1] \in Int
      BY DEF Plus, Minus
  <2>3. DOMAIN f = 1..3 /\ 3 \in 0..7
      OBVIOUS
  <2>4. f[1][2] = "operating_profit" /\ f[2][2] = "non_op_income" /\ f[3][2] = "non_op_expense"
      BY DEF Plus, Minus
  <2>5. {8, 9, 10} \subseteq ProfitPlaces \cup 1..(11 - 1)
      BY DEF ProfitPlaces
  <2>6. f[1][2] = ProfitMapping[8].code /\ f[2][2] = ProfitMapping[9].code /\
        f[3][2] = ProfitMapping[10].code
      BY <2>4, ProfitCodes
  <2>7. \A t \in 1..3 : \E j \in ProfitPlaces \cup 1..(11 - 1) : f[t][2] = ProfitMapping[j].code
    <3> HIDE DEF f
    <3> QED  BY <2>5, <2>6
  <2> HIDE DEF f
  <2> QED
      BY <2>1, <2>2, <2>3, <2>7 DEF Terms, Codes
<1>5. /\ Terms(ProfitMapping[13].formula, 2)
      /\ \A t \in DOMAIN ProfitMapping[13].formula :
            ProfitMapping[13].formula[t][2] \in Codes(ProfitMapping, ProfitPlaces \cup 1..(13 - 1))
  <2> DEFINE f == << Plus("total_profit"), Minus("income_tax") >>
  <2>1. ProfitMapping[13].formula = f
      BY ProfitFormulas
  <2>2. \A t \in 1..2 : f[t][1] \in Int
      BY DEF Plus, Minus
  <2>3. DOMAIN f = 1..2 /\ 2 \in 0..7
      OBVIOUS
  <2>4. f[1][2] = "total_profit" /\ f[2][2] = "income_tax"
      BY DEF Plus, Minus
  <2>5. {11, 12} \subseteq ProfitPlaces \cup 1..(13 - 1)
      BY DEF ProfitPlaces
  <2>6. f[1][2] = ProfitMapping[11].code /\ f[2][2] = ProfitMapping[12].code
      BY <2>4, ProfitCodes
  <2>7. \A t \in 1..2 : \E j \in ProfitPlaces \cup 1..(13 - 1) : f[t][2] = ProfitMapping[j].code
    <3> HIDE DEF f
    <3> QED  BY <2>5, <2>6
  <2> HIDE DEF f
  <2> QED
      BY <2>1, <2>2, <2>3, <2>7 DEF Terms, Codes
<1>6. \A k \in 1..13 : \E m : Terms(ProfitMapping[k].formula, m)
    BY <1>2, <1>3, <1>4, <1>5, ProfitCases
<1>7. \A k \in {8, 11, 13} : \A t \in DOMAIN ProfitMapping[k].formula :
          ProfitMapping[k].formula[t][2] \in Codes(ProfitMapping, ProfitPlaces \cup 1..(k - 1))
    BY <1>3, <1>4, <1>5
<1>8. \A k \in 1..13 : ProfitMapping[k].code \in Codes(ProfitMapping, 1..13)
    BY DEF Codes
<1> QED
    BY <1>1, <1>2, <1>6, <1>7, <1>8, ProfitCases, ProfitRowsIn, ProfitCodes DEF WellOrdered

\* The same for the balance sheet.
BalancePlaces == {1, 2, 3, 4, 5, 7, 8, 11, 12, 13, 14, 15, 17, 20, 21, 22, 23}

LEMMA BalanceCodes ==
    /\ DOMAIN BalanceMapping = 1..25
    /\ BalanceMapping[1].code = "monetary_funds" /\ BalanceMapping[2].code = "accounts_receivable"
    /\ BalanceMapping[3].code = "prepayments" /\ BalanceMapping[4].code = "other_receivables"
    /\ BalanceMapping[5].code = "inventory" /\ BalanceMapping[6].code = "current_assets"
    /\ BalanceMapping[7].code = "fixed_assets" /\ BalanceMapping[8].code = "intangible_assets"
    /\ BalanceMapping[9].code = "non_current_assets" /\ BalanceMapping[10].code = "total_assets"
    /\ BalanceMapping[11].code = "short_term_borrow" /\ BalanceMapping[12].code = "accounts_payable"
    /\ BalanceMapping[13].code = "advance_receipts" /\ BalanceMapping[14].code = "payroll_payable"
    /\ BalanceMapping[15].code = "taxes_payable" /\ BalanceMapping[16].code = "current_liabilities"
    /\ BalanceMapping[17].code = "long_term_borrow" /\ BalanceMapping[18].code = "non_current_liab"
    /\ BalanceMapping[19].code = "total_liabilities" /\ BalanceMapping[20].code = "paid_in_capital"
    /\ BalanceMapping[21].code = "capital_reserve" /\ BalanceMapping[22].code = "surplus_reserve"
    /\ BalanceMapping[23].code = "retained_earnings" /\ BalanceMapping[24].code = "total_equity"
    /\ BalanceMapping[25].code = "total_liab_equity"
BY DEF BalanceMapping, Row, Subtotal

LEMMA BalanceFormulas ==
    /\ \A k \in BalancePlaces : BalanceMapping[k].formula = <<>>
    /\ BalanceMapping[6].formula =
           << Plus("monetary_funds"), Plus("accounts_receivable"), Plus("prepayments"),
              Plus("other_receivables"), Plus("inventory") >>
    /\ BalanceMapping[9].formula =
           << Plus("fixed_assets"), Plus("intangible_assets") >>
    /\ BalanceMapping[10].formula =
           << Plus("current_assets"), Plus("non_current_assets") >>
    /\ BalanceMapping[16].formula =
           << Plus("short_term_borrow"), Plus("accounts_payable"), Plus("advance_receipts"),
              Plus("payroll_payable"), Plus("taxes_payable") >>
    /\ BalanceMapping[18].formula =
           << Plus("long_term_borrow") >>
    /\ BalanceMapping[19].formula =
           << Plus("current_liabilities"), Plus("non_current_liab") >>
    /\ BalanceMapping[24].formula =
           << Plus("paid_in_capital"), Plus("capital_reserve"), Plus("surplus_reserve"),
              Plus("retained_earnings") >>
    /\ BalanceMapping[25].formula =
           << Plus("total_liabilities"), Plus("total_equity") >>
BY DEF BalanceMapping, Row, Subtotal, BalancePlaces

LEMMA BalanceCases == 1..25 = BalancePlaces \cup {6, 9, 10, 16, 18, 19, 24, 25} /\
    BalancePlaces \cap {6, 9, 10, 16, 18, 19, 24, 25} = {}
BY DEF BalancePlaces

LEMMA BalanceRowsIn == RowsIn(BalanceMapping) = BalancePlaces
<1>1. \A k \in {6, 9, 10, 16, 18, 19, 24, 25} : IsSubtotal(BalanceMapping[k])
  <2>1. IsSubtotal(BalanceMapping[6])
    <3>1. \A a, b, c, d, e : <<a, b, c, d, e>> # <<>>
        OBVIOUS
    <3> QED
        BY <3>1, BalanceFormulas DEF IsSubtotal
  <2>2. IsSubtotal(BalanceMapping[9])
    <3>1. \A a, b : <<a, b>> # <<>>
        OBVIOUS
    <3> QED
        BY <3>1, BalanceFormulas DEF IsSubtotal
  <2>3. IsSubtotal(BalanceMapping[10])
    <3>1. \A a, b : <<a, b>> # <<>>
        OBVIOUS
    <3> QED
        BY <3>1, BalanceFormulas DEF IsSubtotal
  <2>4. IsSubtotal(BalanceMapping[16])
    <3>1. \A a, b, c, d, e : <<a, b, c, d, e>> # <<>>
        OBVIOUS
    <3> QED
        BY <3>1, BalanceFormulas DEF IsSubtotal
  <2>5. IsSubtotal(BalanceMapping[18])
    <3>1. \A a : <<a>> # <<>>
        OBVIOUS
    <3> QED
        BY <3>1, BalanceFormulas DEF IsSubtotal
  <2>6. IsSubtotal(BalanceMapping[19])
    <3>1. \A a, b : <<a, b>> # <<>>
        OBVIOUS
    <3> QED
        BY <3>1, BalanceFormulas DEF IsSubtotal
  <2>7. IsSubtotal(BalanceMapping[24])
    <3>1. \A a, b, c, d : <<a, b, c, d>> # <<>>
        OBVIOUS
    <3> QED
        BY <3>1, BalanceFormulas DEF IsSubtotal
  <2>8. IsSubtotal(BalanceMapping[25])
    <3>1. \A a, b : <<a, b>> # <<>>
        OBVIOUS
    <3> QED
        BY <3>1, BalanceFormulas DEF IsSubtotal
  <2> QED
      BY <2>1, <2>2, <2>3, <2>4, <2>5, <2>6, <2>7, <2>8
<1>2. \A k \in BalancePlaces : ~IsSubtotal(BalanceMapping[k])
    BY BalanceFormulas DEF IsSubtotal
<1> QED
    BY <1>1, <1>2, BalanceCases, BalanceCodes DEF RowsIn

LEMMA BalanceWellOrdered == WellOrdered(BalanceMapping, 25, Codes(BalanceMapping, 1..25))
<1>1. \A j, k \in 1..25 : BalanceMapping[j].code = BalanceMapping[k].code => j = k
    BY BalanceCodes
<1>2. \A k \in BalancePlaces : Terms(BalanceMapping[k].formula, 0) /\
      DOMAIN BalanceMapping[k].formula = {}
    BY BalanceFormulas, EmptyFormula
<1>3. /\ Terms(BalanceMapping[6].formula, 5)
      /\ \A t \in DOMAIN BalanceMapping[6].formula :
            BalanceMapping[6].formula[t][2] \in Codes(BalanceMapping, BalancePlaces \cup 1..(6 - 1))
  <2> DEFINE f == << Plus("monetary_funds"), Plus("accounts_receivable"), Plus("prepayments"),
        Plus("other_receivables"), Plus("inventory") >>
  <2>1. BalanceMapping[6].formula = f
      BY BalanceFormulas
  <2>2. \A t \in 1..5 : f[t][1] \in Int
      BY DEF Plus, Minus
  <2>3. DOMAIN f = 1..5 /\ 5 \in 0..7
      OBVIOUS
  <2>4. f[1][2] = "monetary_funds" /\ f[2][2] = "accounts_receivable" /\ f[3][2] = "prepayments" /\
        f[4][2] = "other_receivables" /\ f[5][2] = "inventory"
      BY DEF Plus, Minus
  <2>5. {1, 2, 3, 4, 5} \subseteq BalancePlaces \cup 1..(6 - 1)
      BY DEF BalancePlaces
  <2>6. f[1][2] = BalanceMapping[1].code /\ f[2][2] = BalanceMapping[2].code /\
        f[3][2] = BalanceMapping[3].code /\ f[4][2] = BalanceMapping[4].code /\
            f[5][2] = BalanceMapping[5].code
      BY <2>4, BalanceCodes
  <2>7. \A t \in 1..5 : \E j \in BalancePlaces \cup 1..(6 - 1) : f[t][2] = BalanceMapping[j].code
    <3> HIDE DEF f
    <3> QED  BY <2>5, <2>6
  <2> HIDE DEF f
  <2> QED
      BY <2>1, <2>2, <2>3, <2>7 DEF Terms, Codes
<1>4. /\ Terms(BalanceMapping[9].formula, 2)
      /\ \A t \in DOMAIN BalanceMapping[9].formula :
            BalanceMapping[9].formula[t][2] \in Codes(BalanceMapping, BalancePlaces \cup 1..(9 - 1))
  <2> DEFINE f == << Plus("fixed_assets"), Plus("intangible_assets") >>
  <2>1. BalanceMapping[9].formula = f
      BY BalanceFormulas
  <2>2. \A t \in 1..2 : f[t][1] \in Int
      BY DEF Plus, Minus
  <2>3. DOMAIN f = 1..2 /\ 2 \in 0..7
      OBVIOUS
  <2>4. f[1][2] = "fixed_assets" /\ f[2][2] = "intangible_assets"
      BY DEF Plus, Minus
  <2>5. {7, 8} \subseteq BalancePlaces \cup 1..(9 - 1)
      BY DEF BalancePlaces
  <2>6. f[1][2] = BalanceMapping[7].code /\ f[2][2] = BalanceMapping[8].code
      BY <2>4, BalanceCodes
  <2>7. \A t \in 1..2 : \E j \in BalancePlaces \cup 1..(9 - 1) : f[t][2] = BalanceMapping[j].code
    <3> HIDE DEF f
    <3> QED  BY <2>5, <2>6
  <2> HIDE DEF f
  <2> QED
      BY <2>1, <2>2, <2>3, <2>7 DEF Terms, Codes
<1>5. /\ Terms(BalanceMapping[10].formula, 2)
      /\ \A t \in DOMAIN BalanceMapping[10].formula :
            BalanceMapping[10].formula[t][2] \in Codes(BalanceMapping, BalancePlaces \cup 1..(10 - 1))
  <2> DEFINE f == << Plus("current_assets"), Plus("non_current_assets") >>
  <2>1. BalanceMapping[10].formula = f
      BY BalanceFormulas
  <2>2. \A t \in 1..2 : f[t][1] \in Int
      BY DEF Plus, Minus
  <2>3. DOMAIN f = 1..2 /\ 2 \in 0..7
      OBVIOUS
  <2>4. f[1][2] = "current_assets" /\ f[2][2] = "non_current_assets"
      BY DEF Plus, Minus
  <2>5. {6, 9} \subseteq BalancePlaces \cup 1..(10 - 1)
      BY DEF BalancePlaces
  <2>6. f[1][2] = BalanceMapping[6].code /\ f[2][2] = BalanceMapping[9].code
      BY <2>4, BalanceCodes
  <2>7. \A t \in 1..2 : \E j \in BalancePlaces \cup 1..(10 - 1) : f[t][2] = BalanceMapping[j].code
    <3> HIDE DEF f
    <3> QED  BY <2>5, <2>6
  <2> HIDE DEF f
  <2> QED
      BY <2>1, <2>2, <2>3, <2>7 DEF Terms, Codes
<1>6. /\ Terms(BalanceMapping[16].formula, 5)
      /\ \A t \in DOMAIN BalanceMapping[16].formula :
            BalanceMapping[16].formula[t][2] \in Codes(BalanceMapping, BalancePlaces \cup 1..(16 - 1))
  <2> DEFINE f == << Plus("short_term_borrow"), Plus("accounts_payable"), Plus("advance_receipts"),
        Plus("payroll_payable"), Plus("taxes_payable") >>
  <2>1. BalanceMapping[16].formula = f
      BY BalanceFormulas
  <2>2. \A t \in 1..5 : f[t][1] \in Int
      BY DEF Plus, Minus
  <2>3. DOMAIN f = 1..5 /\ 5 \in 0..7
      OBVIOUS
  <2>4. f[1][2] = "short_term_borrow" /\ f[2][2] = "accounts_payable" /\
        f[3][2] = "advance_receipts" /\ f[4][2] = "payroll_payable" /\ f[5][2] = "taxes_payable"
      BY DEF Plus, Minus
  <2>5. {11, 12, 13, 14, 15} \subseteq BalancePlaces \cup 1..(16 - 1)
      BY DEF BalancePlaces
  <2>6. f[1][2] = BalanceMapping[11].code /\ f[2][2] = BalanceMapping[12].code /\
        f[3][2] = BalanceMapping[13].code /\ f[4][2] = BalanceMapping[14].code /\
            f[5][2] = BalanceMapping[15].code
      BY <2>4, BalanceCodes
  <2>7. \A t \in 1..5 : \E j \in BalancePlaces \cup 1..(16 - 1) : f[t][2] = BalanceMapping[j].code
    <3> HIDE DEF f
    <3> QED  BY <2>5, <2>6
  <2> HIDE DEF f
  <2> QED
      BY <2>1, <2>2, <2>3, <2>7 DEF Terms, Codes
<1>7. /\ Terms(BalanceMapping[18].formula, 1)
      /\ \A t \in DOMAIN BalanceMapping[18].formula :
            BalanceMapping[18].formula[t][2] \in Codes(BalanceMapping, BalancePlaces \cup 1..(18 - 1))
  <2> DEFINE f == << Plus("long_term_borrow") >>
  <2>1. BalanceMapping[18].formula = f
      BY BalanceFormulas
  <2>2. \A t \in 1..1 : f[t][1] \in Int
      BY DEF Plus, Minus
  <2>3. DOMAIN f = 1..1 /\ 1 \in 0..7
      OBVIOUS
  <2>4. f[1][2] = "long_term_borrow"
      BY DEF Plus, Minus
  <2>5. {17} \subseteq BalancePlaces \cup 1..(18 - 1)
      BY DEF BalancePlaces
  <2>6. f[1][2] = BalanceMapping[17].code
      BY <2>4, BalanceCodes
  <2>7. \A t \in 1..1 : \E j \in BalancePlaces \cup 1..(18 - 1) : f[t][2] = BalanceMapping[j].code
    <3> HIDE DEF f
    <3> QED  BY <2>5, <2>6
  <2> HIDE DEF f
  <2> QED
      BY <2>1, <2>2, <2>3, <2>7 DEF Terms, Codes
<1>8. /\ Terms(BalanceMapping[19].formula, 2)
      /\ \A t \in DOMAIN BalanceMapping[19].formula :
            BalanceMapping[19].formula[t][2] \in Codes(BalanceMapping, BalancePlaces \cup 1..(19 - 1))
  <2> DEFINE f == << Plus("current_liabilities"), Plus("non_current_liab") >>
  <2>1. BalanceMapping[19].formula = f
      BY BalanceFormulas
  <2>2. \A t \in 1..2 : f[t][1] \in Int
      BY DEF Plus, Minus
  <2>3. DOMAIN f = 1..2 /\ 2 \in 0..7
      OBVIOUS
  <2>4. f[1][2] = "current_liabilities" /\ f[2][2] = "non_current_liab"
      BY DEF Plus, Minus
  <2>5. {16, 18} \subseteq BalancePlaces \cup 1..(19 - 1)
      BY DEF BalancePlaces
  <2>6. f[1][2] = BalanceMapping[16].code /\ f[2][2] = BalanceMapping[18].code
      BY <2>4, BalanceCodes
  <2>7. \A t \in 1..2 : \E j \in BalancePlaces \cup 1..(19 - 1) : f[t][2] = BalanceMapping[j].code
    <3> HIDE DEF f
    <3> QED  BY <2>5, <2>6
  <2> HIDE DEF f
  <2> QED
      BY <2>1, <2>2, <2>3, <2>7 DEF Terms, Codes
<1>9. /\ Terms(BalanceMapping[24].formula, 4)
      /\ \A t \in DOMAIN BalanceMapping[24].formula :
            BalanceMapping[24].formula[t][2] \in Codes(BalanceMapping, BalancePlaces \cup 1..(24 - 1))
  <2> DEFINE f == << Plus("paid_in_capital"), Plus("capital_reserve"), Plus("surplus_reserve"),
        Plus("retained_earnings") >>
  <2>1. BalanceMapping[24].formula = f
      BY BalanceFormulas
  <2>2. \A t \in 1..4 : f[t][1] \in Int
      BY DEF Plus, Minus
  <2>3. DOMAIN f = 1..4 /\ 4 \in 0..7
      OBVIOUS
  <2>4. f[1][2] = "paid_in_capital" /\ f[2][2] = "capital_reserve" /\ f[3][2] = "surplus_reserve" /\
        f[4][2] = "retained_earnings"
      BY DEF Plus, Minus
  <2>5. {20, 21, 22, 23} \subseteq BalancePlaces \cup 1..(24 - 1)
      BY DEF BalancePlaces
  <2>6. f[1][2] = BalanceMapping[20].code /\ f[2][2] = BalanceMapping[21].code /\
        f[3][2] = BalanceMapping[22].code /\ f[4][2] = BalanceMapping[23].code
      BY <2>4, BalanceCodes
  <2>7. \A t \in 1..4 : \E j \in BalancePlaces \cup 1..(24 - 1) : f[t][2] = BalanceMapping[j].code
    <3> HIDE DEF f
    <3> QED  BY <2>5, <2>6
  <2> HIDE DEF f
  <2> QED
      BY <2>1, <2>2, <2>3, <2>7 DEF Terms, Codes
<1>10. /\ Terms(BalanceMapping[25].formula, 2)
      /\ \A t \in DOMAIN BalanceMapping[25].formula :
            BalanceMapping[25].formula[t][2] \in Codes(BalanceMapping, BalancePlaces \cup 1..(25 - 1))
  <2> DEFINE f == << Plus("total_liabilities"), Plus("total_equity") >>
  <2>1. BalanceMapping[25].formula = f
      BY BalanceFormulas
  <2>2. \A t \in 1..2 : f[t][1] \in Int
      BY DEF Plus, Minus
  <2>3. DOMAIN f = 1..2 /\ 2 \in 0..7
      OBVIOUS
  <2>4. f[1][2] = "total_liabilities" /\ f[2][2] = "total_equity"
      BY DEF Plus, Minus
  <2>5. {19, 24} \subseteq BalancePlaces \cup 1..(25 - 1)
      BY DEF BalancePlaces
  <2>6. f[1][2] = BalanceMapping[19].code /\ f[2][2] = BalanceMapping[24].code
      BY <2>4, BalanceCodes
  <2>7. \A t \in 1..2 : \E j \in BalancePlaces \cup 1..(25 - 1) : f[t][2] = BalanceMapping[j].code
    <3> HIDE DEF f
    <3> QED  BY <2>5, <2>6
  <2> HIDE DEF f
  <2> QED
      BY <2>1, <2>2, <2>3, <2>7 DEF Terms, Codes
<1>11. \A k \in 1..25 : \E m : Terms(BalanceMapping[k].formula, m)
    BY <1>2, <1>3, <1>4, <1>5, <1>6, <1>7, <1>8, <1>9, <1>10, BalanceCases
<1>12. \A k \in {6, 9, 10, 16, 18, 19, 24, 25} : \A t \in DOMAIN BalanceMapping[k].formula :
          BalanceMapping[k].formula[t][2] \in Codes(BalanceMapping, BalancePlaces \cup 1..(k - 1))
    BY <1>3, <1>4, <1>5, <1>6, <1>7, <1>8, <1>9, <1>10
<1>13. \A k \in 1..25 : BalanceMapping[k].code \in Codes(BalanceMapping, 1..25)
    BY DEF Codes
<1> QED
    BY <1>1, <1>2, <1>11, <1>12, <1>13, BalanceCases, BalanceRowsIn, BalanceCodes DEF WellOrdered

-----------------------------------------------------------------------------
\* The subtotals of the profit statement,
LEMMA ProfitRead ==
    ASSUME NEW lines, IsFiniteSet(lines), Columns(lines)
    PROVE  LET p == Statement(ProfitMapping, lines) IN
           /\ DOMAIN p = Codes(ProfitMapping, 1..13)
           /\ p["operating_profit"] =
                 p["revenue"] - p["cost"] - p["tax_and_surcharge"] - p["selling_expense"]
                     - p["admin_expense"] - p["finance_expense"] + p["investment_income"]
           /\ p["total_profit"] =
                 p["operating_profit"] + p["non_op_income"] - p["non_op_expense"]
           /\ p["net_profit"] =
                 p["total_profit"] - p["income_tax"]
           /\ p["revenue"] \in Int /\ p["cost"] \in Int
           /\ p["tax_and_surcharge"] \in Int /\ p["selling_expense"] \in Int
           /\ p["admin_expense"] \in Int /\ p["finance_expense"] \in Int
           /\ p["investment_income"] \in Int /\ p["operating_profit"] \in Int
           /\ p["non_op_income"] \in Int /\ p["non_op_expense"] \in Int
           /\ p["total_profit"] \in Int /\ p["income_tax"] \in Int
           /\ p["net_profit"] \in Int
           /\ \A k \in ProfitPlaces : p[ProfitMapping[k].code] = RowAmount(ProfitMapping[k], lines)
<1> DEFINE p == Statement(ProfitMapping, lines)
           C == Codes(ProfitMapping, 1..13)
<1>1. p \in AmountsOver(C) /\ DOMAIN p = C /\ Settled(ProfitMapping, lines, 1..13, p)
  <2>1. p = Statement(ProfitMapping, lines)
      OBVIOUS
  <2> HIDE DEF C
  <2> QED  BY <2>1, ProfitWellOrdered, StatementSettles, 13 \in Nat DEF C
<1> HIDE DEF p
<1>2. \A c \in C : p[c] \in Int
    BY <1>1 DEF AmountsOver
<1>3. \A k \in 1..13 : ProfitMapping[k].code \in C
    BY DEF Codes
<1>4. \A k \in ProfitPlaces : p[ProfitMapping[k].code] = RowAmount(ProfitMapping[k], lines)
    BY <1>1, ProfitRowsIn DEF Settled
<1>5. \A k \in {8, 11, 13} : p[ProfitMapping[k].code] = EvalFormula(ProfitMapping[k].formula, p)
    BY <1>1, ProfitCases, ProfitRowsIn DEF Settled
<1>6. \A k \in 1..13 : ProfitMapping[k].code \in DOMAIN p /\ p[ProfitMapping[k].code] \in Int
    BY <1>1, <1>2, <1>3
<1> HIDE DEF C
<1>7. \A k \in 1..13 : LET c == ProfitMapping[k].code IN
          /\ Plus(c)[1] \in Int /\ Minus(c)[1] \in Int
          /\ Amount(p, Plus(c)) = p[c] /\ Amount(p, Minus(c)) = -p[c]
    BY <1>6, PlusMinus
<1>8. p["operating_profit"] = p["revenue"] - p["cost"] - p["tax_and_surcharge"]
      - p["selling_expense"] - p["admin_expense"] - p["finance_expense"] + p["investment_income"]
  <2>1. p["operating_profit"] = EvalFormula(ProfitMapping[8].formula, p)
      BY <1>5, ProfitCodes
  <2>2. Plus("revenue")[1] \in Int /\ Minus("cost")[1] \in Int /\
        Minus("tax_and_surcharge")[1] \in Int /\ Minus("selling_expense")[1] \in Int /\
            Minus("admin_expense")[1] \in Int /\ Minus("finance_expense")[1] \in Int /\
                Plus("investment_income")[1] \in Int
      BY <1>7, ProfitCodes
  <2>3. EvalFormula(ProfitMapping[8].formula, p) = Amount(p, Plus("revenue"))
        + Amount(p, Minus("cost")) + Amount(p, Minus("tax_and_surcharge"))
            + Amount(p, Minus("selling_expense")) + Amount(p, Minus("admin_expense"))
                + Amount(p, Minus("finance_expense")) + Amount(p, Plus("investment_income"))
    <3>1. ProfitMapping[8].formula = << Plus("revenue"), Minus("cost"), Minus("tax_and_surcharge"),
          Minus("selling_expense"), Minus("admin_expense"), Minus("finance_expense"),
              Plus("investment_income") >>
        BY ProfitFormulas
    <3> QED  BY <1>1, <2>2, <3>1, EvalTerms
  <2>4. Amount(p, Plus("revenue")) = p["revenue"] /\ Amount(p, Minus("cost")) = -p["cost"] /\
        Amount(p, Minus("tax_and_surcharge")) = -p["tax_and_surcharge"] /\
            Amount(p, Minus("selling_expense")) = -p["selling_expense"] /\
                Amount(p, Minus("admin_expense")) = -p["admin_expense"] /\
                    Amount(p, Minus("finance_expense")) = -p["finance_expense"] /\
                        Amount(p, Plus("investment_income")) = p["investment_income"]
      BY <1>7, ProfitCodes
  <2>5. p["revenue"] \in Int /\ p["cost"] \in Int /\ p["tax_and_surcharge"] \in Int /\
        p["selling_expense"] \in Int /\ p["admin_expense"] \in Int /\ p["finance_expense"] \in Int /\
            p["investment_income"] \in Int
      BY <1>6, ProfitCodes
  <2> QED
      BY <2>1, <2>3, <2>4, <2>5
<1>9. p["total_profit"] = p["operating_profit"] + p["non_op_income"] - p["non_op_expense"]
  <2>1. p["total_profit"] = EvalFormula(ProfitMapping[11].formula, p)
      BY <1>5, ProfitCodes
  <2>2. Plus("operating_profit")[1] \in Int /\ Plus("non_op_income")[1] \in Int /\
        Minus("non_op_expense")[1] \in Int
      BY <1>7, ProfitCodes
  <2>3. EvalFormula(ProfitMapping[11].formula, p) = Amount(p, Plus("operating_profit"))
        + Amount(p, Plus("non_op_income")) + Amount(p, Minus("non_op_expense"))
    <3>1. ProfitMapping[11].formula = << Plus("operating_profit"), Plus("non_op_income"),
          Minus("non_op_expense") >>
        BY ProfitFormulas
    <3> QED  BY <1>1, <2>2, <3>1, EvalTerms
  <2>4. Amount(p, Plus("operating_profit")) = p["operating_profit"] /\
        Amount(p, Plus("non_op_income")) = p["non_op_income"] /\
            Amount(p, Minus("non_op_expense")) = -p["non_op_expense"]
      BY <1>7, ProfitCodes
  <2>5. p["operating_profit"] \in Int /\ p["non_op_income"] \in Int /\ p["non_op_expense"] \in Int
      BY <1>6, ProfitCodes
  <2> QED
      BY <2>1, <2>3, <2>4, <2>5
<1>10. p["net_profit"] = p["total_profit"] - p["income_tax"]
  <2>1. p["net_profit"] = EvalFormula(ProfitMapping[13].formula, p)
      BY <1>5, ProfitCodes
  <2>2. Plus("total_profit")[1] \in Int /\ Minus("income_tax")[1] \in Int
      BY <1>7, ProfitCodes
  <2>3. EvalFormula(ProfitMapping[13].formula, p) = Amount(p, Plus("total_profit"))
        + Amount(p, Minus("income_tax"))
    <3>1. ProfitMapping[13].formula = << Plus("total_profit"), Minus("income_tax") >>
        BY ProfitFormulas
    <3> QED  BY <1>1, <2>2, <3>1, EvalTerms
  <2>4. Amount(p, Plus("total_profit")) = p["total_profit"] /\
        Amount(p, Minus("income_tax")) = -p["income_tax"]
      BY <1>7, ProfitCodes
  <2>5. p["total_profit"] \in Int /\ p["income_tax"] \in Int
      BY <1>6, ProfitCodes
  <2> QED
      BY <2>1, <2>3, <2>4, <2>5
<1>11. /\ p["revenue"] \in Int /\ p["cost"] \in Int
      /\ p["tax_and_surcharge"] \in Int /\ p["selling_expense"] \in Int
      /\ p["admin_expense"] \in Int /\ p["finance_expense"] \in Int
      /\ p["investment_income"] \in Int /\ p["operating_profit"] \in Int
      /\ p["non_op_income"] \in Int /\ p["non_op_expense"] \in Int
      /\ p["total_profit"] \in Int /\ p["income_tax"] \in Int
      /\ p["net_profit"] \in Int
    BY <1>6, ProfitCodes
<1> QED
    BY <1>1, <1>4, <1>8, <1>9, <1>10, <1>11 DEF p, C

\* and those of the balance sheet.
LEMMA BalanceRead ==
    ASSUME NEW lines, IsFiniteSet(lines), Columns(lines)
    PROVE  LET p == Statement(BalanceMapping, lines) IN
           /\ DOMAIN p = Codes(BalanceMapping, 1..25)
           /\ p["current_assets"] =
                 p["monetary_funds"] + p["accounts_receivable"] + p["prepayments"]
                     + p["other_receivables"] + p["inventory"]
           /\ p["non_current_assets"] =
                 p["fixed_assets"] + p["intangible_assets"]
           /\ p["total_assets"] =
                 p["current_assets"] + p["non_current_assets"]
           /\ p["current_liabilities"] =
                 p["short_term_borrow"] + p["accounts_payable"] + p["advance_receipts"]
                     + p["payroll_payable"] + p["taxes_payable"]
           /\ p["non_current_liab"] =
                 p["long_term_borrow"]
           /\ p["total_liabilities"] =
                 p["current_liabilities"] + p["non_current_liab"]
           /\ p["total_equity"] =
                 p["paid_in_capital"] + p["capital_reserve"] + p["surplus_reserve"]
                     + p["retained_earnings"]
           /\ p["total_liab_equity"] =
                 p["total_liabilities"] + p["total_equity"]
           /\ p["monetary_funds"] \in Int /\ p["accounts_receivable"] \in Int
           /\ p["prepayments"] \in Int /\ p["other_receivables"] \in Int
           /\ p["inventory"] \in Int /\ p["current_assets"] \in Int
           /\ p["fixed_assets"] \in Int /\ p["intangible_assets"] \in Int
           /\ p["non_current_assets"] \in Int /\ p["total_assets"] \in Int
           /\ p["short_term_borrow"] \in Int /\ p["accounts_payable"] \in Int
           /\ p["advance_receipts"] \in Int /\ p["payroll_payable"] \in Int
           /\ p["taxes_payable"] \in Int /\ p["current_liabilities"] \in Int
           /\ p["long_term_borrow"] \in Int /\ p["non_current_liab"] \in Int
           /\ p["total_liabilities"] \in Int /\ p["paid_in_capital"] \in Int
           /\ p["capital_reserve"] \in Int /\ p["surplus_reserve"] \in Int
           /\ p["retained_earnings"] \in Int /\ p["total_equity"] \in Int
           /\ p["total_liab_equity"] \in Int
           /\ \A k \in BalancePlaces : p[BalanceMapping[k].code] = RowAmount(BalanceMapping[k], lines)
<1> DEFINE p == Statement(BalanceMapping, lines)
           C == Codes(BalanceMapping, 1..25)
<1>1. p \in AmountsOver(C) /\ DOMAIN p = C /\ Settled(BalanceMapping, lines, 1..25, p)
  <2>1. p = Statement(BalanceMapping, lines)
      OBVIOUS
  <2> HIDE DEF C
  <2> QED  BY <2>1, BalanceWellOrdered, StatementSettles, 25 \in Nat DEF C
<1> HIDE DEF p
<1>2. \A c \in C : p[c] \in Int
    BY <1>1 DEF AmountsOver
<1>3. \A k \in 1..25 : BalanceMapping[k].code \in C
    BY DEF Codes
<1>4. \A k \in BalancePlaces : p[BalanceMapping[k].code] = RowAmount(BalanceMapping[k], lines)
    BY <1>1, BalanceRowsIn DEF Settled
<1>5. \A k \in {6, 9, 10, 16, 18, 19, 24, 25} :
      p[BalanceMapping[k].code] = EvalFormula(BalanceMapping[k].formula, p)
    BY <1>1, BalanceCases, BalanceRowsIn DEF Settled
<1>6. \A k \in 1..25 : BalanceMapping[k].code \in DOMAIN p /\ p[BalanceMapping[k].code] \in Int
    BY <1>1, <1>2, <1>3
<1> HIDE DEF C
<1>7. \A k \in 1..25 : LET c == BalanceMapping[k].code IN
          /\ Plus(c)[1] \in Int /\ Minus(c)[1] \in Int
          /\ Amount(p, Plus(c)) = p[c] /\ Amount(p, Minus(c)) = -p[c]
    BY <1>6, PlusMinus
<1>8. p["current_assets"] = p["monetary_funds"] + p["accounts_receivable"] + p["prepayments"]
      + p["other_receivables"] + p["inventory"]
  <2>1. p["current_assets"] = EvalFormula(BalanceMapping[6].formula, p)
      BY <1>5, BalanceCodes
  <2>2. Plus("monetary_funds")[1] \in Int /\ Plus("accounts_receivable")[1] \in Int /\
        Plus("prepayments")[1] \in Int /\ Plus("other_receivables")[1] \in Int /\
            Plus("inventory")[1] \in Int
      BY <1>7, BalanceCodes
  <2>3. EvalFormula(BalanceMapping[6].formula, p) = Amount(p, Plus("monetary_funds"))
        + Amount(p, Plus("accounts_receivable")) + Amount(p, Plus("prepayments"))
            + Amount(p, Plus("other_receivables")) + Amount(p, Plus("inventory"))
    <3>1. BalanceMapping[6].formula = << Plus("monetary_funds"), Plus("accounts_receivable"),
          Plus("prepayments"), Plus("other_receivables"), Plus("inventory") >>
        BY BalanceFormulas
    <3> QED  BY <1>1, <2>2, <3>1, EvalTerms
  <2>4. Amount(p, Plus("monetary_funds")) = p["monetary_funds"] /\
        Amount(p, Plus("accounts_receivable")) = p["accounts_receivable"] /\
            Amount(p, Plus("prepayments")) = p["prepayments"] /\
                Amount(p, Plus("other_receivables")) = p["other_receivables"] /\
                    Amount(p, Plus("inventory")) = p["inventory"]
      BY <1>7, BalanceCodes
  <2>5. p["monetary_funds"] \in Int /\ p["accounts_receivable"] \in Int /\ p["prepayments"] \in Int /\
        p["other_receivables"] \in Int /\ p["inventory"] \in Int
      BY <1>6, BalanceCodes
  <2> QED
      BY <2>1, <2>3, <2>4, <2>5
<1>9. p["non_current_assets"] = p["fixed_assets"] + p["intangible_assets"]
  <2>1. p["non_current_assets"] = EvalFormula(BalanceMapping[9].formula, p)
      BY <1>5, BalanceCodes
  <2>2. Plus("fixed_assets")[1] \in Int /\ Plus("intangible_assets")[1] \in Int
      BY <1>7, BalanceCodes
  <2>3. EvalFormula(BalanceMapping[9].formula, p) = Amount(p, Plus("fixed_assets"))
        + Amount(p, Plus("intangible_assets"))
    <3>1. BalanceMapping[9].formula = << Plus("fixed_assets"), Plus("intangible_assets") >>
        BY BalanceFormulas
    <3> QED  BY <1>1, <2>2, <3>1, EvalTerms
  <2>4. Amount(p, Plus("fixed_assets")) = p["fixed_assets"] /\
        Amount(p, Plus("intangible_assets")) = p["intangible_assets"]
      BY <1>7, BalanceCodes
  <2>5. p["fixed_assets"] \in Int /\ p["intangible_assets"] \in Int
      BY <1>6, BalanceCodes
  <2> QED
      BY <2>1, <2>3, <2>4, <2>5
<1>10. p["total_assets"] = p["current_assets"] + p["non_current_assets"]
  <2>1. p["total_assets"] = EvalFormula(BalanceMapping[10].formula, p)
      BY <1>5, BalanceCodes
  <2>2. Plus("current_assets")[1] \in Int /\ Plus("non_current_assets")[1] \in Int
      BY <1>7, BalanceCodes
  <2>3. EvalFormula(BalanceMapping[10].formula, p) = Amount(p, Plus("current_assets"))
        + Amount(p, Plus("non_current_assets"))
    <3>1. BalanceMapping[10].formula = << Plus("current_assets"), Plus("non_current_assets") >>
        BY BalanceFormulas
    <3> QED  BY <1>1, <2>2, <3>1, EvalTerms
  <2>4. Amount(p, Plus("current_assets")) = p["current_assets"] /\
        Amount(p, Plus("non_current_assets")) = p["non_current_assets"]
      BY <1>7, BalanceCodes
  <2>5. p["current_assets"] \in Int /\ p["non_current_assets"] \in Int
      BY <1>6, BalanceCodes
  <2> QED
      BY <2>1, <2>3, <2>4, <2>5
<1>11. p["current_liabilities"] = p["short_term_borrow"] + p["accounts_payable"]
      + p["advance_receipts"] + p["payroll_payable"] + p["taxes_payable"]
  <2>1. p["current_liabilities"] = EvalFormula(BalanceMapping[16].formula, p)
      BY <1>5, BalanceCodes
  <2>2. Plus("short_term_borrow")[1] \in Int /\ Plus("accounts_payable")[1] \in Int /\
        Plus("advance_receipts")[1] \in Int /\ Plus("payroll_payable")[1] \in Int /\
            Plus("taxes_payable")[1] \in Int
      BY <1>7, BalanceCodes
  <2>3. EvalFormula(BalanceMapping[16].formula, p) = Amount(p, Plus("short_term_borrow"))
        + Amount(p, Plus("accounts_payable")) + Amount(p, Plus("advance_receipts"))
            + Amount(p, Plus("payroll_payable")) + Amount(p, Plus("taxes_payable"))
    <3>1. BalanceMapping[16].formula = << Plus("short_term_borrow"), Plus("accounts_payable"),
          Plus("advance_receipts"), Plus("payroll_payable"), Plus("taxes_payable") >>
        BY BalanceFormulas
    <3> QED  BY <1>1, <2>2, <3>1, EvalTerms
  <2>4. Amount(p, Plus("short_term_borrow")) = p["short_term_borrow"] /\
        Amount(p, Plus("accounts_payable")) = p["accounts_payable"] /\
            Amount(p, Plus("advance_receipts")) = p["advance_receipts"] /\
                Amount(p, Plus("payroll_payable")) = p["payroll_payable"] /\
                    Amount(p, Plus("taxes_payable")) = p["taxes_payable"]
      BY <1>7, BalanceCodes
  <2>5. p["short_term_borrow"] \in Int /\ p["accounts_payable"] \in Int /\
        p["advance_receipts"] \in Int /\ p["payroll_payable"] \in Int /\ p["taxes_payable"] \in Int
      BY <1>6, BalanceCodes
  <2> QED
      BY <2>1, <2>3, <2>4, <2>5
<1>12. p["non_current_liab"] = p["long_term_borrow"]
  <2>1. p["non_current_liab"] = EvalFormula(BalanceMapping[18].formula, p)
      BY <1>5, BalanceCodes
  <2>2. Plus("long_term_borrow")[1] \in Int
      BY <1>7, BalanceCodes
  <2>3. EvalFormula(BalanceMapping[18].formula, p) = Amount(p, Plus("long_term_borrow"))
    <3>1. BalanceMapping[18].formula = << Plus("long_term_borrow") >>
        BY BalanceFormulas
    <3> QED  BY <1>1, <2>2, <3>1, EvalTerms
  <2>4. Amount(p, Plus("long_term_borrow")) = p["long_term_borrow"]
      BY <1>7, BalanceCodes
  <2>5. p["long_term_borrow"] \in Int
      BY <1>6, BalanceCodes
  <2> QED
      BY <2>1, <2>3, <2>4, <2>5
<1>13. p["total_liabilities"] = p["current_liabilities"] + p["non_current_liab"]
  <2>1. p["total_liabilities"] = EvalFormula(BalanceMapping[19].formula, p)
      BY <1>5, BalanceCodes
  <2>2. Plus("current_liabilities")[1] \in Int /\ Plus("non_current_liab")[1] \in Int
      BY <1>7, BalanceCodes
  <2>3. EvalFormula(BalanceMapping[19].formula, p) = Amount(p, Plus("current_liabilities"))
        + Amount(p, Plus("non_current_liab"))
    <3>1. BalanceMapping[19].formula = << Plus("current_liabilities"), Plus("non_current_liab") >>
        BY BalanceFormulas
    <3> QED  BY <1>1, <2>2, <3>1, EvalTerms
  <2>4. Amount(p, Plus("current_liabilities")) = p["current_liabilities"] /\
        Amount(p, Plus("non_current_liab")) = p["non_current_liab"]
      BY <1>7, BalanceCodes
  <2>5. p["current_liabilities"] \in Int /\ p["non_current_liab"] \in Int
      BY <1>6, BalanceCodes
  <2> QED
      BY <2>1, <2>3, <2>4, <2>5
<1>14. p["total_equity"] = p["paid_in_capital"] + p["capital_reserve"] + p["surplus_reserve"]
      + p["retained_earnings"]
  <2>1. p["total_equity"] = EvalFormula(BalanceMapping[24].formula, p)
      BY <1>5, BalanceCodes
  <2>2. Plus("paid_in_capital")[1] \in Int /\ Plus("capital_reserve")[1] \in Int /\
        Plus("surplus_reserve")[1] \in Int /\ Plus("retained_earnings")[1] \in Int
      BY <1>7, BalanceCodes
  <2>3. EvalFormula(BalanceMapping[24].formula, p) = Amount(p, Plus("paid_in_capital"))
        + Amount(p, Plus("capital_reserve")) + Amount(p, Plus("surplus_reserve"))
            + Amount(p, Plus("retained_earnings"))
    <3>1. BalanceMapping[24].formula = << Plus("paid_in_capital"), Plus("capital_reserve"),
          Plus("surplus_reserve"), Plus("retained_earnings") >>
        BY BalanceFormulas
    <3> QED  BY <1>1, <2>2, <3>1, EvalTerms
  <2>4. Amount(p, Plus("paid_in_capital")) = p["paid_in_capital"] /\
        Amount(p, Plus("capital_reserve")) = p["capital_reserve"] /\
            Amount(p, Plus("surplus_reserve")) = p["surplus_reserve"] /\
                Amount(p, Plus("retained_earnings")) = p["retained_earnings"]
      BY <1>7, BalanceCodes
  <2>5. p["paid_in_capital"] \in Int /\ p["capital_reserve"] \in Int /\ p["surplus_reserve"] \in Int /\
        p["retained_earnings"] \in Int
      BY <1>6, BalanceCodes
  <2> QED
      BY <2>1, <2>3, <2>4, <2>5
<1>15. p["total_liab_equity"] = p["total_liabilities"] + p["total_equity"]
  <2>1. p["total_liab_equity"] = EvalFormula(BalanceMapping[25].formula, p)
      BY <1>5, BalanceCodes
  <2>2. Plus("total_liabilities")[1] \in Int /\ Plus("total_equity")[1] \in Int
      BY <1>7, BalanceCodes
  <2>3. EvalFormula(BalanceMapping[25].formula, p) = Amount(p, Plus("total_liabilities"))
        + Amount(p, Plus("total_equity"))
    <3>1. BalanceMapping[25].formula = << Plus("total_liabilities"), Plus("total_equity") >>
        BY BalanceFormulas
    <3> QED  BY <1>1, <2>2, <3>1, EvalTerms
  <2>4. Amount(p, Plus("total_liabilities")) = p["total_liabilities"] /\
        Amount(p, Plus("total_equity")) = p["total_equity"]
      BY <1>7, BalanceCodes
  <2>5. p["total_liabilities"] \in Int /\ p["total_equity"] \in Int
      BY <1>6, BalanceCodes
  <2> QED
      BY <2>1, <2>3, <2>4, <2>5
<1>16. /\ p["monetary_funds"] \in Int /\ p["accounts_receivable"] \in Int
      /\ p["prepayments"] \in Int /\ p["other_receivables"] \in Int
      /\ p["inventory"] \in Int /\ p["current_assets"] \in Int
      /\ p["fixed_assets"] \in Int /\ p["intangible_assets"] \in Int
      /\ p["non_current_assets"] \in Int /\ p["total_assets"] \in Int
      /\ p["short_term_borrow"] \in Int /\ p["accounts_payable"] \in Int
      /\ p["advance_receipts"] \in Int /\ p["payroll_payable"] \in Int
      /\ p["taxes_payable"] \in Int /\ p["current_liabilities"] \in Int
      /\ p["long_term_borrow"] \in Int /\ p["non_current_liab"] \in Int
      /\ p["total_liabilities"] \in Int /\ p["paid_in_capital"] \in Int
      /\ p["capital_reserve"] \in Int /\ p["surplus_reserve"] \in Int
      /\ p["retained_earnings"] \in Int /\ p["total_equity"] \in Int
      /\ p["total_liab_equity"] \in Int
    BY <1>6, BalanceCodes
<1> QED
    BY <1>1, <1>4, <1>8, <1>9, <1>10, <1>11, <1>12, <1>13, <1>14, <1>15, <1>16 DEF p, C

-----------------------------------------------------------------------------
\* Integers on a set, and a set by its list.
AllInt(f, S) == \A x \in S : f[x] \in Int

ListedOnce(s, n, S) == n \in 1..10 /\ S = {s[i] : i \in 1..n} /\ \A i, j \in 1..n : s[i] = s[j] => i = j

\* Sums over three, four, seven and ten terms.
LEMMA SumListed ==
    \A f, s, n, S : ListedOnce(s, n, S) /\ AllInt(f, S)
        => /\ n = 3 => SumOn(f, S) = f[s[1]] + f[s[2]] + f[s[3]]
           /\ n = 4 => SumOn(f, S) = f[s[1]] + f[s[2]] + f[s[3]] + f[s[4]]
           /\ n = 7 => SumOn(f, S) = f[s[1]] + f[s[2]] + f[s[3]] + f[s[4]] + f[s[5]] + f[s[6]] + f[s[7]]
           /\ n = 10 => SumOn(f, S) = f[s[1]] + f[s[2]] + f[s[3]] + f[s[4]] + f[s[5]]
                                       + f[s[6]] + f[s[7]] + f[s[8]] + f[s[9]] + f[s[10]]
<1> SUFFICES ASSUME NEW f, NEW s, NEW n, NEW S, ListedOnce(s, n, S), AllInt(f, S)
             PROVE  /\ n = 3 => SumOn(f, S) = f[s[1]] + f[s[2]] + f[s[3]]
                    /\ n = 4 => SumOn(f, S) = f[s[1]] + f[s[2]] + f[s[3]] + f[s[4]]
                    /\ n = 7 => SumOn(f, S) = f[s[1]] + f[s[2]] + f[s[3]] + f[s[4]] + f[s[5]]
                                                + f[s[6]] + f[s[7]]
                    /\ n = 10 => SumOn(f, S) = f[s[1]] + f[s[2]] + f[s[3]] + f[s[4]] + f[s[5]]
                                       + f[s[6]] + f[s[7]] + f[s[8]] + f[s[9]] + f[s[10]]
    OBVIOUS
<1>1. PICK g : g = [i \in 1..n |-> f[s[i]]]
    OBVIOUS
<1>2. n \in 1..10 /\ n \in Nat
    BY DEF ListedOnce
<1>3. \A i \in 1..n : g[i] = f[s[i]] /\ f[s[i]] \in Int
    BY <1>1 DEF ListedOnce, AllInt
<1>4. Lists(s, n, S, f, g)
    BY <1>2, <1>3 DEF ListedOnce, Lists
<1>5. SumOn(f, S) = SumOn(g, 1..n)
    BY <1>4, SumOfList
<1>6. \A i \in 1..n : g[i] \in Int
    BY <1>3
<1>7. /\ n = 3 => SumOn(g, 1..n) = g[1] + g[2] + g[3]
      /\ n = 4 => SumOn(g, 1..n) = g[1] + g[2] + g[3] + g[4]
      /\ n = 7 => SumOn(g, 1..n) = g[1] + g[2] + g[3] + g[4] + g[5] + g[6] + g[7]
      /\ n = 10 => SumOn(g, 1..n) = g[1] + g[2] + g[3] + g[4] + g[5] + g[6] + g[7] + g[8] + g[9] + g[10]
    BY <1>2, <1>6, SumOfFew
<1>8. CASE n = 3
    BY <1>3, <1>5, <1>7, <1>8
<1>9. CASE n = 7
    BY <1>3, <1>5, <1>7, <1>9
<1>10. CASE n = 10
    BY <1>3, <1>5, <1>7, <1>10
<1>11. CASE n = 4
    BY <1>3, <1>5, <1>7, <1>11
<1> QED
    BY <1>8, <1>9, <1>10, <1>11

Apart3(a, b, c) ==
    \A i, j \in 1..3 : <<a, b, c>>[i] = <<a, b, c>>[j] => i = j

LEMMA SumOf3 ==
    \A f, a, b, c : AllInt(f, {a, b, c}) /\ Apart3(a, b, c)
        => SumOn(f, {a, b, c}) = f[a] + f[b] + f[c]
<1> SUFFICES ASSUME NEW f, NEW a, NEW b, NEW c,
                    AllInt(f, {a, b, c}), Apart3(a, b, c)
             PROVE  SumOn(f, {a, b, c}) = f[a] + f[b] + f[c]
    OBVIOUS
<1> DEFINE s == <<a, b, c>>
<1>2. s[1] = a /\ s[2] = b /\ s[3] = c
    OBVIOUS
<1>1. ListedOnce(s, 3, {a, b, c})
  <2>1. \A i, j \in 1..3 : s[i] = s[j] => i = j
      BY DEF Apart3
  <2> HIDE DEF s
  <2>2. {a, b, c} = {s[i] : i \in 1..3}
      BY <1>2
  <2> QED
      BY <2>1, <2>2, 3 \in 1..10 DEF ListedOnce
<1> QED
    BY <1>1, <1>2, SumListed

Apart4(a, b, c, d) ==
    \A i, j \in 1..4 : <<a, b, c, d>>[i] = <<a, b, c, d>>[j] => i = j

LEMMA SumOf4 ==
    \A f, a, b, c, d : AllInt(f, {a, b, c, d}) /\ Apart4(a, b, c, d)
        => SumOn(f, {a, b, c, d}) = f[a] + f[b] + f[c] + f[d]
<1> SUFFICES ASSUME NEW f, NEW a, NEW b, NEW c, NEW d,
                    AllInt(f, {a, b, c, d}), Apart4(a, b, c, d)
             PROVE  SumOn(f, {a, b, c, d}) = f[a] + f[b] + f[c] + f[d]
    OBVIOUS
<1> DEFINE s == <<a, b, c, d>>
<1>2. s[1] = a /\ s[2] = b /\ s[3] = c /\ s[4] = d
    OBVIOUS
<1>1. ListedOnce(s, 4, {a, b, c, d})
  <2>1. \A i, j \in 1..4 : s[i] = s[j] => i = j
      BY DEF Apart4
  <2> HIDE DEF s
  <2>2. {a, b, c, d} = {s[i] : i \in 1..4}
      BY <1>2
  <2> QED
      BY <2>1, <2>2, 4 \in 1..10 DEF ListedOnce
<1> QED
    BY <1>1, <1>2, SumListed

Apart7(a, b, c, d, e, g, h) ==
    \A i, j \in 1..7 : <<a, b, c, d, e, g, h>>[i] = <<a, b, c, d, e, g, h>>[j] => i = j

LEMMA SumOf7 ==
    \A f, a, b, c, d, e, g, h : AllInt(f, {a, b, c, d, e, g, h}) /\ Apart7(a, b, c, d, e, g, h)
        => SumOn(f, {a, b, c, d, e, g, h}) = f[a] + f[b] + f[c] + f[d] + f[e] + f[g] + f[h]
<1> SUFFICES ASSUME NEW f, NEW a, NEW b, NEW c, NEW d, NEW e, NEW g, NEW h,
                    AllInt(f, {a, b, c, d, e, g, h}), Apart7(a, b, c, d, e, g, h)
             PROVE  SumOn(f, {a, b, c, d, e, g, h}) = f[a] + f[b] + f[c] + f[d] + f[e] + f[g] + f[h]
    OBVIOUS
<1> DEFINE s == <<a, b, c, d, e, g, h>>
<1>2. s[1] = a /\ s[2] = b /\ s[3] = c /\ s[4] = d /\ s[5] = e /\ s[6] = g /\ s[7] = h
    OBVIOUS
<1>1. ListedOnce(s, 7, {a, b, c, d, e, g, h})
  <2>1. \A i, j \in 1..7 : s[i] = s[j] => i = j
      BY DEF Apart7
  <2> HIDE DEF s
  <2>2. {a, b, c, d, e, g, h} = {s[i] : i \in 1..7}
      BY <1>2
  <2> QED
      BY <2>1, <2>2, 7 \in 1..10 DEF ListedOnce
<1> QED
    BY <1>1, <1>2, SumListed

Apart10(a, b, c, d, e, g, h, k, l, m) ==
    \A i, j \in 1..10 : <<a, b, c, d, e, g, h, k, l, m>>[i] = <<a, b, c, d, e, g, h, k, l, m>>[j] =>
        i = j

LEMMA SumOf10 ==
    \A f, a, b, c, d, e, g, h, k, l, m : AllInt(f, {a, b, c, d, e, g, h, k, l, m}) /\
        Apart10(a, b, c, d, e, g, h, k, l, m)
        => SumOn(f, {a, b, c, d, e, g, h, k, l, m}) = f[a] + f[b] + f[c] + f[d] + f[e] + f[g] + f[h]
            + f[k] + f[l] + f[m]
<1> SUFFICES ASSUME NEW f, NEW a, NEW b, NEW c, NEW d, NEW e, NEW g, NEW h, NEW k, NEW l, NEW m,
                    AllInt(f, {a, b, c, d, e, g, h, k, l, m}), Apart10(a, b, c, d, e, g, h, k, l, m)
             PROVE  SumOn(f, {a, b, c, d, e, g, h, k, l, m}) = f[a] + f[b] + f[c] + f[d] + f[e]
                 + f[g] + f[h] + f[k] + f[l] + f[m]
    OBVIOUS
<1> DEFINE s == <<a, b, c, d, e, g, h, k, l, m>>
<1>2. s[1] = a /\ s[2] = b /\ s[3] = c /\ s[4] = d /\ s[5] = e /\ s[6] = g /\ s[7] = h /\ s[8] = k /\
      s[9] = l /\ s[10] = m
    OBVIOUS
<1>1. ListedOnce(s, 10, {a, b, c, d, e, g, h, k, l, m})
  <2>1. \A i, j \in 1..10 : s[i] = s[j] => i = j
      BY DEF Apart10
  <2> HIDE DEF s
  <2>2. {a, b, c, d, e, g, h, k, l, m} = {s[i] : i \in 1..10}
      BY <1>2
  <2> QED
      BY <2>1, <2>2, 10 \in 1..10 DEF ListedOnce
<1> QED
    BY <1>1, <1>2, SumListed

\* The sums that StatementsAddUp compares, written out.
IncomeCodes == {"revenue", "investment_income", "non_op_income"}

LEMMA IncomeSum ==
    ASSUME NEW p, AllInt(p, IncomeCodes)
    PROVE  SumOf(p, IncomeCodes) = p["revenue"] + p["investment_income"] + p["non_op_income"]
<1>1. Apart3("revenue", "investment_income", "non_op_income")
  <2> DEFINE s == <<"revenue", "investment_income", "non_op_income">>
  <2>1. s[1] = "revenue" /\ s[2] = "investment_income" /\ s[3] = "non_op_income"
      OBVIOUS
  <2>2. \A i, j \in 1..3 : s[i] = s[j] => i = j
    <3> HIDE DEF s
    <3> QED  BY <2>1
  <2> QED
      BY <2>2 DEF Apart3
<1>2. SumOf(p, IncomeCodes) = SumOn(p, IncomeCodes)
    BY DEF SumOf, SumOn
<1>3. AllInt(p, {"revenue", "investment_income", "non_op_income"})
    BY DEF IncomeCodes
<1> QED
    BY <1>1, <1>2, <1>3, SumOf3 DEF IncomeCodes

ExpensesCodes == {"cost", "tax_surcharge", "selling_expense", "admin_expense", "finance_expense",
    "non_op_expense", "income_tax"}

LEMMA ExpensesSum ==
    ASSUME NEW p, AllInt(p, ExpensesCodes)
    PROVE  SumOf(p, ExpensesCodes) = p["cost"] + p["tax_surcharge"] + p["selling_expense"]
        + p["admin_expense"] + p["finance_expense"] + p["non_op_expense"] + p["income_tax"]
<1>1. Apart7("cost", "tax_surcharge", "selling_expense", "admin_expense", "finance_expense",
      "non_op_expense", "income_tax")
  <2> DEFINE s == <<"cost", "tax_surcharge", "selling_expense", "admin_expense", "finance_expense",
        "non_op_expense", "income_tax">>
  <2>1. s[1] = "cost" /\ s[2] = "tax_surcharge" /\ s[3] = "selling_expense" /\
        s[4] = "admin_expense" /\ s[5] = "finance_expense" /\ s[6] = "non_op_expense" /\
            s[7] = "income_tax"
      OBVIOUS
  <2>2. \A i, j \in 1..7 : s[i] = s[j] => i = j
    <3> HIDE DEF s
    <3> QED  BY <2>1
  <2> QED
      BY <2>2 DEF Apart7
<1>2. SumOf(p, ExpensesCodes) = SumOn(p, ExpensesCodes)
    BY DEF SumOf, SumOn
<1>3. AllInt(p, {"cost", "tax_surcharge", "selling_expense", "admin_expense", "finance_expense",
      "non_op_expense", "income_tax"})
    BY DEF ExpensesCodes
<1> QED
    BY <1>1, <1>2, <1>3, SumOf7 DEF ExpensesCodes

AssetsCodes == {"prepayments", "other_receivables", "inventory"}

LEMMA AssetsSum ==
    ASSUME NEW p, AllInt(p, AssetsCodes)
    PROVE  SumOf(p, AssetsCodes) = p["prepayments"] + p["other_receivables"] + p["inventory"]
<1>1. Apart3("prepayments", "other_receivables", "inventory")
  <2> DEFINE s == <<"prepayments", "other_receivables", "inventory">>
  <2>1. s[1] = "prepayments" /\ s[2] = "other_receivables" /\ s[3] = "inventory"
      OBVIOUS
  <2>2. \A i, j \in 1..3 : s[i] = s[j] => i = j
    <3> HIDE DEF s
    <3> QED  BY <2>1
  <2> QED
      BY <2>2 DEF Apart3
<1>2. SumOf(p, AssetsCodes) = SumOn(p, AssetsCodes)
    BY DEF SumOf, SumOn
<1>3. AllInt(p, {"prepayments", "other_receivables", "inventory"})
    BY DEF AssetsCodes
<1> QED
    BY <1>1, <1>2, <1>3, SumOf3 DEF AssetsCodes

EquityCodes == {"paid_in_capital", "capital_reserve", "surplus_reserve", "retained_earnings"}

LEMMA EquitySum ==
    ASSUME NEW p, AllInt(p, EquityCodes)
    PROVE  SumOf(p, EquityCodes) = p["paid_in_capital"] + p["capital_reserve"]
        + p["surplus_reserve"] + p["retained_earnings"]
<1>1. Apart4("paid_in_capital", "capital_reserve", "surplus_reserve", "retained_earnings")
  <2> DEFINE s == <<"paid_in_capital", "capital_reserve", "surplus_reserve", "retained_earnings">>
  <2>1. s[1] = "paid_in_capital" /\ s[2] = "capital_reserve" /\ s[3] = "surplus_reserve" /\
        s[4] = "retained_earnings"
      OBVIOUS
  <2>2. \A i, j \in 1..4 : s[i] = s[j] => i = j
    <3> HIDE DEF s
    <3> QED  BY <2>1
  <2> QED
      BY <2>2 DEF Apart4
<1>2. SumOf(p, EquityCodes) = SumOn(p, EquityCodes)
    BY DEF SumOf, SumOn
<1>3. AllInt(p, {"paid_in_capital", "capital_reserve", "surplus_reserve", "retained_earnings"})
    BY DEF EquityCodes
<1> QED
    BY <1>1, <1>2, <1>3, SumOf4 DEF EquityCodes

-----------------------------------------------------------------------------
\* The lines under some prefixes, and what the statement counts for them.
Under(lines, prefixes) == {l \in lines : \E p \in prefixes : IsPrefix(p, l.account)}
Reported(lines) == [l \in lines |-> ReportAmount(l)]
Total(lines, prefixes) == SumOn(Reported(lines), Under(lines, prefixes))

\* The amount of a row depends on its prefixes alone,
LEMMA RowTotal ==
    ASSUME NEW lines, NEW row
    PROVE  RowAmount(row, lines) = Total(lines, row.prefixes)
<1> DEFINE on == {l \in lines : MatchSelector(l.account, row)}
<1>1. RowAmount(row, lines) = SumFunction([l \in on |-> ReportAmount(l)])
    BY DEF RowAmount
<1>2. [l \in on |-> ReportAmount(l)] = [l \in on |-> Reported(lines)[l]]
    BY DEF Reported
<1>3. on = Under(lines, row.prefixes)
    BY DEF MatchSelector, Under
<1> QED
    BY <1>1, <1>2, <1>3 DEF SumOn, Total

\* and so do the amounts that the properties name by prefixes.
LEMMA AmountUnderTotal ==
    ASSUME NEW lines, NEW P
    PROVE  AmountUnder(P, lines) = Total(lines, P)
<1>1. Row("", P).prefixes = P
    BY DEF Row
<1> QED
    BY <1>1, RowTotal DEF AmountUnder

LEMMA AmountAtTotal ==
    ASSUME NEW lines, NEW A
    PROVE  AmountAt(A, lines) = SumOn(Reported(lines), {l \in lines : l.account \in A})
BY DEF AmountAt, SumOn, Reported

\* The lines are finitely many, with integers.
LEMMA UnderTyped ==
    ASSUME NEW lines, IsFiniteSet(lines), Columns(lines)
    PROVE  /\ \A P : Under(lines, P) \subseteq lines /\ IsFiniteSet(Under(lines, P))
           /\ \A l \in lines : Reported(lines)[l] \in Int
           /\ \A P : Total(lines, P) \in Int
<1>1. \A P : Under(lines, P) \in SUBSET lines
    BY DEF Under
<1>2. \A l \in lines : Reported(lines)[l] \in Int
    BY DEF Columns, Reported, ReportAmount
<1>3. \A P : IsFiniteSet(Under(lines, P))
    BY <1>1, FS_Subset
<1>4. ASSUME NEW P PROVE Total(lines, P) \in Int
  <2>1. IsFiniteSet(Under(lines, P)) /\ \A l \in Under(lines, P) : Reported(lines)[l] \in Int
      BY <1>1, <1>2, <1>3
  <2> HIDE DEF Under
  <2> QED
      BY <2>1, SumSteps DEF Total
<1> QED
    BY <1>1, <1>2, <1>3, <1>4

\* The rows of the profit statement by their prefixes,
LEMMA ProfitTotals ==
    ASSUME NEW lines, IsFiniteSet(lines), Columns(lines)
    PROVE  LET p == Statement(ProfitMapping, lines) IN
           /\ p["revenue"] = Total(lines, {<< 6 >>})
           /\ p["cost"] = Total(lines, {<<5,4,0,1>>, <<5,4,0,2>>})
           /\ p["tax_and_surcharge"] = Total(lines, {<<5,4,0,3>>})
           /\ p["selling_expense"] = Total(lines, {<<5,6,0,1>>})
           /\ p["admin_expense"] = Total(lines, {<<5,6,0,2>>})
           /\ p["finance_expense"] = Total(lines, {<<5,6,0,3>>})
           /\ p["investment_income"] = Total(lines, {<<6,1,1,1>>})
           /\ p["non_op_income"] = Total(lines, {<<6,3,0,1>>})
           /\ p["non_op_expense"] = Total(lines, {<<6,7,1,1>>})
           /\ p["income_tax"] = Total(lines, {<<6,8,0,1>>})
<1> DEFINE p == Statement(ProfitMapping, lines)
<1>1. \A k \in ProfitPlaces : p[ProfitMapping[k].code] = RowAmount(ProfitMapping[k], lines)
    BY ProfitRead
<1>2. \A k : RowAmount(ProfitMapping[k], lines) = Total(lines, ProfitMapping[k].prefixes)
    BY RowTotal
<1> HIDE DEF p
<1>3. \A k \in ProfitPlaces : p[ProfitMapping[k].code] = Total(lines, ProfitMapping[k].prefixes)
    BY <1>1, <1>2
<1> QED
    BY <1>3, ProfitCodes, ProfitRows DEF ProfitPlaces, p

\* and those of the balance sheet that it does not show.
LEMMA BalanceTotals ==
    ASSUME NEW lines, IsFiniteSet(lines), Columns(lines)
    PROVE  LET p == Statement(BalanceMapping, lines) IN
           /\ p["monetary_funds"] = Total(lines, {<<1,0,0,1>>, <<1,0,0,2>>})
           /\ p["accounts_receivable"] = Total(lines, {<<1,1,2,2>>, <<1,1,3,1>>, <<1,1,3,2>>})
           /\ p["fixed_assets"] = Total(lines, {<<1,6,0,1>>})
           /\ p["intangible_assets"] = Total(lines, {<<1,7,0,1>>})
           /\ p["short_term_borrow"] = Total(lines, {<<2,0,0,1>>})
           /\ p["accounts_payable"] = Total(lines, {<<2,2,0,2>>})
           /\ p["payroll_payable"] = Total(lines, {<<2,2,1,1>>})
           /\ p["taxes_payable"] = Total(lines, {<<2,2,2,1>>})
           /\ p["long_term_borrow"] = Total(lines, {<<2,5,0,1>>})
<1> DEFINE p == Statement(BalanceMapping, lines)
<1>1. \A k \in BalancePlaces : p[BalanceMapping[k].code] = RowAmount(BalanceMapping[k], lines)
    BY BalanceRead
<1>2. \A k : RowAmount(BalanceMapping[k], lines) = Total(lines, BalanceMapping[k].prefixes)
    BY RowTotal
<1> HIDE DEF p
<1>3. \A k \in BalancePlaces : p[BalanceMapping[k].code] = Total(lines, BalanceMapping[k].prefixes)
    BY <1>1, <1>2
<1>4. /\ 1 \in BalancePlaces /\ 2 \in BalancePlaces /\ 7 \in BalancePlaces /\ 8 \in BalancePlaces
      /\ 11 \in BalancePlaces /\ 12 \in BalancePlaces /\ 14 \in BalancePlaces
      /\ 15 \in BalancePlaces /\ 17 \in BalancePlaces
    BY DEF BalancePlaces
<1>5. /\ p["monetary_funds"] = Total(lines, BalanceMapping[1].prefixes)
      /\ p["accounts_receivable"] = Total(lines, BalanceMapping[2].prefixes)
      /\ p["fixed_assets"] = Total(lines, BalanceMapping[7].prefixes)
      /\ p["intangible_assets"] = Total(lines, BalanceMapping[8].prefixes)
      /\ p["short_term_borrow"] = Total(lines, BalanceMapping[11].prefixes)
      /\ p["accounts_payable"] = Total(lines, BalanceMapping[12].prefixes)
      /\ p["payroll_payable"] = Total(lines, BalanceMapping[14].prefixes)
      /\ p["taxes_payable"] = Total(lines, BalanceMapping[15].prefixes)
      /\ p["long_term_borrow"] = Total(lines, BalanceMapping[17].prefixes)
    BY <1>3, <1>4, BalanceCodes
<1> QED
    BY <1>5, BalanceRows DEF p

-----------------------------------------------------------------------------
\* What the answers show of the statements: a field for each code of the profit statement
\* but that of the surcharges,
LEMMA FieldsRead ==
    ASSUME NEW lines, IsFiniteSet(lines), Columns(lines)
    PROVE  LET p == Statement(ProfitMapping, lines)
               f == BuildProfitStatement(lines).fields IN
           /\ BuildProfitStatement(lines).rows = p
           /\ \A c \in {"revenue", "cost", "selling_expense", "admin_expense", "finance_expense",
                        "investment_income", "non_op_income", "non_op_expense", "income_tax",
                        "net_profit"} : f[c] = p[c]
           /\ f["tax_surcharge"] = 0
<1> DEFINE p == Statement(ProfitMapping, lines)
           f == BuildProfitStatement(lines).fields
           R == {"revenue", "cost", "selling_expense", "admin_expense", "finance_expense",
                 "investment_income", "non_op_income", "non_op_expense", "income_tax", "net_profit"}
<1>1. DOMAIN p = {ProfitMapping[k].code : k \in 1..13}
    BY ProfitRead DEF Codes
<1>2. BuildProfitStatement(lines).rows = p
      /\ f = [c \in ProfitFields |-> IF c \in DOMAIN p THEN p[c] ELSE 0]
    BY DEF BuildProfitStatement
<1> HIDE DEF p, f
<1>3. \A c \in R : c \in ProfitFields /\ \E k \in 1..13 : ProfitMapping[k].code = c
  <2>1. R \subseteq ProfitFields
      BY DEF ProfitFields
  <2>2. \A k \in {1, 2, 4, 5, 6, 7, 9, 10, 12, 13} : k \in 1..13
      OBVIOUS
  <2>3. \A c \in R : \E k \in {1, 2, 4, 5, 6, 7, 9, 10, 12, 13} : ProfitMapping[k].code = c
      BY ProfitCodes
  <2> HIDE DEF R
  <2> QED
      BY <2>1, <2>2, <2>3
<1>4. "tax_surcharge" \in ProfitFields /\ "tax_surcharge" \notin DOMAIN p
  <2>1. \A k \in ProfitPlaces : ProfitMapping[k].code # "tax_surcharge"
      BY ProfitCodes DEF ProfitPlaces
  <2>2. \A k \in {8, 11, 13} : ProfitMapping[k].code # "tax_surcharge"
      BY ProfitCodes
  <2> QED
      BY <1>1, <2>1, <2>2, ProfitCases DEF ProfitFields
<1>5. \A c \in R : f[c] = p[c]
  <2> HIDE DEF R
  <2> QED  BY <1>1, <1>2, <1>3
<1>6. f["tax_surcharge"] = 0
    BY <1>2, <1>4
<1> QED
    BY <1>2, <1>5, <1>6 DEF p, f

\* and of the balance sheet eight rows, besides the totals.
LEMMA SectionsRead ==
    ASSUME NEW lines, IsFiniteSet(lines), Columns(lines)
    PROVE  LET p == Statement(BalanceMapping, lines)  b == BuildBalanceSheet(lines) IN
           /\ \A c \in {"prepayments", "other_receivables", "inventory"} : b.assets[c] = p[c]
           /\ b.liabilities["advance_receipts"] = p["advance_receipts"]
           /\ \A c \in {"paid_in_capital", "capital_reserve", "surplus_reserve",
                        "retained_earnings"} : b.equity[c] = p[c]
           /\ b.totalAssets = p["total_assets"] /\ b.totalLiabilities = p["total_liabilities"]
           /\ b.totalEquity = p["total_equity"] /\ b.totalLiabEquity = p["total_liab_equity"]
<1> DEFINE p == Statement(BalanceMapping, lines)
           b == BuildBalanceSheet(lines)
           Section(codes) == [c \in codes \cap DOMAIN p |-> p[c]]
<1>1. DOMAIN p = {BalanceMapping[k].code : k \in 1..25}
    BY BalanceRead DEF Codes
<1>2. /\ b.assets = Section(SectionOrder.assets)
      /\ b.liabilities = Section(SectionOrder.liabilities)
      /\ b.equity = Section(SectionOrder.equity)
      /\ b.totalAssets = p["total_assets"] /\ b.totalLiabilities = p["total_liabilities"]
      /\ b.totalEquity = p["total_equity"] /\ b.totalLiabEquity = p["total_liab_equity"]
    BY DEF BuildBalanceSheet
<1> HIDE DEF p, b
<1>3. \A codes : \A c \in codes : (\E k \in 1..25 : BalanceMapping[k].code = c) =>
          Section(codes)[c] = p[c]
    BY <1>1
<1>4. \A c \in {"prepayments", "other_receivables", "inventory"} :
          c \in SectionOrder.assets /\ \E k \in 1..25 : BalanceMapping[k].code = c
  <2>1. {3, 4, 5} \subseteq 1..25
      OBVIOUS
  <2>2. \A c \in {"prepayments", "other_receivables", "inventory"} :
            \E k \in {3, 4, 5} : BalanceMapping[k].code = c
      BY BalanceCodes
  <2>3. {"prepayments", "other_receivables", "inventory"} \subseteq SectionOrder.assets
      BY DEF SectionOrder
  <2> QED
      BY <2>1, <2>2, <2>3
<1>5. "advance_receipts" \in SectionOrder.liabilities
      /\ \E k \in 1..25 : BalanceMapping[k].code = "advance_receipts"
  <2>1. 13 \in 1..25 /\ BalanceMapping[13].code = "advance_receipts"
      BY BalanceCodes
  <2>2. "advance_receipts" \in SectionOrder.liabilities
      BY DEF SectionOrder
  <2> QED
      BY <2>1, <2>2
<1>6. \A c \in {"paid_in_capital", "capital_reserve", "surplus_reserve", "retained_earnings"} :
          c \in SectionOrder.equity /\ \E k \in 1..25 : BalanceMapping[k].code = c
  <2>1. {20, 21, 22, 23} \subseteq 1..25
      OBVIOUS
  <2>2. \A c \in {"paid_in_capital", "capital_reserve", "surplus_reserve", "retained_earnings"} :
            \E k \in {20, 21, 22, 23} : BalanceMapping[k].code = c
      BY BalanceCodes
  <2>3. {"paid_in_capital", "capital_reserve", "surplus_reserve", "retained_earnings"}
            \subseteq SectionOrder.equity
      BY DEF SectionOrder
  <2> QED
      BY <2>1, <2>2, <2>3
<1> HIDE DEF Section
<1>7. \A c \in {"prepayments", "other_receivables", "inventory"} : b.assets[c] = p[c]
    BY <1>2, <1>3, <1>4
<1>8. b.liabilities["advance_receipts"] = p["advance_receipts"]
    BY <1>2, <1>3, <1>5
<1>9. \A c \in {"paid_in_capital", "capital_reserve", "surplus_reserve", "retained_earnings"} :
          b.equity[c] = p[c]
    BY <1>2, <1>3, <1>6
<1> QED
    BY <1>2, <1>7, <1>8, <1>9 DEF p, b

\* Both statements add up, whatever was posted.
LEMMA StatementsDoAddUp == ASSUME VoucherInv PROVE StatementsAddUp
<1> DEFINE lines == PostedLines
           p == Statement(ProfitMapping, lines)
           f == BuildProfitStatement(lines).fields
           s == Statement(BalanceMapping, lines)
           b == BuildBalanceSheet(lines)
<1>1. IsFiniteSet(lines) /\ Columns(lines)
    BY PostedLinesFinite, PostedLinesTyped DEF Columns
<1>2. \A P : PostedUnder(P) = Total(lines, P)
    BY AmountUnderTotal DEF PostedUnder
<1> HIDE DEF lines
<1>3. f["net_profit"] = SumOf(f, IncomeCodes) - SumOf(f, ExpensesCodes) - p["tax_and_surcharge"]
  <2>1. /\ p["revenue"] \in Int /\ p["cost"] \in Int /\ p["tax_and_surcharge"] \in Int
        /\ p["selling_expense"] \in Int /\ p["admin_expense"] \in Int
        /\ p["finance_expense"] \in Int /\ p["investment_income"] \in Int
        /\ p["non_op_income"] \in Int /\ p["non_op_expense"] \in Int /\ p["income_tax"] \in Int
      BY <1>1, ProfitRead
  <2>2. p["net_profit"] = p["revenue"] - p["cost"] - p["tax_and_surcharge"] - p["selling_expense"]
            - p["admin_expense"] - p["finance_expense"] + p["investment_income"]
            + p["non_op_income"] - p["non_op_expense"] - p["income_tax"]
      BY <1>1, ProfitRead
  <2>3. /\ f["revenue"] = p["revenue"] /\ f["cost"] = p["cost"]
        /\ f["selling_expense"] = p["selling_expense"] /\ f["admin_expense"] = p["admin_expense"]
        /\ f["finance_expense"] = p["finance_expense"]
        /\ f["investment_income"] = p["investment_income"]
        /\ f["non_op_income"] = p["non_op_income"] /\ f["non_op_expense"] = p["non_op_expense"]
        /\ f["income_tax"] = p["income_tax"] /\ f["net_profit"] = p["net_profit"]
        /\ f["tax_surcharge"] = 0
      BY <1>1, FieldsRead
  <2> HIDE DEF p, f
  <2>4. AllInt(f, IncomeCodes) /\ AllInt(f, ExpensesCodes)
      BY <2>1, <2>3 DEF AllInt, IncomeCodes, ExpensesCodes
  <2>5. SumOf(f, IncomeCodes) = f["revenue"] + f["investment_income"] + f["non_op_income"]
      BY <2>4, IncomeSum
  <2>6. SumOf(f, ExpensesCodes) =
            f["cost"] + f["tax_surcharge"] + f["selling_expense"] + f["admin_expense"]
            + f["finance_expense"] + f["non_op_expense"] + f["income_tax"]
      BY <2>4, ExpensesSum
  <2> QED
      BY <2>1, <2>2, <2>3, <2>5, <2>6
<1>4. BuildProfitStatement(lines).rows = p
    BY <1>1, FieldsRead
<1>5. /\ \A c \in {"prepayments", "other_receivables", "inventory"} : b.assets[c] = s[c]
      /\ b.liabilities["advance_receipts"] = s["advance_receipts"]
      /\ \A c \in {"paid_in_capital", "capital_reserve", "surplus_reserve", "retained_earnings"} :
            b.equity[c] = s[c]
      /\ b.totalAssets = s["total_assets"] /\ b.totalLiabilities = s["total_liabilities"]
      /\ b.totalEquity = s["total_equity"] /\ b.totalLiabEquity = s["total_liab_equity"]
    BY <1>1, SectionsRead
<1>6. b.totalAssets = SumOf(b.assets, AssetsCodes) + Total(lines, {<<1,0,0,1>>, <<1,0,0,2>>})
          + Total(lines, {<<1,1,2,2>>, <<1,1,3,1>>, <<1,1,3,2>>})
          + Total(lines, {<<1,6,0,1>>}) + Total(lines, {<<1,7,0,1>>})
  <2>1. /\ s["monetary_funds"] = Total(lines, {<<1,0,0,1>>, <<1,0,0,2>>})
        /\ s["accounts_receivable"] = Total(lines, {<<1,1,2,2>>, <<1,1,3,1>>, <<1,1,3,2>>})
        /\ s["fixed_assets"] = Total(lines, {<<1,6,0,1>>})
        /\ s["intangible_assets"] = Total(lines, {<<1,7,0,1>>})
      BY <1>1, BalanceTotals
  <2>2. /\ s["monetary_funds"] \in Int /\ s["accounts_receivable"] \in Int
        /\ s["prepayments"] \in Int /\ s["other_receivables"] \in Int /\ s["inventory"] \in Int
        /\ s["fixed_assets"] \in Int /\ s["intangible_assets"] \in Int
      BY <1>1, BalanceRead
  <2>3. s["total_assets"] = (s["monetary_funds"] + s["accounts_receivable"] + s["prepayments"]
            + s["other_receivables"] + s["inventory"]) + (s["fixed_assets"] + s["intangible_assets"])
      BY <1>1, BalanceRead
  <2> HIDE DEF s, b
  <2>4. AllInt(b.assets, AssetsCodes)
      BY <1>5, <2>2 DEF AllInt, AssetsCodes
  <2>5. SumOf(b.assets, AssetsCodes) = b.assets["prepayments"] + b.assets["other_receivables"]
            + b.assets["inventory"]
      BY <2>4, AssetsSum
  <2>6. SumOf(b.assets, AssetsCodes) = s["prepayments"] + s["other_receivables"] + s["inventory"]
      BY <1>5, <2>5
  <2> QED
      BY <1>5, <2>1, <2>2, <2>3, <2>6
<1>7. b.totalLiabilities = b.liabilities["advance_receipts"]
          + Total(lines, {<<2,0,0,1>>}) + Total(lines, {<<2,2,0,2>>}) + Total(lines, {<<2,2,1,1>>})
          + Total(lines, {<<2,2,2,1>>}) + Total(lines, {<<2,5,0,1>>})
  <2>1. /\ s["short_term_borrow"] = Total(lines, {<<2,0,0,1>>})
        /\ s["accounts_payable"] = Total(lines, {<<2,2,0,2>>})
        /\ s["payroll_payable"] = Total(lines, {<<2,2,1,1>>})
        /\ s["taxes_payable"] = Total(lines, {<<2,2,2,1>>})
        /\ s["long_term_borrow"] = Total(lines, {<<2,5,0,1>>})
      BY <1>1, BalanceTotals
  <2>2. /\ s["short_term_borrow"] \in Int /\ s["accounts_payable"] \in Int
        /\ s["advance_receipts"] \in Int /\ s["payroll_payable"] \in Int
        /\ s["taxes_payable"] \in Int /\ s["long_term_borrow"] \in Int
      BY <1>1, BalanceRead
  <2>3. s["total_liabilities"] = (s["short_term_borrow"] + s["accounts_payable"]
            + s["advance_receipts"] + s["payroll_payable"] + s["taxes_payable"])
            + s["long_term_borrow"]
      BY <1>1, BalanceRead
  <2> HIDE DEF s, b
  <2> QED
      BY <1>5, <2>1, <2>2, <2>3
<1>8. b.totalEquity = SumOf(b.equity, EquityCodes)
  <2>1. /\ s["paid_in_capital"] \in Int /\ s["capital_reserve"] \in Int
        /\ s["surplus_reserve"] \in Int /\ s["retained_earnings"] \in Int
        /\ s["total_equity"] = s["paid_in_capital"] + s["capital_reserve"] + s["surplus_reserve"]
               + s["retained_earnings"]
      BY <1>1, BalanceRead
  <2> HIDE DEF s, b
  <2>2. AllInt(b.equity, EquityCodes)
      BY <1>5, <2>1 DEF AllInt, EquityCodes
  <2>3. SumOf(b.equity, EquityCodes) = b.equity["paid_in_capital"] + b.equity["capital_reserve"]
            + b.equity["surplus_reserve"] + b.equity["retained_earnings"]
      BY <2>2, EquitySum
  <2> QED
      BY <1>5, <2>1, <2>3
<1>9. b.totalLiabEquity = b.totalLiabilities + b.totalEquity
    BY <1>1, <1>5, BalanceRead
<1> HIDE DEF f, b, p, s
<1> QED
    BY <1>2, <1>3, <1>4, <1>6, <1>7, <1>8, <1>9
        DEF StatementsAddUp, p, f, b, lines, IncomeCodes, ExpensesCodes, AssetsCodes, EquityCodes

\* StatementsAddUp: the subtotals of subtotals that BuildProfitStatement and BuildBalanceSheet
\* evaluate in display order are the signed sums of what the answers show and, where the
\* answers leave a row out, of what was posted to its accounts.
THEOREM StatementsAlwaysAddUp == VoucherSpec => []StatementsAddUp
<1>1. VoucherInv => StatementsAddUp
    BY StatementsDoAddUp
<1> QED
    BY <1>1, VoucherInvAlways, PTL

-----------------------------------------------------------------------------
\* Lines that one row each of a mapping selects are counted once by its rows.
LEMMA RowsCountOnce ==
    ASSUME NEW lines, IsFiniteSet(lines), Columns(lines), NEW part \in SUBSET lines,
           NEW mapping, NEW places, IsFiniteSet(places),
           \A l \in part : \E k \in places :
               \A r \in places : MatchSelector(l.account, mapping[r]) <=> r = k,
           \A l \in lines \ part : \A r \in places : ~MatchSelector(l.account, mapping[r])
    PROVE  SumOn(Reported(lines), part) = SumOn([k \in places |-> RowAmount(mapping[k], lines)], places)
<1> DEFINE f == Reported(lines)
           row == [l \in part |->
                      CHOOSE k \in places : \A r \in places : MatchSelector(l.account, mapping[r]) <=> r = k]
<1>1. \A l \in lines : f[l] \in Int
    BY UnderTyped
<1>2. IsFiniteSet(part)
    BY FS_Subset
<1>3. \A l \in part : row[l] \in places
                      /\ \A r \in places : MatchSelector(l.account, mapping[r]) <=> r = row[l]
    OBVIOUS
<1> HIDE DEF f, row
<1>4. SumOn(f, part) = SumOn([k \in places |-> SumOn(f, {l \in part : row[l] = k})], places)
    BY <1>1, <1>2, <1>3, SumFibres
<1>5. ASSUME NEW k \in places
      PROVE  SumOn(f, {l \in part : row[l] = k}) = RowAmount(mapping[k], lines)
  <2>1. {l \in part : row[l] = k} = Under(lines, mapping[k].prefixes)
      BY <1>3 DEF Under, MatchSelector
  <2> QED
      BY <2>1, RowTotal DEF Total, f
<1>6. [k \in places |-> SumOn(f, {l \in part : row[l] = k})]
          = [k \in places |-> RowAmount(mapping[k], lines)]
    BY <1>5
<1> QED
    BY <1>4, <1>6 DEF f

\* The rows of the balance sheet, and what its two totals make of them.
LEMMA BalanceRowsTotal ==
    ASSUME NEW lines, IsFiniteSet(lines), Columns(lines)
    PROVE  LET b == BuildBalanceSheet(lines) IN
           /\ SumOn([k \in BalancePlaces |-> RowAmount(BalanceMapping[k], lines)], BalancePlaces)
                  = b.totalAssets + b.totalLiabEquity
           /\ b.totalAssets \in Int /\ b.totalLiabEquity \in Int
<1> DEFINE s == Statement(BalanceMapping, lines)
           g == [k \in BalancePlaces |-> RowAmount(BalanceMapping[k], lines)]
           A == {1, 2, 3, 4, 5, 7, 8}
           S == {11, 12, 13, 14, 15, 17, 20, 21, 22, 23}
<1>1. BalancePlaces = A \cup S /\ A \cap S = {}
    BY DEF BalancePlaces
<1>2. \A k \in BalancePlaces : g[k] = s[BalanceMapping[k].code] /\ g[k] \in Int
    BY BalanceRead, RowAmountIsInt
<1>3. IsFiniteSet(A) /\ IsFiniteSet(S)
  <2>1. A \in SUBSET (1..25) /\ S \in SUBSET (1..25)
      OBVIOUS
  <2>2. IsFiniteSet(1..25)
      BY FS_Interval, 1 \in Int, 25 \in Int
  <2> HIDE DEF A, S
  <2> QED
      BY <2>1, <2>2, FS_Subset
<1>4. AllInt(g, A) /\ AllInt(g, S)
  <2> HIDE DEF g, A, S
  <2> QED  BY <1>1, <1>2 DEF AllInt
<1> HIDE DEF g
<1>5. SumOn(g, A \cup S) = SumOn(g, A) + SumOn(g, S)
  <2> HIDE DEF A, S
  <2> QED  BY <1>1, <1>3, <1>4, SumUnion DEF AllInt
<1>6. SumOn(g, A) = g[1] + g[2] + g[3] + g[4] + g[5] + g[7] + g[8]
  <2>1. Apart7(1, 2, 3, 4, 5, 7, 8)
    <3> DEFINE t == <<1, 2, 3, 4, 5, 7, 8>>
    <3>1. t[1] = 1 /\ t[2] = 2 /\ t[3] = 3 /\ t[4] = 4 /\ t[5] = 5 /\ t[6] = 7 /\ t[7] = 8
        OBVIOUS
    <3>2. \A i, j \in 1..7 : t[i] = t[j] => i = j
      <4> HIDE DEF t
      <4> QED  BY <3>1
    <3> QED
        BY <3>2 DEF Apart7
  <2> QED
      BY <1>4, <2>1, SumOf7
<1>7. SumOn(g, S) = g[11] + g[12] + g[13] + g[14] + g[15] + g[17] + g[20] + g[21] + g[22] + g[23]
  <2>1. Apart10(11, 12, 13, 14, 15, 17, 20, 21, 22, 23)
    <3> DEFINE t == <<11, 12, 13, 14, 15, 17, 20, 21, 22, 23>>
    <3>1. t[1] = 11 /\ t[2] = 12 /\ t[3] = 13 /\ t[4] = 14 /\ t[5] = 15 /\ t[6] = 17 /\ t[7] = 20 /\
          t[8] = 21 /\ t[9] = 22 /\ t[10] = 23
        OBVIOUS
    <3>2. \A i, j \in 1..10 : t[i] = t[j] => i = j
      <4> HIDE DEF t
      <4> QED  BY <3>1
    <3> QED
        BY <3>2 DEF Apart10
  <2> QED
      BY <1>4, <2>1, SumOf10
<1>8. \A k \in BalancePlaces : g[k] \in Int
    BY <1>2
<1>9. s["total_assets"] = g[1] + g[2] + g[3] + g[4] + g[5] + g[7] + g[8]
  <2>1. /\ g[1] = s["monetary_funds"] /\ g[2] = s["accounts_receivable"] /\ g[3] = s["prepayments"]
        /\ g[4] = s["other_receivables"] /\ g[5] = s["inventory"] /\ g[7] = s["fixed_assets"]
        /\ g[8] = s["intangible_assets"]
    <3> HIDE DEF s
    <3> QED  BY <1>1, <1>2, BalanceCodes
  <2>2. s["total_assets"] = (s["monetary_funds"] + s["accounts_receivable"] + s["prepayments"]
            + s["other_receivables"] + s["inventory"]) + (s["fixed_assets"] + s["intangible_assets"])
      BY BalanceRead
  <2>3. \A k \in A : g[k] \in Int
      BY <1>4 DEF AllInt
  <2> HIDE DEF s
  <2> QED
      BY <2>1, <2>2, <2>3
<1>10. s["total_liab_equity"] =
           g[11] + g[12] + g[13] + g[14] + g[15] + g[17] + g[20] + g[21] + g[22] + g[23]
  <2>1. /\ g[11] = s["short_term_borrow"] /\ g[12] = s["accounts_payable"]
        /\ g[13] = s["advance_receipts"] /\ g[14] = s["payroll_payable"]
        /\ g[15] = s["taxes_payable"] /\ g[17] = s["long_term_borrow"]
        /\ g[20] = s["paid_in_capital"] /\ g[21] = s["capital_reserve"]
        /\ g[22] = s["surplus_reserve"] /\ g[23] = s["retained_earnings"]
    <3> HIDE DEF s
    <3> QED  BY <1>1, <1>2, BalanceCodes
  <2>2. s["total_liab_equity"] =
            ((s["short_term_borrow"] + s["accounts_payable"] + s["advance_receipts"]
              + s["payroll_payable"] + s["taxes_payable"]) + s["long_term_borrow"])
            + (s["paid_in_capital"] + s["capital_reserve"] + s["surplus_reserve"]
               + s["retained_earnings"])
      BY BalanceRead
  <2>3. \A k \in S : g[k] \in Int
      BY <1>4 DEF AllInt
  <2> HIDE DEF s
  <2> QED
      BY <2>1, <2>2, <2>3
<1>11. /\ BuildBalanceSheet(lines).totalAssets = s["total_assets"]
       /\ BuildBalanceSheet(lines).totalLiabEquity = s["total_liab_equity"]
    BY SectionsRead
<1>12. s["total_assets"] \in Int /\ s["total_liab_equity"] \in Int
    BY BalanceRead
<1> HIDE DEF s, A, S
<1> QED
    BY <1>1, <1>5, <1>6, <1>7, <1>9, <1>10, <1>11, <1>12 DEF g

\* The sum of the rows that the profit statement lists.
LEMMA ProfitRowsTotal ==
    ASSUME NEW lines, IsFiniteSet(lines), Columns(lines)
    PROVE  SumOf(BuildProfitStatement(lines).rows, ProfitRowCodes)
               = SumOn([k \in ProfitPlaces |-> RowAmount(ProfitMapping[k], lines)], ProfitPlaces)
<1> DEFINE p == BuildProfitStatement(lines).rows
           code == [k \in ProfitPlaces |-> ProfitMapping[k].code]
<1>1. \A k \in ProfitPlaces : p[code[k]] = RowAmount(ProfitMapping[k], lines) /\ p[code[k]] \in Int
  <2>1. p = Statement(ProfitMapping, lines)
      BY FieldsRead
  <2> HIDE DEF p
  <2> QED
      BY <2>1, ProfitRead, RowAmountIsInt
<1> HIDE DEF p
<1>2. \A j, k \in ProfitPlaces : code[j] = code[k] => j = k
    BY ProfitCodes DEF ProfitPlaces
<1>3. ProfitRowCodes = {code[k] : k \in ProfitPlaces}
    BY ProfitCodes DEF ProfitRowCodes, ProfitPlaces
<1>4. IsFiniteSet(ProfitPlaces)
  <2>1. ProfitPlaces \in SUBSET (1..13)
      BY DEF ProfitPlaces
  <2>2. IsFiniteSet(1..13)
      BY FS_Interval, 1 \in Int, 13 \in Int
  <2> QED
      BY <2>1, <2>2, FS_Subset
<1> HIDE DEF code
<1>5. SumOn(p, {code[k] : k \in ProfitPlaces}) = SumOn([k \in ProfitPlaces |-> p[code[k]]], ProfitPlaces)
    BY <1>1, <1>2, <1>4, SumRenamed
<1>6. [k \in ProfitPlaces |-> p[code[k]]] = [k \in ProfitPlaces |-> RowAmount(ProfitMapping[k], lines)]
    BY <1>1
<1>7. SumOf(p, ProfitRowCodes) = SumOn(p, ProfitRowCodes)
    BY DEF SumOf, SumOn
<1> QED
    BY <1>3, <1>5, <1>6, <1>7 DEF p

\* A subtotal selects no account.
LEMMA SubtotalsSelectNothing ==
    \A a : /\ \A k \in {8, 11, 13} : ~MatchSelector(a, ProfitMapping[k])
           /\ \A k \in {6, 9, 10, 16, 18, 19, 24, 25} : ~MatchSelector(a, BalanceMapping[k])
BY ProfitRows, BalanceRows DEF MatchSelector

\* On accounts that are reported once the two statements together count every line once.
LEMMA CountedOnce ==
    ASSUME NEW lines, IsFiniteSet(lines), Columns(lines), \A l \in lines : ReportedOnce(l.account)
    PROVE  LET p == BuildProfitStatement(lines)  b == BuildBalanceSheet(lines) IN
           SumFunction([l \in lines |-> ReportAmount(l)])
               = SumOf(p.rows, ProfitRowCodes) + b.totalAssets + b.totalLiabEquity
<1> DEFINE f == Reported(lines)
           A == {l \in lines : BalanceRowsOf(l.account) = {}}
           B == lines \ A
<1>1. A \in SUBSET lines /\ B \in SUBSET lines /\ A \cup B = lines /\ A \cap B = {} /\ lines \ B = A
    OBVIOUS
<1>2. IsFiniteSet(A) /\ IsFiniteSet(B) /\ \A l \in lines : f[l] \in Int
  <2>1. \A l \in lines : f[l] \in Int
      BY UnderTyped
  <2> HIDE DEF A, B
  <2> QED
      BY <1>1, <2>1, FS_Subset
<1>3. \A l \in A : \E k \in ProfitPlaces :
          \A r \in ProfitPlaces : MatchSelector(l.account, ProfitMapping[r]) <=> r = k
  <2> SUFFICES ASSUME NEW l \in A
               PROVE  \E k \in ProfitPlaces :
                          \A r \in ProfitPlaces : MatchSelector(l.account, ProfitMapping[r]) <=> r = k
      OBVIOUS
  <2>1. PICK k : ProfitRowsOf(l.account) = {k}
      BY DEF ReportedOnce
  <2>2. k \in 1..13 /\ MatchSelector(l.account, ProfitMapping[k])
      BY <2>1, ProfitCodes DEF ProfitRowsOf
  <2>3. k \in ProfitPlaces
      BY <2>2, SubtotalsSelectNothing, ProfitCases
  <2>4. \A r \in ProfitPlaces : r \in 1..13
      BY ProfitCases
  <2> QED
      BY <2>1, <2>2, <2>3, <2>4, ProfitCodes DEF ProfitRowsOf
<1>4. \A l \in B : \E k \in BalancePlaces :
          \A r \in BalancePlaces : MatchSelector(l.account, BalanceMapping[r]) <=> r = k
  <2> SUFFICES ASSUME NEW l \in B
               PROVE  \E k \in BalancePlaces :
                          \A r \in BalancePlaces : MatchSelector(l.account, BalanceMapping[r]) <=> r = k
      OBVIOUS
  <2>1. PICK k : BalanceRowsOf(l.account) = {k}
      BY DEF ReportedOnce
  <2>2. k \in 1..25 /\ MatchSelector(l.account, BalanceMapping[k])
      BY <2>1, BalanceCodes DEF BalanceRowsOf
  <2>3. k \in BalancePlaces
      BY <2>2, SubtotalsSelectNothing, BalanceCases
  <2>4. \A r \in BalancePlaces : r \in 1..25
      BY BalanceCases
  <2> QED
      BY <2>1, <2>2, <2>3, <2>4, BalanceCodes DEF BalanceRowsOf
<1>5. \A l \in B : \A r \in ProfitPlaces : ~MatchSelector(l.account, ProfitMapping[r])
  <2>1. \A l \in B : ProfitRowsOf(l.account) = {}
      BY DEF ReportedOnce
  <2>2. \A r \in ProfitPlaces : r \in DOMAIN ProfitMapping
      BY ProfitCases, ProfitCodes
  <2> HIDE DEF A, B
  <2> QED
      BY <2>1, <2>2 DEF ProfitRowsOf
<1>6. \A l \in A : \A r \in BalancePlaces : ~MatchSelector(l.account, BalanceMapping[r])
  <2>1. \A r \in BalancePlaces : r \in DOMAIN BalanceMapping
      BY BalanceCases, BalanceCodes
  <2> QED
      BY <2>1 DEF BalanceRowsOf
<1>7. IsFiniteSet(ProfitPlaces) /\ IsFiniteSet(BalancePlaces)
  <2>1. ProfitPlaces \in SUBSET (1..13) /\ BalancePlaces \in SUBSET (1..25)
      BY ProfitCases, BalanceCases
  <2>2. IsFiniteSet(1..13) /\ IsFiniteSet(1..25)
      BY FS_Interval, 1 \in Int, 13 \in Int, 25 \in Int
  <2> QED
      BY <2>1, <2>2, FS_Subset
<1>8. lines \ A = B
    OBVIOUS
<1>9. SumFunction([l \in lines |-> ReportAmount(l)]) = SumOn(f, lines)
    BY DEF SumOn, Reported
<1> HIDE DEF f, A, B
<1>10. SumOn(f, lines) = SumOn(f, A) + SumOn(f, B)
    BY <1>1, <1>2, SumUnion
<1>11. SumOn(f, A) = SumOn([k \in ProfitPlaces |-> RowAmount(ProfitMapping[k], lines)], ProfitPlaces)
    BY <1>1, <1>3, <1>5, <1>7, <1>8, RowsCountOnce DEF f
<1>12. SumOn(f, B) =
           SumOn([k \in BalancePlaces |-> RowAmount(BalanceMapping[k], lines)], BalancePlaces)
    BY <1>1, <1>4, <1>6, <1>7, RowsCountOnce DEF f
<1>13. SumOn(f, A) \in Int
    BY <1>1, <1>2, SumSteps
<1> QED
    BY <1>9, <1>10, <1>11, <1>12, <1>13, ProfitRowsTotal, BalanceRowsTotal

\* A posted line of an approval is on such an account.
LEMMA CountsOnce == ASSUME VoucherInv PROVE StatementsCountOnce
<1> DEFINE lines == PostedLines
<1>1. IsFiniteSet(lines) /\ Columns(lines)
    BY PostedLinesFinite, PostedLinesTyped DEF Columns
<1>2. ASSUME \A v \in PostedEntries : voucher[v].kind = "approval", NEW l \in lines
      PROVE  ReportedOnce(l.account)
  <2>1. PICK v \in Posted : \E k \in DOMAIN voucher[v].lines : l = LineAt(v, k)
      BY DEF PostedLines, Posted, LineAt
  <2>2. PICK k \in DOMAIN voucher[v].lines : l = LineAt(v, k)
      BY <2>1
  <2>3. v \in DOMAIN voucher /\ voucher[v].kind = "approval"
      BY <1>2 DEF Posted, PostedEntries
  <2>4. ReportedOnce(voucher[v].lines[k].account)
      BY <2>3, ApprovalReportedOnce
  <2>5. l.account = voucher[v].lines[k].account
      BY <2>2 DEF LineAt
  <2> QED
      BY <2>4, <2>5
<1> HIDE DEF lines
<1>3. (\A v \in PostedEntries : voucher[v].kind = "approval") =>
          SumFunction([l \in lines |-> ReportAmount(l)])
          = SumOf(BuildProfitStatement(lines).rows, ProfitRowCodes)
            + BuildBalanceSheet(lines).totalAssets + BuildBalanceSheet(lines).totalLiabEquity
    BY <1>1, <1>2, CountedOnce
<1> QED
    BY <1>3 DEF StatementsCountOnce, lines

\* StatementsCountOnce: while all that is posted comes from approvals, no amount is missing
\* from the two statements of engine/report.go and none is in two of their rows.
THEOREM StatementsAlwaysCountOnce == VoucherSpec => []StatementsCountOnce
<1>1. VoucherInv => StatementsCountOnce
    BY CountsOnce
<1> QED
    BY <1>1, VoucherInvAlways, PTL

-----------------------------------------------------------------------------
\* Prefixes of any account.
LEMMA PrefixOfAny ==
    ASSUME NEW a \in Seq(Nat)
    PROVE  /\ \A x, y, z, w \in Nat : IsPrefix(<<x, y, z, w>>, a) <=> Len(a) >= 4 /\ Code(a, x, y, z, w)
           /\ \A x \in Nat : IsPrefix(<<x>>, a) <=> Len(a) >= 1 /\ a[1] = x
           /\ \A x, y \in Nat : IsPrefix(<<x, y>>, a) <=> Len(a) >= 2 /\ a[1] = x /\ a[2] = y
<1>0. Len(a) \in Nat
    OBVIOUS
<1>1. ASSUME NEW x \in Nat, NEW y \in Nat, NEW z \in Nat, NEW w \in Nat
      PROVE  IsPrefix(<<x, y, z, w>>, a) <=> Len(a) >= 4 /\ Code(a, x, y, z, w)
  <2> DEFINE s == <<x, y, z, w>>
  <2>1. s \in Seq(Nat) /\ Len(s) = 4 /\ s[1] = x /\ s[2] = y /\ s[3] = z /\ s[4] = w
      OBVIOUS
  <2>3. (\A i \in 1..4 : s[i] = a[i]) <=> Code(a, x, y, z, w)
    <3> HIDE DEF s
    <3> QED  BY <2>1 DEF Code
  <2> HIDE DEF s
  <2>4. IsPrefix(s, a) <=> Len(s) <= Len(a) /\ \A i \in 1..Len(s) : s[i] = a[i]
      BY <2>1, PrefixByDigit
  <2>5. IsPrefix(s, a) <=> Len(a) >= 4 /\ \A i \in 1..4 : s[i] = a[i]
      BY <1>0, <2>1, <2>4
  <2>6. IsPrefix(s, a) <=> Len(a) >= 4 /\ Code(a, x, y, z, w)
      BY <2>3, <2>5
  <2> QED
      BY <2>6 DEF s
<1>2. ASSUME NEW x \in Nat
      PROVE  IsPrefix(<<x>>, a) <=> Len(a) >= 1 /\ a[1] = x
  <2>1. <<x>> \in Seq(Nat) /\ Len(<<x>>) = 1 /\ <<x>>[1] = x
      OBVIOUS
  <2>2. IsPrefix(<<x>>, a) <=> Len(<<x>>) <= Len(a) /\ \A i \in 1..Len(<<x>>) : <<x>>[i] = a[i]
      BY <2>1, PrefixByDigit
  <2> QED
      BY <1>0, <2>1, <2>2
<1>3. ASSUME NEW x \in Nat, NEW y \in Nat
      PROVE  IsPrefix(<<x, y>>, a) <=> Len(a) >= 2 /\ a[1] = x /\ a[2] = y
  <2> DEFINE s == <<x, y>>
  <2>1. s \in Seq(Nat) /\ Len(s) = 2 /\ s[1] = x /\ s[2] = y
      OBVIOUS
  <2> HIDE DEF s
  <2>2. IsPrefix(s, a) <=> Len(s) <= Len(a) /\ \A i \in 1..Len(s) : s[i] = a[i]
      BY <2>1, PrefixByDigit
  <2>3. (\A i \in 1..2 : s[i] = a[i]) <=> s[1] = a[1] /\ s[2] = a[2]
      OBVIOUS
  <2>4. IsPrefix(s, a) <=> Len(a) >= 2 /\ a[1] = x /\ a[2] = y
      BY <1>0, <2>1, <2>2, <2>3
  <2> QED
      BY <2>4 DEF s
<1> QED
    BY <1>1, <1>2, <1>3

\* How the prefixes that the profits are computed from lie in each other.
PrefixLaws(a) ==
    /\ a = <<5,4,0,1>> \/ a = <<5,4,0,2>> \/ IsPrefix(<<5,6>>, a) => IsPrefix(<< 5 >>, a)
    /\ IsPrefix(<<5,6,0,1>>, a) => ~IsPrefix(<<5,6,0,2>>, a) /\ ~IsPrefix(<<5,6,0,3>>, a)
    /\ IsPrefix(<<5,6,0,2>>, a) => ~IsPrefix(<<5,6,0,3>>, a)

LEMMA PrefixLawsHold == ASSUME NEW a \in Seq(Nat) PROVE PrefixLaws(a)
<1> DEFINE L == Len(a)
<1>1. /\ IsPrefix(<< 5 >>, a) <=> L >= 1 /\ a[1] = 5
      /\ IsPrefix(<<5,6>>, a) <=> L >= 2 /\ a[1] = 5 /\ a[2] = 6
    BY PrefixOfAny
<1>2. /\ IsPrefix(<<5,6,0,1>>, a) <=> L >= 4 /\ Code(a, 5, 6, 0, 1)
      /\ IsPrefix(<<5,6,0,2>>, a) <=> L >= 4 /\ Code(a, 5, 6, 0, 2)
      /\ IsPrefix(<<5,6,0,3>>, a) <=> L >= 4 /\ Code(a, 5, 6, 0, 3)
    BY PrefixOfAny
<1>3. a = <<5,4,0,1>> \/ a = <<5,4,0,2>> => L >= 1 /\ a[1] = 5
    OBVIOUS
<1>4. L \in Nat
    OBVIOUS
<1> HIDE DEF L
<1>5. \A x, y, z, w : Code(a, x, y, z, w) => a[4] = w
    BY DEF Code
<1> QED
    BY <1>1, <1>2, <1>3, <1>4, <1>5 DEF PrefixLaws

-----------------------------------------------------------------------------
\* What the profits subtract.
Costs == {<<5,4,0,1>>, <<5,4,0,2>>}
AllExpenses == {<<5,6,0,1>>, <<5,6,0,2>>, <<5,6,0,3>>}

\* The fallback reads the expenses at once, the statement row by row.
LEMMA ExpensesSplit ==
    ASSUME NEW lines, IsFiniteSet(lines), Columns(lines), \A l \in lines : l.account \in Seq(Nat)
    PROVE  Total(lines, AllExpenses) =
               Total(lines, {<<5,6,0,1>>}) + Total(lines, {<<5,6,0,2>>}) + Total(lines, {<<5,6,0,3>>})
<1> DEFINE f == Reported(lines)
           u1 == Under(lines, {<<5,6,0,1>>})
           u2 == Under(lines, {<<5,6,0,2>>})
           u3 == Under(lines, {<<5,6,0,3>>})
<1>1. \A l \in lines : (\E p \in AllExpenses : IsPrefix(p, l.account)) <=>
            IsPrefix(<<5,6,0,1>>, l.account) \/ IsPrefix(<<5,6,0,2>>, l.account)
            \/ IsPrefix(<<5,6,0,3>>, l.account)
    BY DEF AllExpenses
<1>2. \A A : \A l : l \in Under(lines, {A}) <=> l \in lines /\ IsPrefix(A, l.account)
    BY DEF Under
<1>3. Under(lines, AllExpenses) = u1 \cup u2 \cup u3
    BY <1>1, <1>2 DEF Under
<1>4. u1 \cap u2 = {} /\ (u1 \cup u2) \cap u3 = {}
  <2>1. \A l \in lines : PrefixLaws(l.account)
      BY PrefixLawsHold
  <2> QED
      BY <1>2, <2>1 DEF PrefixLaws
<1>5. /\ IsFiniteSet(u1) /\ IsFiniteSet(u2) /\ IsFiniteSet(u3) /\ IsFiniteSet(u1 \cup u2)
      /\ \A l \in u1 \cup u2 \cup u3 : f[l] \in Int
    BY UnderTyped, FS_Union
<1> HIDE DEF u1, u2, u3
<1>6. SumOn(f, u1 \cup u2) = SumOn(f, u1) + SumOn(f, u2)
    BY <1>4, <1>5, SumUnion
<1>7. SumOn(f, (u1 \cup u2) \cup u3) = SumOn(f, u1 \cup u2) + SumOn(f, u3)
    BY <1>4, <1>5, SumUnion
<1>8. Total(lines, AllExpenses) = SumOn(f, u1 \cup u2 \cup u3)
    BY <1>3 DEF Total
<1> QED
    BY <1>6, <1>7, <1>8 DEF Total, u1, u2, u3

\* The amount on accounts alone.
LEMMA AmountAtIsInt ==
    ASSUME NEW lines, IsFiniteSet(lines), Columns(lines), NEW A
    PROVE  AmountAt(A, lines) \in Int
<1> DEFINE on == {l \in lines : l.account \in A}
<1>1. on \in SUBSET lines
    OBVIOUS
<1> HIDE DEF on
<1>2. IsFiniteSet(on) /\ \A l \in on : Reported(lines)[l] \in Int
    BY <1>1, UnderTyped, FS_Subset
<1>3. SumOn(Reported(lines), on) \in Int
    BY <1>2, SumSteps
<1> QED
    BY <1>3, AmountAtTotal DEF on

\* The net profit of the statement, and the profit of the fallback.
LEMMA ProfitsRead ==
    ASSUME NEW lines, IsFiniteSet(lines), Columns(lines)
    PROVE  /\ BuildProfitStatement(lines).fields["net_profit"] =
                 Total(lines, {<< 6 >>}) - Total(lines, Costs) - Total(lines, {<<5,4,0,3>>})
                 - Total(lines, {<<5,6,0,1>>}) - Total(lines, {<<5,6,0,2>>})
                 - Total(lines, {<<5,6,0,3>>}) + Total(lines, {<<6,1,1,1>>})
                 + Total(lines, {<<6,3,0,1>>}) - Total(lines, {<<6,7,1,1>>})
                 - Total(lines, {<<6,8,0,1>>})
           /\ FallbackProfit(lines) =
                 Total(lines, {<< 6 >>}) - AmountAt(Costs, lines) - AmountAt({<<5,4,0,3>>}, lines)
                 - Total(lines, AllExpenses)
<1> DEFINE p == Statement(ProfitMapping, lines)
<1>1. BuildProfitStatement(lines).fields["net_profit"] = p["net_profit"]
    BY FieldsRead
<1>2. p["net_profit"] = ((p["revenue"] - p["cost"] - p["tax_and_surcharge"] - p["selling_expense"]
          - p["admin_expense"] - p["finance_expense"] + p["investment_income"])
          + p["non_op_income"] - p["non_op_expense"]) - p["income_tax"]
    BY ProfitRead
<1>3. /\ p["revenue"] = Total(lines, {<< 6 >>}) /\ p["cost"] = Total(lines, Costs)
      /\ p["tax_and_surcharge"] = Total(lines, {<<5,4,0,3>>})
      /\ p["selling_expense"] = Total(lines, {<<5,6,0,1>>})
      /\ p["admin_expense"] = Total(lines, {<<5,6,0,2>>})
      /\ p["finance_expense"] = Total(lines, {<<5,6,0,3>>})
      /\ p["investment_income"] = Total(lines, {<<6,1,1,1>>})
      /\ p["non_op_income"] = Total(lines, {<<6,3,0,1>>})
      /\ p["non_op_expense"] = Total(lines, {<<6,7,1,1>>})
      /\ p["income_tax"] = Total(lines, {<<6,8,0,1>>})
    BY ProfitTotals DEF Costs
<1>4. FallbackProfit(lines) =
          Total(lines, {<< 6 >>}) - AmountAt(Costs, lines) - AmountAt({<<5,4,0,3>>}, lines)
          - Total(lines, AllExpenses)
    BY AmountUnderTotal DEF FallbackProfit, Costs, AllExpenses
<1>5. \A P : Total(lines, P) \in Int
    BY UnderTyped
<1> HIDE DEF p
<1>6. p["net_profit"] = p["revenue"] - p["cost"] - p["tax_and_surcharge"] - p["selling_expense"]
          - p["admin_expense"] - p["finance_expense"] + p["investment_income"]
          + p["non_op_income"] - p["non_op_expense"] - p["income_tax"]
    BY <1>2, <1>3, <1>5
<1>7. p["net_profit"] = Total(lines, {<< 6 >>}) - Total(lines, Costs) - Total(lines, {<<5,4,0,3>>})
          - Total(lines, {<<5,6,0,1>>}) - Total(lines, {<<5,6,0,2>>}) - Total(lines, {<<5,6,0,3>>})
          + Total(lines, {<<6,1,1,1>>}) + Total(lines, {<<6,3,0,1>>}) - Total(lines, {<<6,7,1,1>>})
          - Total(lines, {<<6,8,0,1>>})
    BY <1>3, <1>6
<1> QED
    BY <1>1, <1>4, <1>7

-----------------------------------------------------------------------------
\* The CIT report reads columns of account balances:
\* the sums by account are sums over the lines,
LEMMA BalanceColumn ==
    ASSUME NEW lines, IsFiniteSet(lines), Columns(lines), NEW A \in SUBSET AccountsOf(lines)
    PROVE  LET on == {l \in lines : l.account \in A}  ab == AccountBalance(lines) IN
           /\ SumFunction([a \in A |-> ab[a].debit]) = SumOn(DebitOf(lines), on)
           /\ SumFunction([a \in A |-> ab[a].credit]) = SumOn(CreditOf(lines), on)
<1> DEFINE ab == AccountBalance(lines)
<1>1. \A a \in A : ab[a].debit = TrialBalance(lines)[a].debit /\
      ab[a].credit = TrialBalance(lines)[a].credit
    BY DEF AccountBalance, TrialBalance, AccountsOf
<1> HIDE DEF ab
<1>2. [a \in A |-> ab[a].debit] = [a \in A |-> TrialBalance(lines)[a].debit]
    BY <1>1
<1>3. [a \in A |-> ab[a].credit] = [a \in A |-> TrialBalance(lines)[a].credit]
    BY <1>1
<1>4. SumFunction([a \in A |-> TrialBalance(lines)[a].debit])
            = SumOn(DebitOf(lines), {l \in lines : l.account \in A})
    BY ByAccount
<1>5. SumFunction([a \in A |-> TrialBalance(lines)[a].credit])
            = SumOn(CreditOf(lines), {l \in lines : l.account \in A})
    BY ByAccount
<1> QED
    BY <1>2, <1>3, <1>4, <1>5 DEF ab

\* What ProfitsReconcile presupposes of the CIT report.
OneSided(lines) ==
    \A l \in lines : /\ IsPrefix(<< 6 >>, l.account) => l.dir = "credit"
                     /\ IsPrefix(<< 5 >>, l.account) => l.dir = "debit"

\* Then a column is what the statement counts.
LEMMA SidesReported ==
    ASSUME NEW lines, IsFiniteSet(lines), Columns(lines), OneSided(lines),
           \A l \in lines : l.account \in Seq(Nat)
    PROVE  /\ SumOn(CreditOf(lines), Under(lines, {<< 6 >>})) = Total(lines, {<< 6 >>})
           /\ SumOn(DebitOf(lines), {l \in lines : l.account \in Costs}) = AmountAt(Costs, lines)
           /\ SumOn(DebitOf(lines), Under(lines, {<<5,6>>})) = Total(lines, {<<5,6>>})
<1> DEFINE C == {l \in lines : l.account \in Costs}
<1>1. \A l \in lines : /\ CreditOf(lines)[l] = l.credit /\ DebitOf(lines)[l] = l.debit
                       /\ Reported(lines)[l] = IF l.dir = "debit" THEN l.debit ELSE l.credit
    BY DEF CreditOf, DebitOf, Reported, ReportAmount
<1>2. \A l \in Under(lines, {<< 6 >>}) : l \in lines /\ l.dir = "credit"
    BY DEF Under, OneSided
<1>3. \A l \in C \cup Under(lines, {<<5,6>>}) : l \in lines /\ l.dir = "debit"
  <2> SUFFICES ASSUME NEW l \in C \cup Under(lines, {<<5,6>>})
               PROVE  l \in lines /\ IsPrefix(<< 5 >>, l.account)
      BY DEF OneSided
  <2>1. l \in lines
      BY DEF Under
  <2>2. PrefixLaws(l.account)
      BY <2>1, PrefixLawsHold
  <2>3. l.account = <<5,4,0,1>> \/ l.account = <<5,4,0,2>> \/ IsPrefix(<<5,6>>, l.account)
      BY DEF Under, Costs
  <2> QED
      BY <2>1, <2>2, <2>3 DEF PrefixLaws
<1> HIDE DEF C
<1>4. \A l \in Under(lines, {<< 6 >>}) : CreditOf(lines)[l] = Reported(lines)[l]
    BY <1>1, <1>2
<1>5. \A l \in C \cup Under(lines, {<<5,6>>}) : DebitOf(lines)[l] = Reported(lines)[l]
    BY <1>1, <1>3
<1>6. SumOn(DebitOf(lines), C) = SumOn(Reported(lines), C)
    BY <1>5, SumSame
<1>7. SumOn(Reported(lines), C) = AmountAt(Costs, lines)
    BY AmountAtTotal DEF C
<1>8. SumOn(DebitOf(lines), Under(lines, {<<5,6>>})) = Total(lines, {<<5,6>>})
    BY <1>5, SumSame DEF Total
<1>9. SumOn(CreditOf(lines), Under(lines, {<< 6 >>})) = Total(lines, {<< 6 >>})
    BY <1>4, SumSame DEF Total
<1> QED
    BY <1>6, <1>7, <1>8, <1>9 DEF C

\* Its profit.
LEMMA BookedProfit ==
    ASSUME NEW lines, IsFiniteSet(lines), Columns(lines), OneSided(lines),
           \A l \in lines : l.account \in Seq(Nat)
    PROVE  GenerateCITReport(lines, 0, FALSE).profit =
               Total(lines, {<< 6 >>}) - AmountAt(Costs, lines) - Total(lines, {<<5,6>>})
<1> DEFINE ab == AccountBalance(lines)
           R == {a \in AccountsOf(lines) : IsPrefix(<< 6 >>, a)}
           C == AccountsOf(lines) \cap Costs
           E == {a \in AccountsOf(lines) : IsPrefix(<<5,6>>, a)}
<1>1. DOMAIN ab = AccountsOf(lines)
    BY DEF AccountBalance, TrialBalance, AccountsOf
<1>2. /\ {l \in lines : l.account \in R} = Under(lines, {<< 6 >>})
      /\ {l \in lines : l.account \in E} = Under(lines, {<<5,6>>})
      /\ {l \in lines : l.account \in C} = {l \in lines : l.account \in Costs}
    BY DEF Under, AccountsOf
<1>3. R \in SUBSET AccountsOf(lines) /\ C \in SUBSET AccountsOf(lines) /\ E \in SUBSET AccountsOf(lines)
    OBVIOUS
<1>4. GenerateCITReport(lines, 0, FALSE).profit =
          SumFunction([a \in R |-> ab[a].credit]) - SumFunction([a \in C |-> ab[a].debit])
          - SumFunction([a \in E |-> ab[a].debit])
    BY <1>1 DEF GenerateCITReport, CreditedRevenue, Costs
<1> HIDE DEF R, C, E
<1>5. SumFunction([a \in R |-> ab[a].credit]) = Total(lines, {<< 6 >>})
  <2>1. SumFunction([a \in R |-> AccountBalance(lines)[a].credit])
            = SumOn(CreditOf(lines), {l \in lines : l.account \in R})
      BY <1>3, BalanceColumn
  <2> QED
      BY <1>2, <2>1, SidesReported
<1>6. SumFunction([a \in C |-> ab[a].debit]) = AmountAt(Costs, lines)
  <2>1. SumFunction([a \in C |-> AccountBalance(lines)[a].debit])
            = SumOn(DebitOf(lines), {l \in lines : l.account \in C})
      BY <1>3, BalanceColumn
  <2> QED
      BY <1>2, <2>1, SidesReported
<1>7. SumFunction([a \in E |-> ab[a].debit]) = Total(lines, {<<5,6>>})
  <2>1. SumFunction([a \in E |-> AccountBalance(lines)[a].debit])
            = SumOn(DebitOf(lines), {l \in lines : l.account \in E})
      BY <1>3, BalanceColumn
  <2> QED
      BY <1>2, <2>1, SidesReported
<1> HIDE DEF ab
<1> QED
    BY <1>4, <1>5, <1>6, <1>7

\* Hence the three profits differ by what the property names.
LEMMA ProfitsDoReconcile == ASSUME VoucherInv PROVE ProfitsReconcile
<1> DEFINE lines == PostedLines
           U(P) == Total(lines, P)
           At(A) == AmountAt(A, lines)
           net == BuildProfitStatement(lines).fields["net_profit"]
           cit == GenerateCITReport(lines, 0, FALSE).profit
           fallback == FallbackProfit(lines)
<1>1. IsFiniteSet(lines) /\ Columns(lines) /\ \A l \in lines : l.account \in Seq(Nat)
    BY PostedLinesFinite, PostedLinesTyped DEF Columns
<1>2. \A P : PostedUnder(P) = U(P)
    BY AmountUnderTotal DEF PostedUnder
<1> HIDE DEF lines
<1>3. (\A P : U(P) \in Int) /\ \A A : At(A) \in Int
    BY <1>1, UnderTyped, AmountAtIsInt
<1>4. /\ net = U({<< 6 >>}) - U(Costs) - U({<<5,4,0,3>>}) - U({<<5,6,0,1>>}) - U({<<5,6,0,2>>})
               - U({<<5,6,0,3>>}) + U({<<6,1,1,1>>}) + U({<<6,3,0,1>>}) - U({<<6,7,1,1>>})
               - U({<<6,8,0,1>>})
      /\ fallback = U({<< 6 >>}) - At(Costs) - At({<<5,4,0,3>>}) - U(AllExpenses)
    BY <1>1, ProfitsRead
<1>5. U(AllExpenses) = U({<<5,6,0,1>>}) + U({<<5,6,0,2>>}) + U({<<5,6,0,3>>})
    BY <1>1, ExpensesSplit
<1>6. OneSided(lines) => cit = U({<< 6 >>}) - At(Costs) - U({<<5,6>>})
    BY <1>1, BookedProfit
<1> HIDE DEF U, At, net, cit, fallback
<1>7. net = fallback + U({<<6,1,1,1>>}) + U({<<6,3,0,1>>}) - U({<<6,7,1,1>>}) - U({<<6,8,0,1>>})
                - (U(Costs) - At(Costs)) - (U({<<5,4,0,3>>}) - At({<<5,4,0,3>>}))
    BY <1>3, <1>4, <1>5
<1>8. OneSided(lines) =>
          cit = fallback + At({<<5,4,0,3>>}) - (U({<<5,6>>}) - U(AllExpenses))
    BY <1>3, <1>4, <1>6
<1> QED
    BY <1>2, <1>7, <1>8 DEF ProfitsReconcile, OneSided, At, net, cit, fallback, lines, Costs, AllExpenses

\* ProfitsReconcile: the net profit of BuildProfitStatement, that of fallbackProfitStatement
\* and the profit that GenerateCITReport settles differ by the named amounts and no others.
THEOREM ProfitsAlwaysReconcile == VoucherSpec => []ProfitsReconcile
<1>1. VoucherInv => ProfitsReconcile
    BY ProfitsDoReconcile
<1> QED
    BY <1>1, VoucherInvAlways, PTL
==============================================================================
