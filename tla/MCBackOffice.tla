------------------------------ MODULE MCBackOffice ------------------------------
EXTENDS BackOffice

CONSTANTS a1, a2  \* ids of adjustments

\* Yuan at and next to every threshold of the tax engine, and single cents.
MCAmounts ==
    {100 * x : x \in {0, 1, 36000, 36001, 100000, 110000, 144000, 300000, 300001, 420000,
                      660000, 960000, 1000000, 1000001, 3000000, 3000001}} \cup {1, 49, 50}
MCSalaries == {0, 500000, 3000000, 12000000}
MCProfits  == {-30000000, 0, 33, 20000000, 130000000}
MCExpenses == {<<1000000, 100000000>>, <<50, 99>>}

\* Around every threshold of the detectors: 5%, 10%, 50%, 100%, the tolerances.
MCCompared == {0, 40, 80, 100, 180, 9500, 9549, 9550, 10000, 10051, 10100, 10550, 11550,
               15000, 15051, 20051}
MCFilings   == {-5, 0, 7}
MCPurchases == {1, 6, 7}

Deal(dir, net, tax, gross, goods, seller) ==
    [direction |-> dir, net |-> net, tax |-> tax, gross |-> gross, goods |-> goods, seller |-> seller]

\* A sale, a large purchase, and one whose sums differ by a cent.
MCDeals == { Deal("output", 100000, 13000, 113000, "other", "us"),
             Deal("input", 4424779, 575221, 5000000, "stock", "acme"),
             Deal("input", 50000, 1500, 51501, "other", "bolt") }

\* Expenses the three computations of a profit treat differently (a cost on a
\* sub-account, surcharges, an account beside 5601 to 5603), an income on an
\* account the prefix "6" covers, and an entry that does not balance.
MCManualEntries ==
    { <<Debit(<<5,6,0,3>>, 700), Debit(<<5,4,0,1,0,1>>, 300), Debit(<<5,4,0,3>>, 50),
        Debit(<<5,6,0,4>>, 20), Credit(Bank, 1070)>>,
      <<Debit(Bank, 900), Credit(<<6,1,1,1>>, 900)>>,
      <<Debit(Bank, 901), Credit(Revenue, 900)>> }
MCInvoiceIds == {1, 2}

MCIds == {a1, a2}
Line(id, category, amount) == [id |-> id, category |-> category, amount |-> amount]
MCBatches == { <<Line(a1, "welfare", 5), Line(a2, "welfare", 7)>>,
               <<Line(a2, "welfare", 9), Line(a1, "advertising", 3)>>,
               <<Line(a1, "welfare", 6), Line(NoId, "welfare", 8)>> }

\* Calls and transactions are alike, and so are the books but the seeded one.
MCSymmetry ==
    Permutations(Switchers) \cup Permutations(AllBooks \ {Seed}) \cup Permutations(Transactions)
==============================================================================
