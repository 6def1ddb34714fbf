--------------------------- MODULE MCCreditScorer ---------------------------
(* Small instances of CreditScorer composed with lockbox and credit line. *)
EXTENDS CreditScorer

MCPeriods == {[grace |-> 1, default |-> 2]}

MCDeployed == [minCreditLine |-> 8, maxCreditLine |-> 10, minRate |-> 1, maxRate |-> 3,
               revenueMultiplier |-> 450, minEpochRevenue |-> 2]

\* Equal and lower limits that ask for more revenue, and a choice that setParameters
\* refuses.
MCParams == {MCDeployed,
             [MCDeployed EXCEPT !.minCreditLine = 1, !.maxCreditLine = 1,
                                !.minEpochRevenue = 5],
             [MCDeployed EXCEPT !.minRate = 4]}

MCOffers == [limit : {1} \cup 8..10, rate : 1..3]

\* Parameters so wide apart that every point of the score shows in the limit.
MCWide == [minCreditLine |-> 2, maxCreditLine |-> 102, minRate |-> 1, maxRate |-> 3,
           revenueMultiplier |-> 300, minEpochRevenue |-> 3]

MCWideParams == {MCWide}

MCWideOffers == [limit : 2..102, rate : 1..3]
=============================================================================
