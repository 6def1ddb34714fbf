--------------------------- MODULE MCCreditLedger ---------------------------
(***************************************************************************)
(* The backend's books for TLC.  Two draws at most, two requests at once.  *)
(* A day is the tenor of a draw and the delay of a default.  Interest on   *)
(* an amount of one at a rate of one rounds to the even number.            *)
(***************************************************************************)
EXTENDS CreditLedger

MCTenors == {1}

\* A line that is raised and lowered, amounts that leave parts.
MCAmounts == {1, 2}
MCScores == {[max |-> 3, rate |-> 1], [max |-> 2, rate |-> 2]}

\* Requests that overlap on one day; days that pass with a fault; two draws that are late.
MCBudgets ==
    {[days |-> 0, faults |-> 0, scores |-> 2, draws |-> 2, repays |-> 3],
     [days |-> 3, faults |-> 1, scores |-> 1, draws |-> 1, repays |-> 3],
     [days |-> 3, faults |-> 0, scores |-> 1, draws |-> 2, repays |-> 1]}

=============================================================================
