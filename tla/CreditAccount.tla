---------------------------- MODULE CreditAccount ----------------------------
(***************************************************************************)
(* What an agent's credit facility promises, with no timestamps, interest  *)
(* rates or vault: an amount owed and a standing.  The debt moves only     *)
(* because the agent in good standing borrows, because somebody pays,      *)
(* because time passes over an unpaid debt, or because it is forgiven; a   *)
(* bookkeeping call (accrual, a new rate, a refreshed limit) moves nothing.*)
(* CreditLine implements this specification.                               *)
(***************************************************************************)
EXTENDS Integers

VARIABLES
    owed,      \* what the agent would have to pay now to be free of debt
    standing   \* "ACTIVE", "DELINQUENT" or "DEFAULT"

Standings == {"ACTIVE", "DELINQUENT", "DEFAULT"}

Init ==
    /\ owed = 0
    /\ standing = "ACTIVE"

\* Only a debtor in good standing gets more credit.
Borrow ==
    /\ standing = "ACTIVE"
    /\ owed' \in Nat /\ owed' > owed
    /\ UNCHANGED standing

\* A payment lowers the debt.  It can lift a delinquency, never a default.
Pay ==
    /\ owed' \in Nat /\ owed' < owed
    /\ standing' \in IF standing = "DELINQUENT"
                        THEN {"DELINQUENT", "ACTIVE"} ELSE {standing}

\* Interest: time never creates a debt and never lowers one.
TimePasses ==
    /\ owed > 0
    /\ owed' \in Nat /\ owed' >= owed
    /\ UNCHANGED standing

\* The standing of a debtor is reassessed; it is not made good this way.
Reassess ==
    /\ owed > 0
    /\ standing' \in {"DELINQUENT", "DEFAULT"}
    /\ UNCHANGED owed

Forgive ==
    /\ owed' \in Nat /\ owed' < owed
    /\ UNCHANGED standing

Next == Borrow \/ Pay \/ TimePasses \/ Reassess \/ Forgive

Spec == Init /\ [][Next]_<<owed, standing>>
=============================================================================
