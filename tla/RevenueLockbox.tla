--------------------------- MODULE RevenueLockbox ---------------------------
(***************************************************************************)
(* RevenueLockbox (contracts/src/RevenueLockbox.sol): the contract that    *)
(* captures an agent's revenue and splits it between the agent's debt, the *)
(* vault and the agent, composed with the credit line and the vault it     *)
(* pays.  processRevenue is one transaction over all three.                *)
(*                                                                         *)
(* Its setters (rate, cap, credit line) accept only the vault as a caller, *)
(* and the vault never calls them, so rate, cap and linked keep the values *)
(* of the deployment.                                                      *)
(***************************************************************************)
EXTENDS CreditLine, FiniteSets

CONSTANTS
    RepaymentBps,   \* repaymentRateBps
    MaxPerProcess,  \* maxRevenuePerProcess; 0 is no cap
    MinRevenue,     \* MIN_REVENUE_AMOUNT, the dust threshold of the epoch books
    EpochLength,    \* EPOCH_LENGTH
    Payments,       \* the payments customers make
    MaxRevenue      \* bound: revenue that ever arrives

ASSUME LockboxAssumption ==
    /\ RepaymentBps \in 0..BPS
    /\ MaxPerProcess \in Nat /\ MinRevenue \in Nat /\ MaxRevenue \in Nat
    /\ EpochLength \in Nat \ {0}
    /\ Payments \subseteq Nat

VARIABLES
    lockbox,  \* the contract's token balance and storage
    arrived   \* history: all revenue that ever reached it

lockboxVars == <<lockbox, arrived>>

Epochs == 0..(MaxTime \div EpochLength)

\* linked: the factory knew the credit line when it deployed the lockbox.
LockboxType == [balance : Nat, totalRevenueCapture : Nat, totalRepaid : Nat,
                revenueByEpoch : [Epochs -> Nat], epochsWithRevenue : Nat,
                linked : BOOLEAN]

LockboxInit ==
    /\ CreditInit
    /\ \E linked \in BOOLEAN :
         lockbox = [balance |-> 0, totalRevenueCapture |-> 0, totalRepaid |-> 0,
                    revenueByEpoch |-> [e \in Epochs |-> 0],
                    epochsWithRevenue |-> 0, linked |-> linked]
    /\ arrived = 0

\* Deployed at time 1, when every behaviour starts.
CurrentEpoch == (now - 1) \div EpochLength

-----------------------------------------------------------------------------
Taken ==
    IF MaxPerProcess > 0 THEN Lesser(lockbox.balance, MaxPerProcess)
                         ELSE lockbox.balance

RepaymentPart == (Taken * RepaymentBps) \div BPS

\* Variant: the whole repayment is offered to the credit line.
OfferAll == IF lockbox.linked THEN RepaymentPart ELSE 0

ToDebt == IF lockbox.linked THEN Lesser(RepaymentPart, Outstanding(facility, now)) ELSE 0

\* Variant: an epoch is counted at every payment in it.
EpochsCountedTwice == IF Taken >= MinRevenue THEN 1 ELSE 0

NewEpoch ==
    IF Taken >= MinRevenue /\ lockbox.revenueByEpoch[CurrentEpoch] = 0 THEN 1 ELSE 0

\* repay, when there is a debt, then the excess straight to the vault with no
\* interest portion.  What repay takes may be less than it was offered.
PayDebtAndVault(toDebt, direct) ==
    IF toDebt > 0
    THEN /\ RepayFacility(toDebt, TRUE)
         /\ vault' = AfterRepayment(AfterRepay(vault, toDebt), direct, 0)
    ELSE /\ vault' = AfterRepayment(vault, direct, 0)
         /\ UNCHANGED <<facility, lastPayment, loansRepaid, hist>>

ProcessRevenue ==
    /\ lockbox.balance > 0
    /\ PayDebtAndVault(ToDebt, RepaymentPart - ToDebt)
    /\ lockbox' = [lockbox EXCEPT
            !.balance = @ - (Taken - RepaymentPart)
                          - (RepaymentPart - ToDebt)
                          - (IF ToDebt > 0 THEN Payment(ToDebt) ELSE 0),
            !.totalRevenueCapture = @ + Taken,
            !.totalRepaid = @ + RepaymentPart,
            !.revenueByEpoch[CurrentEpoch] = IF Taken >= MinRevenue THEN @ + Taken ELSE @,
            !.epochsWithRevenue = @ + NewEpoch]
    /\ UNCHANGED <<now, totalAmountBorrowed, periods, gate, arrived>>

\* A customer's transfer, or a wallet routing its revenue here.
RevenueArrives(amount) ==
    /\ arrived + amount <= MaxRevenue
    /\ lockbox' = [lockbox EXCEPT !.balance = @ + amount]
    /\ arrived' = arrived + amount
    /\ UNCHANGED creditVars

LockboxNext ==
    \/ CreditNext /\ UNCHANGED lockboxVars
    \/ ProcessRevenue
    \/ \E amount \in Payments : RevenueArrives(amount)

LockboxSpec == LockboxInit /\ [][LockboxNext]_<<creditVars, lockboxVars>>

-----------------------------------------------------------------------------
(* Properties. *)

\* Types of the lockbox and of what it is composed with.
LockboxTypeOK ==
    /\ CreditTypeOK
    /\ lockbox \in LockboxType
    /\ arrived \in Nat

\* Every token that reached the lockbox is either still there or counted once in
\* totalRevenueCapture, the figure the scorer lends against.  If repay took less
\* than processRevenue offered it, the rest would be captured a second time.
RevenueCountedOnce == lockbox.balance + lockbox.totalRevenueCapture = arrived

\* The epoch books the consistency score divides: an epoch counts once, never
\* before it began, and together the epochs hold no more than was captured.
EpochsCountedOnce ==
    /\ lockbox.epochsWithRevenue = Cardinality({e \in Epochs : lockbox.revenueByEpoch[e] > 0})
    /\ lockbox.epochsWithRevenue <= CurrentEpoch + 1

\* What RevenueLockbox.sol:14-15 and 134-136 say: with a credit line set, the
\* revenue processed keeps the vault's loan and the facility's principal in sync.
RevenueKeepsBooksInSync ==
    [][lockbox.linked /\ lockbox'.totalRepaid > lockbox.totalRepaid
          /\ vault.totalBorrowed = facility.principal
       => vault'.totalBorrowed = facility'.principal]_<<creditVars, lockboxVars>>
=============================================================================
