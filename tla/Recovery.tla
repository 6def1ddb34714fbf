------------------------------ MODULE Recovery ------------------------------
(***************************************************************************)
(* What follows a default: LiquidationKeeper, RecoveryManager and          *)
(* DutchAuction (contracts/src) over the credit line and its vault.  The   *)
(* keeper, called by anyone, or the owner starts a recovery: the debt of   *)
(* that moment is auctioned at a falling price while the vault is frozen.  *)
(* When the auction was won or expired the owner finalizes: the vault is   *)
(* reopened, the proceeds deposited for the buyer, and the debt written    *)
(* down on the facility and on the vault.                                  *)
(*                                                                         *)
(* One agent, so one recovery and its auction at a time; their records are *)
(* forgotten once nothing reads them.  The bounty pool, which nothing      *)
(* depends on, the reputation penalty, the buyer's shares (AgentVault has  *)
(* shares), auctions the owner creates past the manager and the rewiring   *)
(* of the contracts' addresses are left out.                               *)
(***************************************************************************)
EXTENDS CreditLine

CONSTANTS
    AuctionTerms,     \* the parameters setParameters may put in force, in basis points
    Cooldowns,        \* the cooldown periods the owner may put in force
    DepositCaps,      \* the deposit caps the owner may set
    OwnerDebts,       \* bound: debts the owner starts a recovery of
    MaxDebtProcessed  \* bound: total debt of all recoveries

ASSUME RecoveryAssumption ==
    /\ AuctionTerms \subseteq
           [multiplier : Nat \ 0..(BPS - 1), minPrice : 1..BPS, duration : Nat \ {0}]
    /\ Cooldowns \subseteq Nat /\ DepositCaps \subseteq Nat
    /\ OwnerDebts \subseteq Nat \ {0} /\ MaxDebtProcessed \in Nat

VARIABLES
    auction,          \* the auction of the active recovery, with its debtAmount
    pendingRecovery,  \* proceeds below MIN_DEPOSIT that wait in the manager
    funds,            \* tokens the manager holds
    totals,           \* totalDebtProcessed, totalAmountRecovered, totalLosses
    liquidated,       \* the keeper's flag
    lastTrigger,      \* the keeper's lastTriggerTime
    ownerThawed       \* history: the owner unfroze the vault during the active recovery

recoveryVars == <<auction, pendingRecovery, funds, totals,
                  liquidated, lastTrigger, ownerThawed>>

AuctionType == [status : {"NONE", "ACTIVE", "SETTLED", "EXPIRED"}, debt : Nat,
                startPrice : Nat, minPrice : Nat, startTime : Nat, duration : Nat,
                settledPrice : Nat]

NoAuction ==
    [status |-> "NONE", debt |-> 0, startPrice |-> 0, minPrice |-> 0,
     startTime |-> 0, duration |-> 0, settledPrice |-> 0]

\* activeRecoveryByAgent and the record it points to.
Recovering == auction.status # "NONE"

RecoveryInit ==
    /\ CreditInit
    /\ auction = NoAuction
    /\ pendingRecovery = 0
    /\ funds = 0
    /\ totals = [debt |-> 0, recovered |-> 0, losses |-> 0]
    /\ liquidated = FALSE
    /\ lastTrigger = 0
    /\ ownerThawed = FALSE

-----------------------------------------------------------------------------
(* The auction. *)

CurrentPrice(a, t) ==
    IF t - a.startTime >= a.duration THEN a.minPrice
    ELSE a.startPrice - ((a.startPrice - a.minPrice) * (t - a.startTime)) \div a.duration

\* A bidder who accepts the current price; one with a lower maxPrice reverts.
Bid ==
    LET price == CurrentPrice(auction, now)
    IN  /\ auction.status = "ACTIVE"
        /\ now <= auction.startTime + auction.duration
        /\ price > 0
        /\ auction' = [auction EXCEPT !.status = "SETTLED", !.settledPrice = price]
        /\ funds' = funds + price
        /\ UNCHANGED <<pendingRecovery, totals, liquidated,
                       lastTrigger, ownerThawed>>
        /\ UNCHANGED creditVars

MarkExpired ==
    /\ auction.status = "ACTIVE"
    /\ now > auction.startTime + auction.duration
    /\ auction' = [auction EXCEPT !.status = "EXPIRED"]
    /\ UNCHANGED <<pendingRecovery, funds, totals, liquidated,
                   lastTrigger, ownerThawed>>
    /\ UNCHANGED creditVars

-----------------------------------------------------------------------------
(* Starting a recovery. *)

NewAuction(debt, terms) ==
    [status |-> "ACTIVE", debt |-> debt,
     startPrice |-> (debt * terms.multiplier) \div BPS,
     minPrice |-> (debt * terms.minPrice) \div BPS,
     startTime |-> now, duration |-> terms.duration, settledPrice |-> 0]

\* Variant: the vault is trusted to be frozen since the default.
FreezeTrusted(v) == v

FreezeForRecovery(v) == AfterSetFrozen(v, TRUE)

StartRecovery(debt) ==
    /\ debt > 0
    /\ ~Recovering
    /\ totals.debt + debt <= MaxDebtProcessed
    /\ \E terms \in AuctionTerms : auction' = NewAuction(debt, terms)
    /\ totals' = [totals EXCEPT !.debt = @ + debt]
    /\ vault' = FreezeForRecovery(vault)
    /\ UNCHANGED <<pendingRecovery, funds, ownerThawed>>
    /\ UNCHANGED <<now, facility, lastPayment, loansRepaid, totalAmountBorrowed,
                   periods, gate, hist>>

OwnerStartsRecovery(debt) ==
    /\ StartRecovery(debt)
    /\ UNCHANGED <<liquidated, lastTrigger>>

\* The keeper goes by the stored status, and by what is owed with the interest
\* pending now.
TriggerLiquidation(cooldown) ==
    /\ ~liquidated
    /\ facility.status = "DEFAULT"
    /\ now >= lastTrigger + cooldown
    /\ liquidated' = TRUE
    /\ lastTrigger' = now
    /\ StartRecovery(Outstanding(facility, now))

ResetLiquidation ==
    /\ liquidated' = FALSE
    /\ UNCHANGED <<auction, pendingRecovery, funds, totals,
                   lastTrigger, ownerThawed>>
    /\ UNCHANGED creditVars

-----------------------------------------------------------------------------
(* Ending it. *)

Recovered == IF auction.status = "SETTLED" THEN auction.settledPrice ELSE 0

\* Variant: the vault is unfrozen only once everything is done.
UnfrozenLast(v) == v

Reopened(v) == AfterSetFrozen(v, FALSE)

\* Proceeds the vault would refuse as too small wait for more.
GoesToVault == Recovered >= MinDeposit /\ Recovered > 0

\* Variant: only a partial recovery leaves a loss.
LossIfPartial(debt, amount) == IF amount > 0 THEN Monus(debt, amount) ELSE 0

LossOf(debt, amount) == Monus(debt, amount)

\* Variant: what is too small for the vault is forgotten.
PendingForgotten(amount) == pendingRecovery

WithPending(amount) == pendingRecovery + amount

\* Variant: the facility is written down, the vault's loan is not.
LoanKept(v, debt) == v

LoanForgiven(v, debt) == AfterWriteDownLoss(v, debt)

\* One transaction: a deposit the vault refuses, over its cap, reverts it all.
\* The facility loses the debt of the day the recovery started.
FinalizeRecovery ==
    /\ auction.status \in {"SETTLED", "EXPIRED"}
    /\ IF GoesToVault
          THEN /\ EntryAllowed(Reopened(vault), Recovered)
               /\ funds' = funds - Recovered
               /\ vault' = LoanForgiven(AfterEntry(Reopened(vault), Recovered), auction.debt)
               /\ UNCHANGED pendingRecovery
          ELSE /\ pendingRecovery' = WithPending(Recovered)
               /\ vault' = LoanForgiven(Reopened(vault), auction.debt)
               /\ UNCHANGED funds
    /\ facility' = WrittenDown(Current, auction.debt)
    /\ hist' = WithAccrual(hist)
    /\ totals' = [totals EXCEPT !.recovered = @ + Recovered,
                                !.losses = @ + LossOf(auction.debt, Recovered)]
    /\ auction' = NoAuction
    /\ ownerThawed' = FALSE
    /\ UNCHANGED <<liquidated, lastTrigger>>
    /\ UNCHANGED <<now, lastPayment, loansRepaid, totalAmountBorrowed, periods, gate>>

\* Variant: the flushed amount stays on the list.
PendingKept == pendingRecovery

PendingCleared == 0

FlushPendingRecovery ==
    /\ pendingRecovery > 0
    /\ EntryAllowed(vault, pendingRecovery)
    /\ vault' = AfterEntry(vault, pendingRecovery)
    /\ funds' = funds - pendingRecovery
    /\ pendingRecovery' = PendingCleared
    /\ UNCHANGED <<auction, totals, liquidated, lastTrigger, ownerThawed>>
    /\ UNCHANGED <<now, facility, lastPayment, loansRepaid, totalAmountBorrowed,
                   periods, gate, hist>>

-----------------------------------------------------------------------------
(* The credit line goes on beneath the recovery. *)

CreditStep ==
    /\ CreditNext
    /\ ownerThawed' = (Recovering /\ (ownerThawed \/ (vault.frozen /\ ~vault'.frozen)))
    /\ UNCHANGED <<auction, pendingRecovery, funds, totals,
                   liquidated, lastTrigger>>

OwnerSetsDepositCap(cap) ==
    /\ VaultStep([vault EXCEPT !.depositCap = cap])
    /\ UNCHANGED recoveryVars

RecoveryNext ==
    \/ CreditStep
    \/ \E cap \in DepositCaps : OwnerSetsDepositCap(cap)
    \/ \E cooldown \in Cooldowns : TriggerLiquidation(cooldown)
    \/ ResetLiquidation
    \/ \E debt \in OwnerDebts : OwnerStartsRecovery(debt)
    \/ Bid
    \/ MarkExpired
    \/ FinalizeRecovery
    \/ FlushPendingRecovery

RecoverySpec == RecoveryInit /\ [][RecoveryNext]_<<creditVars, recoveryVars>>

-----------------------------------------------------------------------------
(* Properties. *)

\* Types: the auction, the manager's books and the credit line keep their shape, and
\* a defaulted position is never sold below the floor nor above the start price,
\* the auction's last second included (DutchAuction.sol:190-200).
RecoveryTypeOK ==
    /\ CreditTypeOK
    /\ auction \in AuctionType
    /\ auction.settledPrice > 0 => auction.settledPrice \in auction.minPrice..auction.startPrice
    /\ pendingRecovery \in Nat
    /\ funds \in Nat
    /\ totals \in [debt : Nat, recovered : Nat, losses : Nat]
    /\ liquidated \in BOOLEAN
    /\ lastTrigger \in Nat
    /\ ownerThawed \in BOOLEAN

\* Every token a bidder paid is in the vault, on the pending list, or the
\* proceeds of the one recovery still to be finalized.
ProceedsAccounted ==
    funds = pendingRecovery + (IF Recovering THEN Recovered ELSE 0)

\* All debt that went through recovery was recovered, or recorded as lost, or is
\* the debt still being auctioned.
RecoveredOrLost ==
    totals.debt <= totals.recovered + totals.losses
                       + (IF Recovering THEN auction.debt ELSE 0)

\* Backers cannot leave during a recovery, whatever the vault was when it began,
\* unless the owner lets them: the balance falls only by a loan or by fees.
NoRunDuringRecovery ==
    [][Recovering /\ ~ownerThawed /\ vault'.balance < vault.balance =>
          \/ vault'.totalBorrowed > vault.totalBorrowed
          \/ vault'.accumulatedFees < vault.accumulatedFees]_<<creditVars, recoveryVars>>

\* A recovery whose auction is over can be finalized, and the vault reopened,
\* unless the proceeds do not fit under the vault's deposit cap.
FinalizationIsPossible ==
    auction.status \in {"SETTLED", "EXPIRED"}
        /\ (vault.depositCap > 0 => TotalAssets(vault) + Recovered <= vault.depositCap)
    => ENABLED FinalizeRecovery

\* What RecoveryManager.sol:265-266 says of the debt after a recovery.
DebtClearedByRecovery ==
    [][Recovering /\ ~Recovering' => Owed(facility') = 0]_<<creditVars, recoveryVars>>
=============================================================================
