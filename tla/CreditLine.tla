----------------------------- MODULE CreditLine -----------------------------
(***************************************************************************)
(* AgentCreditLine (contracts/src/AgentCreditLine.sol): one agent's credit *)
(* facility and the vault it borrows from.  One action per external        *)
(* function; a transaction that reverts leaves the state as it was, so its *)
(* requires are the action's guard.  The vault's operations come from      *)
(* VaultBooks.                                                             *)
(*                                                                         *)
(* The scorer's answer is any member of Offers at every call (CreditScorer *)
(* models how it is computed); reputation is written but never read by     *)
(* these contracts, and delinquencyPeriod is stored but never read.        *)
(***************************************************************************)
EXTENDS VaultBooks

CONSTANTS
    Year,           \* 365 days * 10000: rate * time units that make a whole
    PeriodChoices,  \* the [grace, default] periods the owner may set
    Offers,         \* the [limit, rate] pairs the scorer may answer
    MinDrawdown,    \* MIN_DRAWDOWN of the vault's asset
    TimerShare,     \* a payment of 1/TimerShare of the debt resets the clock (20)
    OwnerGates,     \* the drawdown gates that change during a behaviour
    Deposits,       \* bound: the deposits and withdrawals the backers make
    Withdrawals,
    WriteDowns,     \* bound: the amounts the owner writes down
    MaxTime,        \* bound: the clock stops here
    MaxLent,        \* bound: lifetime drawdowns
    MaxBalance      \* bound: deposits do not bring the vault above this

ASSUME CreditAssumption ==
    /\ Year \in Nat \ {0}
    /\ TimerShare \in Nat \ {0}
    /\ MinDrawdown \in Nat \ {0}
    /\ PeriodChoices \subseteq [grace : Nat, default : Nat]
    /\ Offers \subseteq [limit : Nat, rate : Nat]
    /\ Deposits \subseteq Nat /\ Withdrawals \subseteq Nat /\ WriteDowns \subseteq Nat
    /\ MaxTime \in Nat /\ MaxLent \in Nat /\ MaxBalance \in Nat

Gates == {"paused", "requireSmartWallet", "requireZKProof", "hasSmartWallet", "proofValid"}

VARIABLES
    now,                  \* block.timestamp
    vault,                \* the AgentVault's Books
    facility,             \* facilities[agentId]
    lastPayment,          \* lastPaymentTimestamp[agentId]; 0 is never
    loansRepaid,          \* fully repaid loan cycles
    totalAmountBorrowed,  \* lifetime amount borrowed
    periods,              \* gracePeriod and defaultPeriod
    gate,                 \* what drawdown asks of the agent and the owner
    hist                  \* history, read by no action: see HistoryType

creditVars == <<now, vault, facility, lastPayment, loansRepaid,
                totalAmountBorrowed, periods, gate, hist>>

Statuses == {"ACTIVE", "DELINQUENT", "DEFAULT"}

Facility == [principal : Nat, accruedInterest : Nat, lastAccrual : Nat,
             rate : Nat, limit : Nat, status : Statuses]

\* integral: principal * rate summed over elapsed time, the exact interest times Year
\* charged:  interest ever moved into accruedInterest
\* accruals: how often that happened after some time had passed over a principal
\* forgiven: principal the owner's own write-downs removed from the facility alone
HistoryType == [integral : Nat, charged : Nat, accruals : Nat, forgiven : Nat]

CreditInit ==
    /\ now = 1
    /\ vault = NewBooks(MaxFeeBps, 0)
    /\ facility = [principal |-> 0, accruedInterest |-> 0, lastAccrual |-> 0,
                   rate |-> 0, limit |-> 0, status |-> "ACTIVE"]
    /\ lastPayment = 0
    /\ loansRepaid = 0
    /\ totalAmountBorrowed = 0
    /\ periods \in PeriodChoices
    /\ gate = [g \in Gates |-> g \in {"requireSmartWallet", "hasSmartWallet"}]
    /\ hist = [integral |-> 0, charged |-> 0, accruals |-> 0, forgiven |-> 0]

-----------------------------------------------------------------------------
(* Interest. *)

Owed(f) == f.principal + f.accruedInterest

Pending(f, t) ==
    IF f.principal = 0 \/ f.lastAccrual = 0 THEN 0
    ELSE (f.principal * f.rate * (t - f.lastAccrual)) \div Year

Outstanding(f, t) == Owed(f) + Pending(f, t)

Accrued(f, t) ==
    [f EXCEPT !.accruedInterest = @ + Pending(f, t), !.lastAccrual = t]

\* The facility as every transaction that calls _accrueInterest goes on from it.
Current == Accrued(facility, now)

\* The history of an action that accrues interest.
WithAccrual(h) ==
    [h EXCEPT !.charged = @ + Pending(facility, now),
              !.accruals = IF facility.principal > 0 /\ facility.lastAccrual < now
                              THEN @ + 1 ELSE @]

-----------------------------------------------------------------------------
(* Status. *)

PastDefault(f) == Owed(f) > 0 /\ now - lastPayment > periods.default

\* _updateStatusInternal: a debt-free facility keeps the status it has, and an
\* overdue one is DELINQUENT even when it was in DEFAULT before.
Reassessed(f) ==
    [f EXCEPT !.status =
        IF PastDefault(f) THEN "DEFAULT"
        ELSE IF Owed(f) > 0 /\ now - lastPayment > periods.grace THEN "DELINQUENT"
        ELSE @]

\* Finding a default freezes the vault, each time it is found.
FrozenIfDefaulted(v, f) ==
    IF PastDefault(f) THEN AfterSetFrozen(v, TRUE) ELSE v

UpdateStatus ==
    /\ facility' = Reassessed(Current)
    /\ vault' = FrozenIfDefaulted(vault, Current)
    /\ hist' = WithAccrual(hist)
    /\ UNCHANGED <<now, lastPayment, loansRepaid, totalAmountBorrowed, periods, gate>>

-----------------------------------------------------------------------------
(* Borrowing. *)

GatesOpen ==
    /\ ~gate["paused"]
    /\ gate["requireSmartWallet"] => gate["hasSmartWallet"]
    /\ gate["requireZKProof"] => gate["proofValid"]

\* The scorer's answer, written over the old terms.
OnTerms(f, offer) == [f EXCEPT !.rate = offer.rate, !.limit = offer.limit]

\* Variant: the stored status, without the lazy check.
StoredStatusActive == facility.status = "ACTIVE"

StatusAllowsDrawdown == Reassessed(facility).status = "ACTIVE"

LimitCovers(amount, offer) == Owed(Current) + amount <= offer.limit

Drawdown(amount, offer) ==
    /\ amount >= MinDrawdown
    /\ GatesOpen
    /\ StatusAllowsDrawdown
    /\ LimitCovers(amount, offer)
    /\ amount <= AvailableLiquidity(vault)
    /\ totalAmountBorrowed + amount <= MaxLent
    /\ facility' = [OnTerms(Current, offer) EXCEPT !.principal = @ + amount]
    /\ totalAmountBorrowed' = totalAmountBorrowed + amount
    /\ lastPayment' = IF lastPayment = 0 THEN now ELSE lastPayment
    /\ vault' = AfterBorrow(vault, amount)
    /\ hist' = WithAccrual(hist)
    /\ UNCHANGED <<now, loansRepaid, periods, gate>>

\* Variant: the new rate is written over the interest still pending.
RefreshWithoutAccrual(offer) ==
    /\ facility' = OnTerms(facility, offer)
    /\ UNCHANGED <<now, vault, lastPayment, loansRepaid, totalAmountBorrowed,
                   periods, gate, hist>>

RefreshCreditLine(offer) ==
    /\ facility' = OnTerms(Current, offer)
    /\ hist' = WithAccrual(hist)
    /\ UNCHANGED <<now, vault, lastPayment, loansRepaid, totalAmountBorrowed,
                   periods, gate>>

-----------------------------------------------------------------------------
(* Repaying. *)

\* Variant: principal first, so interest can outlive it.
PaidPrincipalFirst(f, amount) ==
    [f EXCEPT !.principal = Monus(@, amount),
              !.accruedInterest = Monus(@, Monus(amount, f.principal))]

\* Interest first, then principal.
Paid(f, amount) ==
    [f EXCEPT !.accruedInterest = Monus(@, amount),
              !.principal = @ - Monus(amount, f.accruedInterest)]

\* What repay makes of a payment: no more than is owed is taken.
Payment(amount) == Lesser(amount, Owed(Current))
InterestIn(amount) == Lesser(Payment(amount), Current.accruedInterest)

\* Variant: every payment of principal counts as a repaid loan.
PaysPrincipal(f) == f.principal < facility.principal

ClosesCycle(f) == Owed(f) = 0

\* Variant: the payment lifts a default too.
AlwaysCured(status) == "ACTIVE"

Cured(status) == IF status = "DELINQUENT" THEN "ACTIVE" ELSE status

\* The facility's side of a repayment.  Full repayment by anyone, or a large
\* enough one by the agent's own addresses, restarts the payment clock and lifts
\* a delinquency; a default stays what it is.
RepayFacility(amount, byAgent) ==
    LET owedBefore == Owed(Current)
        f          == Paid(Current, Payment(amount))
        resets     == \/ Owed(f) = 0
                      \/ byAgent /\ Payment(amount) >= owedBefore \div TimerShare
    IN  /\ owedBefore > 0
        /\ loansRepaid' = IF ClosesCycle(f) THEN loansRepaid + 1 ELSE loansRepaid
        /\ lastPayment' = IF resets THEN now ELSE lastPayment
        /\ facility' = IF resets THEN [f EXCEPT !.status = Cured(@)] ELSE f
        /\ hist' = WithAccrual(hist)

\* The vault's side.
AfterRepay(v, amount) == AfterRepayment(v, Payment(amount), InterestIn(amount))

\* byAgent: the caller is the agent's wallet, SmartWallet or lockbox.
Repay(amount, byAgent) ==
    /\ amount > 0
    /\ RepayFacility(amount, byAgent)
    /\ vault' = AfterRepay(vault, amount)
    /\ UNCHANGED <<now, totalAmountBorrowed, periods, gate>>

\* writeDown: the debt shrinks with no payment, the status and clock untouched.
WrittenDown(f, amount) == Paid(f, Lesser(amount, Owed(f)))

OwnerWriteDown(amount) ==
    /\ amount > 0
    /\ facility' = WrittenDown(Current, amount)
    /\ hist' = [WithAccrual(hist) EXCEPT
                    !.forgiven = @ + facility.principal - facility'.principal]
    /\ UNCHANGED <<now, vault, lastPayment, loansRepaid, totalAmountBorrowed,
                   periods, gate>>

-----------------------------------------------------------------------------
(* Administration, backers and time. *)

SetPeriods(p) ==
    /\ periods' = p
    /\ UNCHANGED <<now, vault, facility, lastPayment, loansRepaid,
                   totalAmountBorrowed, gate, hist>>

\* pause, unpause, setRequireSmartWallet, setRequireZKProof; the registry's
\* setSmartWallet, which works once; a ZK proof accepted or expired.
TurnGate(g) ==
    /\ g = "hasSmartWallet" => ~gate[g]
    /\ gate' = [gate EXCEPT ![g] = ~@]
    /\ UNCHANGED <<now, vault, facility, lastPayment, loansRepaid,
                   totalAmountBorrowed, periods, hist>>

\* The vault's other users: all backers as one, without shares, timelock or cap
\* (module AgentVault has them), and the factory owner.
VaultStep(v) ==
    /\ vault' = v
    /\ UNCHANGED <<now, facility, lastPayment, loansRepaid, totalAmountBorrowed,
                   periods, gate, hist>>

BackersDeposit(assets) ==
    /\ EntryAllowed(vault, assets)
    /\ vault.balance + assets <= MaxBalance
    /\ VaultStep(AfterEntry(vault, assets))

BackersWithdraw(assets) ==
    /\ ~vault.frozen
    /\ assets <= Lesser(TotalAssets(vault), vault.balance)
    /\ VaultStep(AfterExit(vault, assets))

CollectFees ==
    /\ vault.accumulatedFees \in 1..vault.balance
    /\ VaultStep(AfterCollectFees(vault))

OwnerSetFrozen(frozen) == VaultStep(AfterSetFrozen(vault, frozen))

OwnerWriteDownVault(loss) == VaultStep(AfterWriteDownLoss(vault, loss))

Tick ==
    /\ now < MaxTime
    /\ now' = now + 1
    /\ hist' = [hist EXCEPT !.integral = @ + facility.principal * facility.rate]
    /\ UNCHANGED <<vault, facility, lastPayment, loansRepaid, totalAmountBorrowed,
                   periods, gate>>

\* Amounts above the whole debt are cut to it, so one more than it is enough.
Amounts == 1..(Outstanding(facility, now) + 1)

BorrowerNext ==
    \/ \E amount \in MinDrawdown..MaxLent, offer \in Offers : Drawdown(amount, offer)
    \/ \E offer \in Offers : RefreshCreditLine(offer)
    \/ UpdateStatus

OwnerNext ==
    \/ \E amount \in WriteDowns : OwnerWriteDown(amount)
    \/ \E p \in PeriodChoices : SetPeriods(p)
    \/ \E g \in OwnerGates : TurnGate(g)
    \/ CollectFees
    \/ \E frozen \in BOOLEAN : OwnerSetFrozen(frozen)
    \/ \E loss \in WriteDowns : OwnerWriteDownVault(loss)

BackersNext ==
    \/ \E assets \in Deposits : BackersDeposit(assets)
    \/ \E assets \in Withdrawals : BackersWithdraw(assets)

CreditNext ==
    \/ BorrowerNext
    \/ \E amount \in Amounts, byAgent \in BOOLEAN : Repay(amount, byAgent)
    \/ OwnerNext
    \/ BackersNext
    \/ Tick

CreditSpec == CreditInit /\ [][CreditNext]_creditVars

-----------------------------------------------------------------------------
(* Properties. *)

\* Types: the facility, the vault's books and the history keep their shape.
CreditTypeOK ==
    /\ now \in Nat
    /\ vault \in Books
    /\ facility \in Facility
    /\ lastPayment \in Nat
    /\ loansRepaid \in Nat
    /\ totalAmountBorrowed \in Nat
    /\ periods \in PeriodChoices
    /\ gate \in [Gates -> BOOLEAN]
    /\ hist \in HistoryType

\* The vault never counts as lent, and so as an asset of its backers, more than
\* the principal the facility still records, except for what the owner's
\* writeDown took off the facility alone.
VaultNeverOverstatesDebt ==
    vault.totalBorrowed <= facility.principal + hist.forgiven

\* Interest follows the principal and rate in force at each moment: what was
\* charged, with what is pending, never exceeds the exact integral, and falls
\* short of it by less than one unit per accrual.  A rate change that reaches
\* back, or a principal change before accrual, breaks one side or the other.
InterestTracksIntegral ==
    LET charged == hist.charged + Pending(facility, now)
    IN  /\ charged * Year <= hist.integral
        /\ hist.integral < (charged + hist.accruals + 1) * Year

\* Interest never outlives its principal: _accrueInterest and the scorer take
\* principal = 0 for "no debt".
NoInterestWithoutPrincipal == facility.principal = 0 => facility.accruedInterest = 0

\* The credit history the scorer rewards is not free: every repaid cycle, and
\* the one still open, had a drawdown of at least the minimum of its own.
CyclesAreBackedByLoans ==
    MinDrawdown * (loansRepaid + (IF Owed(facility) > 0 THEN 1 ELSE 0))
        <= totalAmountBorrowed

\* New principal is only lent to a debtor who is not overdue at that moment,
\* whatever status was last stored, and never beyond the limit the scorer
\* answered in the same transaction, interest up to that moment included.
LendOnlyInGoodStanding ==
    [][facility'.principal > facility.principal =>
          /\ Owed(facility) > 0 => now - lastPayment <= periods.grace
          /\ Owed(facility') <= facility'.limit]_creditVars

Account == INSTANCE CreditAccount WITH
    owed <- Outstanding(facility, now), standing <- facility.status

\* The facility implements the abstract account.
ImplementsAccount == Account!Spec
=============================================================================
