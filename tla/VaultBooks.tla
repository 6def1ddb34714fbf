----------------------------- MODULE VaultBooks -----------------------------
(***************************************************************************)
(* The books of one AgentVault (contracts/src/AgentVault.sol): the tokens  *)
(* it holds, what it has lent and the fees it owes the protocol, with      *)
(* every operation that changes them as an operator on the record.  A      *)
(* transaction that calls the vault several times composes these           *)
(* operators; the state machines that do so are AgentVault (its backers),  *)
(* CreditLine (its borrower) and Recovery (what follows a default).        *)
(*                                                                         *)
(* There is one vault per agent and nothing is shared between vaults, so   *)
(* one record is enough.  totalRevenueReceived and createdAt only feed an  *)
(* APY display and are left out.  Amounts are in whole token units.        *)
(***************************************************************************)
EXTENDS Integers

CONSTANTS
    BPS,         \* basis points in a whole (10000 in the code)
    MaxFeeBps,   \* the highest protocol fee setProtocolFeeBps accepts (3000)
    MinDeposit   \* AgentVault.MIN_DEPOSIT

ASSUME BooksAssumption ==
    /\ BPS \in Nat \ {0}
    /\ MaxFeeBps \in 0..BPS
    /\ MinDeposit \in Nat

Books == [balance : Nat, totalBorrowed : Nat, accumulatedFees : Nat,
          protocolFeeBps : 0..MaxFeeBps, depositCap : Nat, frozen : BOOLEAN]

NewBooks(feeBps, cap) ==
    [balance |-> 0, totalBorrowed |-> 0, accumulatedFees |-> 0,
     protocolFeeBps |-> feeBps, depositCap |-> cap, frozen |-> FALSE]

\* Subtraction that stops at zero, the shape of every guarded "-=" of the vault.
Monus(a, b) == IF a > b THEN a - b ELSE 0

Lesser(a, b) == IF a <= b THEN a ELSE b

-----------------------------------------------------------------------------
(* Views. *)

\* Variant: what is lent counts as liquid.
LiquidityCountsLoans(v) == Monus(v.balance + v.totalBorrowed, v.accumulatedFees)

AvailableLiquidity(v) == Monus(v.balance, v.accumulatedFees)

TotalAssets(v) == Monus(v.balance + v.totalBorrowed, v.accumulatedFees)

\* The ERC-4626 conversions of the OpenZeppelin base contract over a share
\* supply, with its one virtual share and one virtual asset, rounded as each
\* caller rounds.
ToShares(v, supply, assets)   == (assets * (supply + 1)) \div (TotalAssets(v) + 1)
ToAssets(v, supply, shares)   == (shares * (TotalAssets(v) + 1)) \div (supply + 1)
ToSharesUp(v, supply, assets) == (assets * (supply + 1) + TotalAssets(v))
                                    \div (TotalAssets(v) + 1)
ToAssetsUp(v, supply, shares) == (shares * (TotalAssets(v) + 1) + supply)
                                    \div (supply + 1)

-----------------------------------------------------------------------------
(* The credit line's and the lockbox's side. *)

AfterBorrow(v, amount) ==
    [v EXCEPT !.balance = @ - amount, !.totalBorrowed = @ + amount]

FeeOn(v, interest) == (interest * v.protocolFeeBps) \div BPS

\* Every repaid token, interest included, comes off totalBorrowed.
AfterRepayment(v, amount, interest) ==
    [v EXCEPT !.accumulatedFees = @ + FeeOn(v, interest),
              !.totalBorrowed = Monus(@, amount),
              !.balance = @ + amount]

-----------------------------------------------------------------------------
(* The factory's side: fees, freezing and losses. *)

AfterCollectFees(v) ==
    [v EXCEPT !.accumulatedFees = 0, !.balance = @ - v.accumulatedFees]

\* setFrozen also stamps the time of an unfreeze, for the backers' timelock only:
\* module AgentVault keeps the stamp.
AfterSetFrozen(v, frozen) == [v EXCEPT !.frozen = frozen]

AfterWriteDownLoss(v, loss) == [v EXCEPT !.totalBorrowed = Monus(@, loss)]

-----------------------------------------------------------------------------
(* The backers' side: a deposit or a mint is an entry, a withdrawal or a    *)
(* redemption an exit.                                                      *)

EntryAllowed(v, assets) ==
    /\ ~v.frozen
    /\ assets >= MinDeposit
    /\ v.depositCap > 0 => TotalAssets(v) + assets <= v.depositCap

AfterEntry(v, assets) == [v EXCEPT !.balance = @ + assets]

AfterExit(v, assets) == [v EXCEPT !.balance = @ - assets]
=============================================================================
