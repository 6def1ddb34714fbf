----------------------------- MODULE AgentVault -----------------------------
(***************************************************************************)
(* AgentVault (contracts/src/AgentVault.sol) from its backers' side: an    *)
(* ERC-4626 vault whose exits need a request, a delay and a vault that was *)
(* not thawed since.  The credit line and the lockbox appear as the calls  *)
(* they are allowed to make; what makes them call is in CreditLine and     *)
(* RevenueLockbox.                                                         *)
(*                                                                         *)
(* pause, unpause and setWithdrawalDelay are for the factory alone and the *)
(* factory has no function that calls them: the vault is never paused and  *)
(* the delay keeps its first value.  Allowances, and tokens sent to the    *)
(* vault outside its functions, are left out.                              *)
(***************************************************************************)
EXTENDS VaultBooks

CONSTANTS
    Backers,
    Delay,        \* withdrawalDelay
    Caps,         \* the deposit caps the owner may set; 0 is none
    Fees,         \* the protocol fees the owner may set
    Assets,       \* bound: amounts deposited or withdrawn
    Loans,        \* bound: amounts borrowed or written down
    MaxShares,    \* bound: shares minted, redeemed or transferred in one call
    Repayments,   \* bound: the [amount, interest] pairs repaid
    MaxSupply,    \* bound: entries do not bring the supply above this
    MaxGross,     \* bound: entries do not bring balance and loans above this
    MaxClock      \* bound: the clock stops here

ASSUME VaultAssumption ==
    /\ Delay \in Nat \ {0}
    /\ Caps \subseteq Nat
    /\ Fees \subseteq 0..MaxFeeBps
    /\ Assets \subseteq Nat \ {0} /\ Loans \subseteq Nat \ {0}
    /\ Repayments \subseteq [amount : Nat, interest : Nat]
    /\ \A r \in Repayments : r.interest <= r.amount
    /\ MaxShares \in Nat /\ MaxSupply \in Nat /\ MaxGross \in Nat /\ MaxClock \in Nat

VARIABLES
    now,          \* block.timestamp
    vault,        \* the vault's Books
    supply,       \* totalSupply of the shares
    shares,       \* balanceOf
    requestTime,  \* withdrawalRequestTime; 0 is none
    lastUnfreeze, \* lastUnfreezeTimestamp
    hist          \* history, read by no action: when each backer last received
                  \* shares from another, and when the vault last thawed

vaultVars == <<now, vault, supply, shares, requestTime, lastUnfreeze, hist>>

VaultInit ==
    /\ now = 1
    /\ \E fee \in Fees, cap \in Caps : vault = NewBooks(fee, cap)
    /\ supply = 0
    /\ shares = [b \in Backers |-> 0]
    /\ requestTime = [b \in Backers |-> 0]
    /\ lastUnfreeze = 0
    /\ hist = [received |-> [b \in Backers |-> 0], thawed |-> 0]

-----------------------------------------------------------------------------
(* Entries: deposit and mint differ in which side is rounded. *)

Minted(b, n) ==
    /\ supply + n <= MaxSupply
    /\ shares' = [shares EXCEPT ![b] = @ + n]
    /\ supply' = supply + n
    /\ UNCHANGED <<now, requestTime, lastUnfreeze, hist>>

WithinBound(assets) == vault.balance + vault.totalBorrowed + assets <= MaxGross

Deposit(b, assets) ==
    /\ EntryAllowed(vault, assets)
    /\ WithinBound(assets)
    /\ Minted(b, ToShares(vault, supply, assets))
    /\ vault' = AfterEntry(vault, assets)

\* Variant: the price of the minted shares rounded against the other backers.
PriceRoundedDown(n) == ToAssets(vault, supply, n)

MintPrice(n) == ToAssetsUp(vault, supply, n)

Mint(b, n) ==
    /\ EntryAllowed(vault, MintPrice(n))
    /\ WithinBound(MintPrice(n))
    /\ Minted(b, n)
    /\ vault' = AfterEntry(vault, MintPrice(n))

-----------------------------------------------------------------------------
(* Exits. *)

RequestWithdrawal(b) ==
    /\ requestTime' = [requestTime EXCEPT ![b] = now]
    /\ UNCHANGED <<now, vault, supply, shares, lastUnfreeze, hist>>

\* _checkWithdrawalReady.  The request is not used up: it also serves later exits.
WithdrawalReady(b) ==
    /\ requestTime[b] # 0
    /\ now >= requestTime[b] + Delay
    /\ requestTime[b] > lastUnfreeze

Burned(b, n, assets) ==
    /\ ~vault.frozen
    /\ WithdrawalReady(b)
    /\ assets <= vault.balance
    /\ shares' = [shares EXCEPT ![b] = @ - n]
    /\ supply' = supply - n
    /\ vault' = AfterExit(vault, assets)
    /\ UNCHANGED <<now, requestTime, lastUnfreeze, hist>>

Withdraw(b, assets) ==
    /\ assets <= ToAssets(vault, supply, shares[b])
    /\ Burned(b, ToSharesUp(vault, supply, assets), assets)

Redeem(b, n) ==
    /\ n <= shares[b]
    /\ Burned(b, n, ToAssets(vault, supply, n))

\* Variant: _update without the receiver's reset.
RequestKept(b) == requestTime

RequestReset(b) == [requestTime EXCEPT ![b] = 0]

Transfer(a, b, n) ==
    /\ n <= shares[a]
    /\ shares' = [[shares EXCEPT ![a] = @ - n] EXCEPT ![b] = @ + n]
    /\ requestTime' = RequestReset(b)
    /\ hist' = [hist EXCEPT !.received[b] = now]
    /\ UNCHANGED <<now, vault, supply, lastUnfreeze>>

-----------------------------------------------------------------------------
(* The credit line, the lockbox and the factory. *)

BooksStep(v) ==
    /\ vault' = v
    /\ UNCHANGED <<now, supply, shares, requestTime, lastUnfreeze, hist>>

Borrow(amount) ==
    /\ amount <= AvailableLiquidity(vault)
    /\ BooksStep(AfterBorrow(vault, amount))

ReceiveRepayment(r) ==
    /\ vault.balance + vault.totalBorrowed + r.amount <= MaxGross
    /\ BooksStep(AfterRepayment(vault, r.amount, r.interest))

CollectFees ==
    /\ vault.accumulatedFees \in 1..vault.balance
    /\ BooksStep(AfterCollectFees(vault))

WriteDownLoss(loss) == BooksStep(AfterWriteDownLoss(vault, loss))

SetDepositCap(cap) == BooksStep([vault EXCEPT !.depositCap = cap])

SetProtocolFeeBps(fee) == BooksStep([vault EXCEPT !.protocolFeeBps = fee])

\* Every call that ends unfrozen stamps its time, whatever the vault was before.
UnfreezeStamp(frozen) == IF frozen THEN lastUnfreeze ELSE now

SetFrozen(frozen) ==
    /\ vault' = AfterSetFrozen(vault, frozen)
    /\ lastUnfreeze' = UnfreezeStamp(frozen)
    /\ hist' = IF vault.frozen /\ ~frozen THEN [hist EXCEPT !.thawed = now] ELSE hist
    /\ UNCHANGED <<now, supply, shares, requestTime>>

Tick ==
    /\ now < MaxClock
    /\ now' = now + 1
    /\ UNCHANGED <<vault, supply, shares, requestTime, lastUnfreeze, hist>>

BackerNext ==
    \E b \in Backers :
        \/ \E assets \in Assets : Deposit(b, assets)
        \/ \E n \in 1..MaxShares : Mint(b, n)
        \/ RequestWithdrawal(b)
        \/ \E assets \in Assets : Withdraw(b, assets)
        \/ \E n \in 1..MaxShares : Redeem(b, n)
        \/ \E a \in Backers, n \in 0..MaxShares : Transfer(a, b, n)

ContractNext ==
    \/ \E amount \in Loans : Borrow(amount)
    \/ \E r \in Repayments : ReceiveRepayment(r)
    \/ CollectFees
    \/ \E loss \in Loans : WriteDownLoss(loss)
    \/ \E cap \in Caps : SetDepositCap(cap)
    \/ \E fee \in Fees : SetProtocolFeeBps(fee)
    \/ \E frozen \in BOOLEAN : SetFrozen(frozen)

VaultNext == BackerNext \/ ContractNext \/ Tick

VaultSpec == VaultInit /\ [][VaultNext]_vaultVars

-----------------------------------------------------------------------------
(* Properties. *)

\* Types: the books, the shares and the requests keep their shape.
VaultTypeOK ==
    /\ now \in Nat
    /\ vault \in Books
    /\ supply \in Nat
    /\ shares \in [Backers -> Nat]
    /\ requestTime \in [Backers -> 0..now]
    /\ lastUnfreeze \in 0..now
    /\ hist \in [received : [Backers -> Nat], thawed : Nat]

\* The assets behind the books cover the fees, so TotalAssets is not cut to zero.
Solvent(v) == v.balance + v.totalBorrowed >= v.accumulatedFees

\* As long as the books cover the fees, the price of a share falls only when a
\* repayment is charged a fee or a loss is written down.  No entry, exit,
\* transfer, loan or fee collection moves value between backers, however it
\* rounds; while a fee costs the backers no more than the fee itself.
NoDilution ==
    [][Solvent(vault) =>
          LET charged == Monus(vault'.accumulatedFees, vault.accumulatedFees)
              lost    == IF vault'.balance = vault.balance
                            THEN Monus(vault.totalBorrowed, vault'.totalBorrowed) ELSE 0
          IN  (TotalAssets(vault') + charged + lost + 1) * (supply + 1)
                  >= (TotalAssets(vault) + 1) * (supply' + 1)]_vaultVars

\* Nobody leaves early.  Shares received from another backer wait a full delay in the new
\* hands, also when the receiver had an older request; and after a freeze nobody leaves at
\* once: a request made before or during the freeze does not count, so every exit comes
\* more than a delay after the thaw.
ExitsWait ==
    [][supply' < supply =>
          /\ \A b \in Backers : shares'[b] < shares[b] => now >= hist.received[b] + Delay
          /\ hist.thawed > 0 => now > hist.thawed + Delay]_vaultVars
=============================================================================
