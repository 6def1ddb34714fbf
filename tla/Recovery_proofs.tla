-------------------------- MODULE Recovery_proofs --------------------------
(***************************************************************************)
(* Proofs about recovery after a default, for every amount, price curve,   *)
(* period and bound: the type invariant with the price's range, the books  *)
(* of RecoveryManager, and that a frozen vault stays closed to its backers. *)
(*                                                                         *)
(* They rest on the lemmas of CreditLine_proofs about the operations that  *)
(* recovery calls on the facility and on the vault.                        *)
(***************************************************************************)
EXTENDS Recovery, CreditLine_proofs

allVars == <<creditVars, recoveryVars>>

\* An auction that is on has a floor not above its start price, a duration, and no
\* settled price before it is settled; a settled price is in its range.
AuctionOK ==
    /\ auction \in AuctionType
    /\ auction.minPrice <= auction.startPrice
    /\ Recovering => auction.duration > 0
    /\ auction.settledPrice > 0 => auction.settledPrice \in auction.minPrice..auction.startPrice
    /\ Recovering => auction.startTime <= now

\* What the manager keeps.
ManagerOK ==
    /\ pendingRecovery \in Nat /\ funds \in Nat
    /\ totals \in [debt : Nat, recovered : Nat, losses : Nat]
    /\ liquidated \in BOOLEAN /\ lastTrigger \in Nat /\ ownerThawed \in BOOLEAN

\* A recovery froze the vault, and only the owner has opened it since.
FrozenUnlessThawed == Recovering /\ ~ownerThawed => vault.frozen

RecoveryInv ==
    /\ TypeInv /\ AuctionOK /\ ManagerOK
    /\ ProceedsAccounted /\ RecoveredOrLost /\ FrozenUnlessThawed

-----------------------------------------------------------------------------
(* Prices. *)

\* A larger share of a debt is a larger price.
LEMMA ShareMonotone ==
    ASSUME NEW debt \in Nat, NEW low \in Nat, NEW high \in Nat, low <= high,
           NEW whole \in Nat \ {0}
    PROVE  (debt * low) \div whole <= (debt * high) \div whole
<1> DEFINE p == debt * low
           q == debt * high
<1>1. p \in Nat /\ q \in Nat /\ p <= q
      BY SMT
<1> HIDE DEF p, q
<1>2. /\ p \div whole \in Nat /\ (p \div whole) * whole <= p
      /\ q \div whole \in Nat /\ q < ((q \div whole) + 1) * whole
      BY <1>1, Division
<1> DEFINE a == p \div whole
           b == q \div whole
<1>3. a \in Nat /\ b \in Nat /\ a * whole < (b + 1) * whole
      BY <1>1, <1>2
<1> HIDE DEF a, b
<1>4. a < b + 1
      BY <1>3, SMT
<1>5. a <= b
      BY <1>3, <1>4
<1> QED
    BY <1>5 DEF a, b, p, q

\* The price falls from the start price to the floor and no further.
LEMMA PriceInRange ==
    ASSUME NEW a \in AuctionType, NEW t \in Nat,
           a.minPrice <= a.startPrice, a.startTime <= t, a.duration > 0
    PROVE  CurrentPrice(a, t) \in a.minPrice..a.startPrice
<1> DEFINE fall == a.startPrice - a.minPrice
           past == t - a.startTime
<1>1. /\ fall \in Nat /\ past \in Nat /\ a.duration \in Nat \ {0}
      /\ a.minPrice \in Nat /\ a.startPrice \in Nat
      BY DEF AuctionType
<1>2. CASE past >= a.duration
      BY <1>1, <1>2 DEF CurrentPrice
<1>3. CASE past < a.duration
  <2> DEFINE d == a.duration
             f == fall
             e == past
             q == (f * e) \div d
  <2>1. f \in Nat /\ e \in Nat /\ d \in Nat \ {0} /\ e < d
        BY <1>1, <1>3
  <2> HIDE DEF d, f, e
  <2>2. f * e \in Nat /\ f * e <= f * d
        BY <2>1, SMT
  <2>3. q \in Nat /\ q * d <= f * e
        BY <2>1, <2>2, Division
  <2> HIDE DEF q
  <2>4. q * d <= f * d
        BY <2>1, <2>2, <2>3
  <2>5. q <= f
        BY <2>1, <2>3, <2>4, SMT
  <2>6. CurrentPrice(a, t) = a.startPrice - q
        BY <1>1, <1>3 DEF CurrentPrice, q, f, e, d
  <2>7. q <= a.startPrice - a.minPrice
        BY <2>5 DEF f
  <2> QED
        BY <1>1, <2>3, <2>6, <2>7
<1> QED
    BY <1>1, <1>2, <1>3

\* The auction of a recovery as it starts.
LEMMA NewAuctionFields ==
    ASSUME now \in Nat, NEW debt \in Nat, NEW terms \in AuctionTerms
    PROVE  LET a == NewAuction(debt, terms) IN
           /\ a \in AuctionType /\ a.status = "ACTIVE" /\ a.debt = debt
           /\ a.minPrice <= a.startPrice /\ a.duration > 0
           /\ a.settledPrice = 0 /\ a.startTime = now
<1>1. /\ terms.multiplier \in Nat /\ terms.minPrice \in Nat /\ terms.duration \in Nat \ {0}
      /\ terms.minPrice <= BPS /\ BPS <= terms.multiplier /\ BPS \in Nat \ {0}
      BY RecoveryAssumption, BooksAssumption
<1> DEFINE s == (debt * terms.multiplier) \div BPS
           m == (debt * terms.minPrice) \div BPS
<1>2. m <= s
      BY <1>1, ShareMonotone
<1>3. s \in Nat /\ m \in Nat
  <2>1. debt * terms.multiplier \in Nat /\ debt * terms.minPrice \in Nat
        BY <1>1
  <2> QED
        BY <1>1, <2>1, Division
<1> HIDE DEF s, m
<1>4. NewAuction(debt, terms) =
        [status |-> "ACTIVE", debt |-> debt, startPrice |-> s, minPrice |-> m,
         startTime |-> now, duration |-> terms.duration, settledPrice |-> 0]
      BY DEF NewAuction, s, m
<1> QED
    BY <1>1, <1>2, <1>3, <1>4 DEF AuctionType

-----------------------------------------------------------------------------
(* The steps. *)

\* What the parts say of the amounts, without the shape of the records.
LEMMA Amountwise ==
    ASSUME RecoveryInv
    PROVE  /\ now \in Nat /\ vault \in Books /\ auction \in AuctionType
           /\ auction.debt \in Nat /\ auction.settledPrice \in Nat /\ Recovered \in Nat
           /\ pendingRecovery \in Nat /\ funds \in Nat
           /\ totals.debt \in Nat /\ totals.recovered \in Nat /\ totals.losses \in Nat
  BY DEF RecoveryInv, TypeInv, CreditTypeOK, AuctionOK, ManagerOK, AuctionType, Recovered

\* Steps that leave recovery as it is.
LEMMA RecoveryKept ==
    ASSUME RecoveryInv, TypeInv', UNCHANGED <<auction, pendingRecovery, funds, totals>>,
           ManagerOK', FrozenUnlessThawed', now' >= now
    PROVE  RecoveryInv'
<1>1. AuctionOK'
  <2>1. auction.startTime \in Nat /\ now \in Nat /\ now' \in Nat
        BY DEF RecoveryInv, AuctionOK, AuctionType, TypeInv, CreditTypeOK
  <2> QED
        BY <2>1 DEF RecoveryInv, AuctionOK, Recovering
<1>2. ProceedsAccounted' /\ RecoveredOrLost'
      BY DEF RecoveryInv, ProceedsAccounted, RecoveredOrLost, Recovering, Recovered
<1> QED
    BY <1>1, <1>2 DEF RecoveryInv

\* Steps beside the credit line leave its types.
LEMMA CreditKept == RecoveryInv /\ UNCHANGED creditVars => TypeInv'
  BY TypeNext DEF RecoveryInv

\* Steps of the credit line: only the owner opens a frozen vault.
LEMMA InvCreditStep == RecoveryInv /\ CreditStep => RecoveryInv'
<1> SUFFICES ASSUME RecoveryInv, CreditStep PROVE RecoveryInv'
    OBVIOUS
<1>1. TypeInv'
      BY TypeNext DEF CreditStep, RecoveryInv
<1>2. ManagerOK'
      BY DEF CreditStep, RecoveryInv, ManagerOK
<1>3. FrozenUnlessThawed'
      BY DEF CreditStep, RecoveryInv, FrozenUnlessThawed, Recovering, TypeInv, CreditTypeOK,
             Books
<1>4. now' >= now
  <2>1. now \in Nat
        BY Amountwise
  <2> QED
        BY <2>1
           DEF CreditStep, CreditNext, BorrowerNext, Drawdown, RefreshCreditLine, UpdateStatus,
               Repay, OwnerNext, OwnerWriteDown, SetPeriods, TurnGate, CollectFees,
               OwnerSetFrozen, OwnerWriteDownVault, BackersNext, BackersDeposit,
               BackersWithdraw, VaultStep, Tick
<1> QED
    BY <1>1, <1>2, <1>3, <1>4, RecoveryKept DEF CreditStep

\* The owner's deposit cap is part of the vault's books.
LEMMA InvDepositCap ==
    ASSUME RecoveryInv, NEW cap \in DepositCaps, OwnerSetsDepositCap(cap)
    PROVE  RecoveryInv'
<1>1. vault' = [vault EXCEPT !.depositCap = cap] /\ cap \in Nat
      BY RecoveryAssumption DEF OwnerSetsDepositCap, VaultStep
<1>2. vault' \in Books /\ vault'.frozen = vault.frozen
      BY <1>1, Amountwise DEF Books
<1>3. TypeInv'
      BY <1>2 DEF OwnerSetsDepositCap, VaultStep, RecoveryInv, TypeInv, CreditTypeOK
<1> QED
    BY <1>2, <1>3, Amountwise, RecoveryKept
       DEF OwnerSetsDepositCap, VaultStep, recoveryVars, RecoveryInv, ManagerOK,
           FrozenUnlessThawed, Recovering

\* A recovery starts, of what is owed then or of a debt the owner names.
LEMMA InvStart ==
    ASSUME RecoveryInv, NEW debt \in Nat, StartRecovery(debt),
           liquidated' \in BOOLEAN, lastTrigger' \in Nat
    PROVE  RecoveryInv'
<1>1. PICK terms \in AuctionTerms : auction' = NewAuction(debt, terms)
      BY DEF StartRecovery
<1>2. /\ auction' \in AuctionType /\ auction'.status = "ACTIVE" /\ auction'.debt = debt
      /\ auction'.minPrice <= auction'.startPrice /\ auction'.duration > 0
      /\ auction'.settledPrice = 0 /\ auction'.startTime = now
      BY <1>1, Amountwise, NewAuctionFields
<1>3. vault' \in Books /\ vault'.frozen
      BY Amountwise, BooksOperations
         DEF StartRecovery, FreezeForRecovery, AfterSetFrozen, Books
<1>4. TypeInv'
      BY <1>3 DEF StartRecovery, RecoveryInv, TypeInv, CreditTypeOK
<1>5. totals' \in [debt : Nat, recovered : Nat, losses : Nat]
      /\ totals'.debt = totals.debt + debt
      /\ totals'.recovered = totals.recovered /\ totals'.losses = totals.losses
      BY DEF StartRecovery, RecoveryInv, ManagerOK
<1>6. ~Recovering /\ Recovering' /\ Recovered' = 0
      BY <1>2 DEF StartRecovery, Recovering, Recovered
<1>7. AuctionOK' /\ ManagerOK' /\ FrozenUnlessThawed'
  <2>1. now' = now /\ pendingRecovery' = pendingRecovery /\ funds' = funds
        /\ ownerThawed' = ownerThawed
        BY DEF StartRecovery
  <2> QED
        BY <1>2, <1>3, <1>5, <1>6, <2>1, Amountwise
           DEF RecoveryInv, AuctionOK, ManagerOK, FrozenUnlessThawed
<1>8. ProceedsAccounted'
      BY <1>6, Amountwise DEF StartRecovery, RecoveryInv, ProceedsAccounted
<1>9. RecoveredOrLost'
  <2>1. totals.debt <= totals.recovered + totals.losses
        BY <1>6, Amountwise DEF RecoveryInv, RecoveredOrLost
  <2> QED
        BY <1>2, <1>5, <1>6, <2>1, Amountwise DEF RecoveredOrLost
<1> QED
    BY <1>4, <1>7, <1>8, <1>9 DEF RecoveryInv

\* A bid pays a price of the range.
LEMMA InvBid == RecoveryInv /\ Bid => RecoveryInv'
<1> SUFFICES ASSUME RecoveryInv, Bid PROVE RecoveryInv'
    OBVIOUS
<1> DEFINE price == CurrentPrice(auction, now)
<1>1. /\ auction.status = "ACTIVE" /\ price > 0 /\ funds' = funds + price
      /\ auction' = [auction EXCEPT !.status = "SETTLED", !.settledPrice = price]
      BY DEF Bid
<1>2. price \in auction.minPrice..auction.startPrice /\ price \in Nat
  <2>1. Recovering /\ auction.minPrice \in Nat /\ auction.startPrice \in Nat
        BY <1>1, Amountwise DEF Recovering, AuctionType
  <2>2. price \in auction.minPrice..auction.startPrice
        BY <2>1, Amountwise, PriceInRange DEF RecoveryInv, AuctionOK
  <2> QED
        BY <2>1, <2>2
<1> HIDE DEF price
<1>3. /\ auction' \in AuctionType /\ auction'.status = "SETTLED" /\ auction'.settledPrice = price
      /\ auction'.minPrice = auction.minPrice /\ auction'.startPrice = auction.startPrice
      /\ auction'.duration = auction.duration /\ auction'.startTime = auction.startTime
      /\ auction'.debt = auction.debt
      BY <1>1, <1>2, Amountwise DEF AuctionType
<1>4. Recovering /\ Recovering' /\ Recovered = 0 /\ Recovered' = price
      BY <1>1, <1>3 DEF Recovering, Recovered
<1>5. /\ UNCHANGED <<pendingRecovery, totals, liquidated, lastTrigger, ownerThawed>>
      /\ UNCHANGED creditVars
      BY DEF Bid
<1>6. TypeInv'
      BY <1>5 DEF RecoveryInv, TypeInv, CreditTypeOK, creditVars
<1>7. AuctionOK'
      BY <1>2, <1>3, <1>4, <1>5 DEF RecoveryInv, AuctionOK, creditVars
<1>8. ManagerOK'
      BY <1>1, <1>2, <1>5, Amountwise DEF RecoveryInv, ManagerOK
<1>9. ProceedsAccounted' /\ RecoveredOrLost'
      BY <1>1, <1>2, <1>3, <1>4, <1>5, Amountwise
         DEF RecoveryInv, ProceedsAccounted, RecoveredOrLost
<1>10. FrozenUnlessThawed'
      BY <1>4, <1>5 DEF RecoveryInv, FrozenUnlessThawed, creditVars
<1> QED
    BY <1>6, <1>7, <1>8, <1>9, <1>10 DEF RecoveryInv

\* An auction nobody won has no price.
LEMMA InvExpired == RecoveryInv /\ MarkExpired => RecoveryInv'
<1> SUFFICES ASSUME RecoveryInv, MarkExpired PROVE RecoveryInv'
    OBVIOUS
<1>1. /\ auction.status = "ACTIVE" /\ auction' = [auction EXCEPT !.status = "EXPIRED"]
      /\ UNCHANGED <<pendingRecovery, funds, totals, liquidated, lastTrigger, ownerThawed>>
      /\ UNCHANGED creditVars
      BY DEF MarkExpired
<1>2. /\ auction' \in AuctionType /\ auction'.status = "EXPIRED"
      /\ auction'.settledPrice = auction.settledPrice
      /\ auction'.minPrice = auction.minPrice /\ auction'.startPrice = auction.startPrice
      /\ auction'.duration = auction.duration /\ auction'.startTime = auction.startTime
      /\ auction'.debt = auction.debt
      BY <1>1, Amountwise DEF AuctionType
<1>3. Recovering /\ Recovering' /\ Recovered = 0 /\ Recovered' = 0
      BY <1>1, <1>2 DEF Recovering, Recovered
<1> QED
    BY <1>1, <1>2, <1>3
       DEF RecoveryInv, TypeInv, CreditTypeOK, creditVars, AuctionOK, ManagerOK,
           ProceedsAccounted, RecoveredOrLost, FrozenUnlessThawed

\* The end: proceeds go to the vault or to the list, the rest of the debt is a loss.
LEMMA InvFinalize == RecoveryInv /\ FinalizeRecovery => RecoveryInv'
<1> SUFFICES ASSUME RecoveryInv, FinalizeRecovery PROVE RecoveryInv'
    OBVIOUS
<1>1. /\ auction'.status = "NONE" /\ Recovered' = 0 /\ auction' \in AuctionType
      /\ auction'.minPrice = 0 /\ auction'.startPrice = 0 /\ auction'.settledPrice = 0
      BY DEF FinalizeRecovery, NoAuction, AuctionType, Recovered
<1>2. Recovering
      BY DEF FinalizeRecovery, Recovering
<1>3. vault' \in Books
  <2>1. Reopened(vault) \in Books
        BY Amountwise, BooksOperations DEF Reopened
  <2>2. AfterEntry(Reopened(vault), Recovered) \in Books
        BY <2>1, Amountwise, BooksOperations
  <2> QED
    <3>1. \A v \in Books : AfterWriteDownLoss(v, auction.debt) \in Books
          BY Amountwise, BooksOperations
    <3> QED
          BY <2>1, <2>2, <3>1 DEF FinalizeRecovery, LoanForgiven
<1>4. TypeInv'
  <2>1. facility' \in Facility /\ facility'.lastAccrual = now
        BY Amountwise, WriteDownFields DEF FinalizeRecovery, RecoveryInv
  <2>2. hist' \in HistoryType
        BY AccrualHistory DEF FinalizeRecovery, RecoveryInv
  <2> QED
        BY <1>3, <2>1, <2>2 DEF FinalizeRecovery, RecoveryInv, TypeInv, CreditTypeOK
<1>5. /\ pendingRecovery' \in Nat /\ funds' \in Nat /\ funds' = pendingRecovery'
      BY <1>2, Amountwise DEF FinalizeRecovery, WithPending, RecoveryInv, ProceedsAccounted
<1>6. /\ totals' \in [debt : Nat, recovered : Nat, losses : Nat]
      /\ totals'.debt <= totals'.recovered + totals'.losses
  <2> DEFINE r == totals.recovered + Recovered
             l == totals.losses + LossOf(auction.debt, Recovered)
  <2>1. r \in Nat /\ l \in Nat /\ totals.debt <= r + l
    <3>1. totals.debt <= totals.recovered + totals.losses + auction.debt
          BY <1>2 DEF RecoveryInv, RecoveredOrLost
    <3>2. LossOf(auction.debt, Recovered) \in Nat
          /\ auction.debt <= Recovered + LossOf(auction.debt, Recovered)
          BY Amountwise DEF LossOf, Monus
    <3> QED
          BY <3>1, <3>2, Amountwise
  <2>2. totals' = [totals EXCEPT !.recovered = r, !.losses = l]
        BY DEF FinalizeRecovery
  <2> HIDE DEF r, l
  <2> QED
        BY <2>1, <2>2 DEF RecoveryInv, ManagerOK
<1>7. ManagerOK'
      BY <1>5, <1>6 DEF FinalizeRecovery, RecoveryInv, ManagerOK
<1>8. AuctionOK'
      BY <1>1 DEF AuctionOK, Recovering
<1>9. ProceedsAccounted'
  <2>1. (IF Recovering THEN Recovered ELSE 0)' = 0
        BY <1>1
  <2>2. \A a \in Nat : a = a + 0
        OBVIOUS
  <2>3. pendingRecovery' = pendingRecovery' + 0
        BY <1>5, <2>2, Zenon
  <2> QED
        BY <1>5, <2>1, <2>3, Zenon DEF ProceedsAccounted
<1>10. RecoveredOrLost'
  <2>1. totals'.recovered \in Nat /\ totals'.losses \in Nat
        BY <1>6
  <2> QED
        BY <1>1, <1>6, <2>1 DEF RecoveredOrLost, Recovering
<1> QED
    BY <1>1, <1>4, <1>7, <1>8, <1>9, <1>10 DEF RecoveryInv, FrozenUnlessThawed, Recovering

\* What waited in the manager goes to the vault.
LEMMA InvFlush == RecoveryInv /\ FlushPendingRecovery => RecoveryInv'
<1> SUFFICES ASSUME RecoveryInv, FlushPendingRecovery PROVE RecoveryInv'
    OBVIOUS
<1>1. vault' \in Books /\ vault'.frozen = vault.frozen
      BY Amountwise, BooksOperations DEF FlushPendingRecovery, AfterEntry, Books
<1>2. TypeInv'
      BY <1>1 DEF FlushPendingRecovery, RecoveryInv, TypeInv, CreditTypeOK
<1>3. /\ pendingRecovery' = 0 /\ funds' = funds - pendingRecovery
      /\ UNCHANGED <<auction, totals, liquidated, lastTrigger, ownerThawed, now>>
      BY DEF FlushPendingRecovery, PendingCleared
<1>4. Recovering' = Recovering /\ Recovered' = Recovered
      BY <1>3 DEF Recovering, Recovered
<1>5. funds' \in Nat /\ ProceedsAccounted'
      BY <1>3, <1>4, Amountwise DEF RecoveryInv, ProceedsAccounted
<1>6. ManagerOK' /\ RecoveredOrLost' /\ FrozenUnlessThawed'
      BY <1>1, <1>3, <1>4, <1>5 DEF RecoveryInv, ManagerOK, RecoveredOrLost, FrozenUnlessThawed
<1>7. AuctionOK'
      BY <1>3, <1>4 DEF RecoveryInv, AuctionOK
<1> QED
    BY <1>2, <1>5, <1>6, <1>7 DEF RecoveryInv

\* The keeper's flag concerns only the keeper.
LEMMA InvReset == RecoveryInv /\ ResetLiquidation => RecoveryInv'
<1> SUFFICES ASSUME RecoveryInv, ResetLiquidation PROVE RecoveryInv'
    OBVIOUS
<1>1. UNCHANGED creditVars
      BY DEF ResetLiquidation
<1>2. TypeInv' /\ now' >= now /\ vault' = vault
      BY <1>1, CreditKept, Amountwise DEF creditVars
<1>3. ManagerOK' /\ FrozenUnlessThawed'
      BY <1>2 DEF ResetLiquidation, RecoveryInv, ManagerOK, FrozenUnlessThawed, Recovering
<1> QED
    BY <1>2, <1>3, RecoveryKept DEF ResetLiquidation

\* The keeper starts a recovery of what is owed with pending interest.
LEMMA InvTrigger ==
    ASSUME RecoveryInv, NEW cooldown \in Cooldowns, TriggerLiquidation(cooldown)
    PROVE  RecoveryInv'
<1>1. Outstanding(facility, now) \in Nat
  <2>1. /\ Pending(facility, now) \in Nat
        /\ facility.principal \in Nat /\ facility.accruedInterest \in Nat
        BY PendingType, Amountwise DEF RecoveryInv, TypeInv, CreditTypeOK, Facility
  <2> QED
        BY <2>1 DEF Outstanding, Owed
<1>2. liquidated' \in BOOLEAN /\ lastTrigger' \in Nat
      BY Amountwise DEF TriggerLiquidation
<1>3. StartRecovery(Outstanding(facility, now))
      BY DEF TriggerLiquidation
<1> QED
    BY <1>1, <1>2, <1>3, InvStart

\* The owner starts one of any positive debt.
LEMMA InvOwnerStart ==
    ASSUME RecoveryInv, NEW debt \in OwnerDebts, OwnerStartsRecovery(debt)
    PROVE  RecoveryInv'
  BY InvStart, RecoveryAssumption DEF OwnerStartsRecovery, RecoveryInv, ManagerOK

\* Nothing is in recovery at first.
LEMMA RecoveryInvInit == RecoveryInit => RecoveryInv
<1> SUFFICES ASSUME RecoveryInit PROVE RecoveryInv
    OBVIOUS
<1>1. TypeInv
      BY TypeInit DEF RecoveryInit
<1>2. /\ auction \in AuctionType /\ auction.status = "NONE" /\ Recovered = 0
      /\ auction.settledPrice = 0 /\ auction.minPrice = 0 /\ auction.startPrice = 0
      BY DEF RecoveryInit, NoAuction, AuctionType, Recovered
<1>3. AuctionOK /\ FrozenUnlessThawed
      BY <1>2 DEF AuctionOK, FrozenUnlessThawed, Recovering
<1>4. ManagerOK
      BY DEF RecoveryInit, ManagerOK
<1>5. ProceedsAccounted
  <2>1. (IF Recovering THEN Recovered ELSE 0) = 0
        BY <1>2
  <2> QED
        BY <2>1 DEF RecoveryInit, ProceedsAccounted
<1>6. RecoveredOrLost
  <2>1. (IF Recovering THEN auction.debt ELSE 0) = 0
        BY <1>2 DEF Recovering
  <2> QED
        BY <2>1 DEF RecoveryInit, RecoveredOrLost
<1> QED
    BY <1>1, <1>3, <1>4, <1>5, <1>6 DEF RecoveryInv

\* Every step keeps the invariant.
LEMMA RecoveryInvNext == RecoveryInv /\ [RecoveryNext]_allVars => RecoveryInv'
<1> SUFFICES ASSUME RecoveryInv, [RecoveryNext]_allVars PROVE RecoveryInv'
    OBVIOUS
<1>1. CASE UNCHANGED allVars
  <2>1. UNCHANGED creditVars /\ UNCHANGED recoveryVars
        BY <1>1 DEF allVars
  <2>2. TypeInv' /\ now' >= now /\ vault' = vault
        BY <2>1, CreditKept, Amountwise DEF creditVars
  <2>3. ManagerOK' /\ FrozenUnlessThawed'
        BY <2>1, <2>2 DEF recoveryVars, RecoveryInv, ManagerOK, FrozenUnlessThawed, Recovering
  <2> QED
        BY <2>1, <2>2, <2>3, RecoveryKept DEF recoveryVars
<1> QED
    BY <1>1, InvCreditStep, InvDepositCap, InvTrigger, InvReset, InvOwnerStart, InvBid,
       InvExpired, InvFinalize, InvFlush
       DEF RecoveryNext

\* The invariant the theorems below rest on.
LEMMA RecoveryInvAlways == RecoverySpec => []RecoveryInv
  BY RecoveryInvInit, RecoveryInvNext, PTL DEF RecoverySpec, allVars

-----------------------------------------------------------------------------
(* The theorems. *)

\* Types, and no position is ever sold below the floor or above the start price.
THEOREM RecoveryTypeCorrect == RecoverySpec => []RecoveryTypeOK
<1>1. RecoveryInv => RecoveryTypeOK
      BY DEF RecoveryInv, RecoveryTypeOK, TypeInv, AuctionOK, ManagerOK
<1> QED
    BY <1>1, RecoveryInvAlways, PTL

\* The manager holds what bidders paid and the vault did not get yet, to the token.
THEOREM ProceedsAreAccounted == RecoverySpec => []ProceedsAccounted
<1>1. RecoveryInv => ProceedsAccounted
      BY DEF RecoveryInv
<1> QED
    BY <1>1, RecoveryInvAlways, PTL

\* No debt disappears in recovery without being recovered or recorded as lost.
THEOREM DebtRecoveredOrLost == RecoverySpec => []RecoveredOrLost
<1>1. RecoveryInv => RecoveredOrLost
      BY DEF RecoveryInv
<1> QED
    BY <1>1, RecoveryInvAlways, PTL

\* While a recovery is on and the owner has not opened the vault, no step of anyone
\* takes tokens out of it but a loan or the protocol's fees.
LEMMA NoRunStep ==
    ASSUME RecoveryInv, [RecoveryNext]_allVars, Recovering, ~ownerThawed,
           vault'.balance < vault.balance
    PROVE  \/ vault'.totalBorrowed > vault.totalBorrowed
           \/ vault'.accumulatedFees < vault.accumulatedFees
<1>1. /\ vault \in Books /\ vault.frozen
      /\ vault.balance \in Nat /\ vault.totalBorrowed \in Nat /\ vault.accumulatedFees \in Nat
      BY Amountwise DEF RecoveryInv, FrozenUnlessThawed, Books
<1>2. /\ AfterSetFrozen(vault, TRUE).balance = vault.balance
      /\ AfterSetFrozen(vault, FALSE).balance = vault.balance
      /\ \A x : AfterWriteDownLoss(vault, x).balance = vault.balance
      BY <1>1 DEF AfterSetFrozen, AfterWriteDownLoss, Books
<1>3. CASE UNCHANGED vault
      BY <1>1, <1>3
<1>4. CASE CreditStep
  <2>1. CASE vault' = AfterSetFrozen(vault, TRUE) \/ UNCHANGED vault
    <3>1. vault'.balance = vault.balance
          BY <1>2, <2>1
    <3> QED
          BY <1>1, <3>1
  <2>2. ASSUME NEW amount \in MinDrawdown..MaxLent, NEW offer \in Offers,
               Drawdown(amount, offer)
        PROVE  vault'.totalBorrowed > vault.totalBorrowed
    <3>1. vault' = AfterBorrow(vault, amount) /\ amount \in Nat \ {0}
          BY <2>2, CreditAssumption DEF Drawdown
    <3> QED
          BY <1>1, <3>1, LentFields
  <2>3. ASSUME NEW amount \in Amounts, NEW byAgent \in BOOLEAN, Repay(amount, byAgent)
        PROVE  FALSE
    <3>1. amount \in Nat
      <4>1. Outstanding(facility, now) \in Nat
        <5>1. /\ Pending(facility, now) \in Nat
              /\ facility.principal \in Nat /\ facility.accruedInterest \in Nat
              BY PendingType, Amountwise DEF RecoveryInv, TypeInv, CreditTypeOK, Facility
        <5> QED
              BY <5>1 DEF Outstanding, Owed
      <4> QED
            BY <4>1 DEF Amounts
    <3>2. Payment(amount) \in Nat
          BY <3>1, PaymentBounds DEF RecoveryInv
    <3>3. vault'.balance = vault.balance + Payment(amount)
          BY <1>1, <2>3 DEF Repay, AfterRepay, AfterRepayment, Books
    <3> QED
          BY <1>1, <3>2, <3>3
  <2>4. CASE CollectFees
    <3>1. vault'.accumulatedFees = 0 /\ vault.accumulatedFees > 0
          BY <1>1, <2>4 DEF CollectFees, VaultStep, AfterCollectFees, Books
    <3> QED
          BY <1>1, <3>1
  <2>5. ASSUME NEW frozen \in BOOLEAN, OwnerSetFrozen(frozen) PROVE FALSE
    <3>1. vault'.balance = vault.balance
          BY <1>2, <2>5 DEF OwnerSetFrozen, VaultStep
    <3> QED
          BY <1>1, <3>1
  <2>6. ASSUME NEW loss \in WriteDowns, OwnerWriteDownVault(loss) PROVE FALSE
        BY <1>1, <1>2, <2>6, CreditAssumption DEF OwnerWriteDownVault, VaultStep
  <2>7. CASE BackersNext
        BY <1>1, <2>7 DEF BackersNext, BackersDeposit, BackersWithdraw, EntryAllowed
  <2>8. UpdateStatus => vault' = AfterSetFrozen(vault, TRUE) \/ UNCHANGED vault
        BY DEF UpdateStatus, FrozenIfDefaulted
  <2> QED
        BY <1>4, <2>1, <2>2, <2>3, <2>4, <2>5, <2>6, <2>7, <2>8
           DEF CreditStep, CreditNext, BorrowerNext, OwnerNext, RefreshCreditLine,
               OwnerWriteDown, SetPeriods, TurnGate, Tick
<1>5. ASSUME NEW debt, StartRecovery(debt) PROVE FALSE
      BY <1>1, <1>2, <1>5 DEF StartRecovery, FreezeForRecovery
<1>6. ASSUME NEW cap \in DepositCaps, OwnerSetsDepositCap(cap) PROVE FALSE
  <2>1. vault'.balance = vault.balance
        BY <1>1, <1>6 DEF OwnerSetsDepositCap, VaultStep, Books
  <2> QED
        BY <1>1, <2>1
<1>7. CASE FinalizeRecovery
  <2>1. Reopened(vault) \in Books /\ Reopened(vault).balance = vault.balance
        BY <1>1, <1>2, BooksOperations DEF Reopened
  <2>2. /\ AfterEntry(Reopened(vault), Recovered) \in Books
        /\ AfterEntry(Reopened(vault), Recovered).balance = vault.balance + Recovered
        BY <1>1, <2>1, Amountwise, BooksOperations DEF AfterEntry, Books
  <2>3. \A v \in Books : LoanForgiven(v, auction.debt).balance = v.balance
        BY DEF LoanForgiven, AfterWriteDownLoss, Books
  <2>4. vault'.balance \in {vault.balance, vault.balance + Recovered}
        BY <1>7, <2>1, <2>2, <2>3 DEF FinalizeRecovery
  <2> QED
        BY <1>1, <2>4, Amountwise
<1>8. CASE FlushPendingRecovery
      BY <1>1, <1>8 DEF FlushPendingRecovery, EntryAllowed
<1> QED
    BY <1>3, <1>4, <1>5, <1>6, <1>7, <1>8
       DEF RecoveryNext, TriggerLiquidation, OwnerStartsRecovery, ResetLiquidation, Bid,
           MarkExpired, allVars, creditVars

\* Backers cannot leave during a recovery unless the owner opens the vault.
THEOREM NoRun == RecoverySpec => NoRunDuringRecovery
<1>1. RecoveryInv /\ [RecoveryNext]_allVars =>
        [Recovering /\ ~ownerThawed /\ vault'.balance < vault.balance =>
           \/ vault'.totalBorrowed > vault.totalBorrowed
           \/ vault'.accumulatedFees < vault.accumulatedFees]_allVars
      BY NoRunStep
<1> QED
    BY <1>1, RecoveryInvAlways, PTL DEF RecoverySpec, NoRunDuringRecovery, allVars

-----------------------------------------------------------------------------
(* The vault's book of the loan. *)

\* Finalizing cuts the loan by the whole debt and the principal by no more than that.
LEMMA FinalizeKeepsVaultBelow ==
    ASSUME RecoveryInv, VaultNeverOverstatesDebt, FinalizeRecovery
    PROVE  VaultNeverOverstatesDebt'
<1> DEFINE cut  == Lesser(auction.debt, Owed(Current))
           paid == Monus(cut, Current.accruedInterest)
<1>1. TypeInv /\ auction.debt \in Nat /\ Recovered \in Nat /\ vault \in Books
      BY Amountwise DEF RecoveryInv
<1>2. /\ facility.principal \in Nat /\ vault.totalBorrowed \in Nat
      /\ hist.forgiven \in Nat
      /\ vault.totalBorrowed <= facility.principal + hist.forgiven
      BY <1>1 DEF TypeInv, CreditTypeOK, VaultNeverOverstatesDebt, Facility, Books, HistoryType
<1>3. facility'.principal = facility.principal - paid
      BY <1>1, WriteDownFields DEF FinalizeRecovery
<1>4. paid \in Nat /\ paid <= auction.debt /\ paid <= facility.principal
  <2>1. Owed(Current) \in Nat /\ Current.accruedInterest \in Nat
        /\ Owed(Current) = facility.principal + Current.accruedInterest
        BY <1>1, CurrentFields DEF Owed, Facility
  <2> QED
        BY <1>1, <1>2, <2>1 DEF Lesser, Monus
<1>5. hist'.forgiven = hist.forgiven
      BY <1>1, AccrualHistory DEF FinalizeRecovery
<1>6. vault'.totalBorrowed = Monus(vault.totalBorrowed, auction.debt)
  <2>1. Reopened(vault) \in Books /\ Reopened(vault).totalBorrowed = vault.totalBorrowed
        BY <1>1, LentFields, BooksOperations DEF Reopened
  <2>2. /\ AfterEntry(Reopened(vault), Recovered) \in Books
        /\ AfterEntry(Reopened(vault), Recovered).totalBorrowed = vault.totalBorrowed
        BY <1>1, <2>1, LentFields, BooksOperations
  <2>3. \A v \in Books :
            LoanForgiven(v, auction.debt).totalBorrowed = Monus(v.totalBorrowed, auction.debt)
        BY LentFields DEF LoanForgiven
  <2> QED
        BY <2>1, <2>2, <2>3 DEF FinalizeRecovery
<1> HIDE DEF cut, paid
<1>7. Monus(vault.totalBorrowed, auction.debt) <= facility.principal - paid + hist.forgiven
  <2>1. CASE vault.totalBorrowed > auction.debt
        BY <2>1, <1>1, <1>2, <1>4 DEF Monus
  <2>2. CASE ~(vault.totalBorrowed > auction.debt)
        BY <2>2, <1>2, <1>4 DEF Monus
  <2> QED
        BY <2>1, <2>2
<1> QED
    BY <1>3, <1>5, <1>6, <1>7 DEF VaultNeverOverstatesDebt

\* The other steps beside the credit line change neither book of the loan.
LEMMA BesideKeepsVaultBelow ==
    ASSUME VaultNeverOverstatesDebt,
           vault'.totalBorrowed = vault.totalBorrowed, facility' = facility, hist' = hist
    PROVE  VaultNeverOverstatesDebt'
  BY DEF VaultNeverOverstatesDebt

LEMMA VaultBelowNext ==
    RecoveryInv /\ VaultNeverOverstatesDebt /\ [RecoveryNext]_allVars
        => VaultNeverOverstatesDebt'
<1> SUFFICES ASSUME RecoveryInv, VaultNeverOverstatesDebt, [RecoveryNext]_allVars
             PROVE  VaultNeverOverstatesDebt'
    OBVIOUS
<1>1. vault \in Books
      BY Amountwise
<1>2. CASE CreditStep
      BY <1>2, VaultNext DEF CreditStep, VaultInv, RecoveryInv
<1>3. ASSUME NEW cap \in DepositCaps, OwnerSetsDepositCap(cap) PROVE VaultNeverOverstatesDebt'
      BY <1>1, <1>3, BesideKeepsVaultBelow DEF OwnerSetsDepositCap, VaultStep, Books
<1>4. ASSUME NEW debt, StartRecovery(debt) PROVE VaultNeverOverstatesDebt'
      BY <1>1, <1>4, LentFields, BesideKeepsVaultBelow DEF StartRecovery, FreezeForRecovery
<1>5. CASE FinalizeRecovery
      BY <1>5, FinalizeKeepsVaultBelow
<1>6. CASE FlushPendingRecovery
      BY <1>1, <1>6, LentFields, BesideKeepsVaultBelow DEF FlushPendingRecovery
<1>7. CASE UNCHANGED creditVars
      BY <1>7, BesideKeepsVaultBelow DEF creditVars
<1> QED
    BY <1>2, <1>3, <1>4, <1>5, <1>6, <1>7
       DEF RecoveryNext, TriggerLiquidation, OwnerStartsRecovery, ResetLiquidation, Bid,
           MarkExpired, allVars

\* Across defaults and auctions too, the vault never counts as lent more than the
\* facility's principal and what the owner forgave on the facility alone.
THEOREM VaultNeverOverstatesInRecovery == RecoverySpec => []VaultNeverOverstatesDebt
<1>1. RecoveryInit => VaultNeverOverstatesDebt
      BY DEF RecoveryInit, CreditInit, NewBooks, VaultNeverOverstatesDebt
<1> QED
    BY <1>1, VaultBelowNext, RecoveryInvAlways, PTL DEF RecoverySpec, allVars

-----------------------------------------------------------------------------
(* Interest, loan cycles and lending, with recoveries between. *)

\* Of the steps beside the credit line only finalizing touches the facility: it
\* accrues what is pending and cuts the debt.
LEMMA StepsOnFacility ==
    ASSUME [RecoveryNext]_allVars
    PROVE  \/ CreditNext
           \/ FinalizeRecovery
           \/ UNCHANGED <<now, facility, loansRepaid, totalAmountBorrowed, hist>>
<1>1. CASE CreditStep
      BY <1>1 DEF CreditStep
<1>2. ASSUME NEW debt, StartRecovery(debt)
      PROVE  UNCHANGED <<now, facility, loansRepaid, totalAmountBorrowed, hist>>
      BY <1>2 DEF StartRecovery
<1>3. ASSUME NEW cap, OwnerSetsDepositCap(cap)
      PROVE  UNCHANGED <<now, facility, loansRepaid, totalAmountBorrowed, hist>>
      BY <1>3 DEF OwnerSetsDepositCap, VaultStep
<1>4. CASE FlushPendingRecovery
      BY <1>4 DEF FlushPendingRecovery
<1>5. CASE UNCHANGED creditVars
      BY <1>5 DEF creditVars
<1> QED
    BY <1>1, <1>2, <1>3, <1>4, <1>5
       DEF RecoveryNext, TriggerLiquidation, OwnerStartsRecovery, ResetLiquidation, Bid,
           MarkExpired, allVars

LEMMA FinalizeAccrues ==
    ASSUME RecoveryInv, FinalizeRecovery
    PROVE  Accrues
<1>1. TypeInv /\ auction.debt \in Nat
      BY Amountwise DEF RecoveryInv
<1>2. facility'.lastAccrual = now
      BY <1>1, WriteDownFields DEF FinalizeRecovery
<1>3. now' = now /\ hist' = WithAccrual(hist)
      BY DEF FinalizeRecovery
<1> QED
    BY <1>1, <1>2, <1>3, AccrualHistory DEF Accrues

\* Interest stays exact through defaults, auctions and write-downs.
THEOREM InterestTracksInRecovery == RecoverySpec => []InterestTracksIntegral
<1>1. RecoveryInit => InterestInv
      BY InterestInit DEF RecoveryInit
<1>2. RecoveryInv /\ RecoveryInv' /\ InterestInv /\ [RecoveryNext]_allVars => InterestInv'
  <2> SUFFICES ASSUME RecoveryInv, RecoveryInv', InterestInv, [RecoveryNext]_allVars
               PROVE  InterestInv'
      OBVIOUS
  <2>1. TypeInv'
        BY DEF RecoveryInv
  <2>2. CASE CreditNext
        BY <2>2, InterestNext
  <2>3. CASE FinalizeRecovery
        BY <2>1, <2>3, FinalizeAccrues, InterestStep
  <2>4. CASE UNCHANGED <<now, facility, loansRepaid, totalAmountBorrowed, hist>>
        BY <2>1, <2>4, InterestStep
  <2> QED
        BY <2>2, <2>3, <2>4, StepsOnFacility
<1> QED
    BY <1>1, <1>2, InterestInvTracks, RecoveryInvAlways, PTL DEF RecoverySpec, allVars

\* The debt a recovery forgives, in full or in part, leaves no interest without
\* principal, and a debt it ends is no repaid loan.
LEMMA FinalizeKeepsCycles ==
    ASSUME RecoveryInv, RecoveryInv', CycleInv, FinalizeRecovery
    PROVE  CycleInv'
<1>1. TypeInv /\ TypeInv' /\ auction.debt \in Nat
      BY Amountwise DEF RecoveryInv
<1>2. /\ facility' = WrittenDown(Current, auction.debt)
      /\ loansRepaid' = loansRepaid /\ totalAmountBorrowed' = totalAmountBorrowed
      BY DEF FinalizeRecovery
<1>3. NoInterestWithoutPrincipal'
      BY <1>1, <1>2, CutLeavesNoInterest DEF CycleInv
<1>4. CyclesAreBackedByLoans'
      BY <1>1, <1>2, CutOpensNoDebt, NoNewCycle
<1> QED
    BY <1>1, <1>3, <1>4 DEF CycleInv

\* The loan history is not earned by a liquidation: each cycle it counts, and the
\* one still open, has a drawdown of its own; and interest ends with its principal.
THEOREM CyclesBackedInRecovery ==
    RecoverySpec => [](NoInterestWithoutPrincipal /\ CyclesAreBackedByLoans)
<1>1. RecoveryInit => CycleInv
      BY CyclesInit DEF RecoveryInit
<1>2. RecoveryInv /\ RecoveryInv' /\ CycleInv /\ [RecoveryNext]_allVars => CycleInv'
  <2> SUFFICES ASSUME RecoveryInv, RecoveryInv', CycleInv, [RecoveryNext]_allVars
               PROVE  CycleInv'
      OBVIOUS
  <2>1. CASE CreditNext
        BY <2>1, CyclesNext
  <2>2. CASE FinalizeRecovery
        BY <2>2, FinalizeKeepsCycles
  <2>3. CASE UNCHANGED <<now, facility, loansRepaid, totalAmountBorrowed, hist>>
    <3>1. TypeInv'
          BY DEF RecoveryInv
    <3>2. NoInterestWithoutPrincipal' /\ CyclesAreBackedByLoans'
          BY <2>3 DEF CycleInv, NoInterestWithoutPrincipal, CyclesAreBackedByLoans
    <3> QED
          BY <3>1, <3>2 DEF CycleInv
  <2> QED
        BY <2>1, <2>2, <2>3, StepsOnFacility
<1>3. CycleInv => NoInterestWithoutPrincipal /\ CyclesAreBackedByLoans
      BY DEF CycleInv
<1> QED
    BY <1>1, <1>2, <1>3, RecoveryInvAlways, PTL DEF RecoverySpec, allVars

\* After a recovery as before, nobody overdue is lent more, nor beyond the limit.
THEOREM LendsInGoodStandingInRecovery == RecoverySpec => LendOnlyInGoodStanding
<1> DEFINE Good == facility'.principal > facility.principal =>
                      /\ Owed(facility) > 0 => now - lastPayment <= periods.grace
                      /\ Owed(facility') <= facility'.limit
<1>1. RecoveryInv /\ [RecoveryNext]_allVars => [Good]_creditVars
  <2> SUFFICES ASSUME RecoveryInv, [RecoveryNext]_allVars,
                      facility'.principal > facility.principal
               PROVE  /\ Owed(facility) > 0 => now - lastPayment <= periods.grace
                      /\ Owed(facility') <= facility'.limit
      OBVIOUS
  <2>1. TypeInv /\ auction.debt \in Nat /\ facility.principal \in Nat
        BY Amountwise DEF RecoveryInv, TypeInv, CreditTypeOK, Facility
  <2>2. ASSUME FinalizeRecovery PROVE FALSE
    <3>1. facility'.principal \in Nat /\ facility'.principal <= facility.principal
          BY <2>1, <2>2, WriteDownFields DEF FinalizeRecovery, Facility
    <3> QED
          BY <2>1, <3>1
  <2>3. facility' # facility
        BY <2>1
  <2>4. CreditNext
        BY <2>2, <2>3, StepsOnFacility
  <2> QED
        BY <2>1, <2>4, LendingStep
<1> QED
    BY <1>1, RecoveryInvAlways, PTL DEF RecoverySpec, allVars, LendOnlyInGoodStanding

-----------------------------------------------------------------------------
(* The abstract account. *)

\* Finalizing forgives; the auction itself never touches the account.
LEMMA RecoveryStepsImplementAccount ==
    ASSUME RecoveryInv, RecoveryInv', [RecoveryNext]_allVars
    PROVE  Account!Next \/ (Debt' = Debt /\ Standing' = Standing)
<1>1. TypeInv /\ TypeInv' /\ auction.debt \in Nat
      BY Amountwise DEF RecoveryInv
<1>2. CASE CreditStep
      BY <1>1, <1>2, StepsImplementAccount DEF CreditStep
<1>3. CASE FinalizeRecovery
      BY <1>1, <1>3, CutForgives DEF FinalizeRecovery, Account!Next
<1>4. CASE now' = now /\ facility' = facility
      BY <1>4 DEF Debt, Standing
<1> QED
    BY <1>2, <1>3, <1>4
       DEF RecoveryNext, OwnerSetsDepositCap, VaultStep, TriggerLiquidation,
           OwnerStartsRecovery, StartRecovery, ResetLiquidation, Bid, MarkExpired,
           FlushPendingRecovery, allVars, creditVars

\* Under liquidation the facility still implements the abstract account: a debt is
\* forgiven by it, never raised, and no standing is made good.
THEOREM RecoveryImplementsAccount == RecoverySpec => ImplementsAccount
<1>1. RecoveryInit => Account!Init
      BY DEF RecoveryInit, CreditInit, Account!Init, Outstanding, Owed, Pending
<1>2. RecoveryInv /\ RecoveryInv' /\ [RecoveryNext]_allVars
         => [Account!Next]_<<Outstanding(facility, now), facility.status>>
      BY RecoveryStepsImplementAccount DEF Debt, Standing
<1> QED
    BY <1>1, <1>2, RecoveryInvAlways, PTL
       DEF RecoverySpec, allVars, ImplementsAccount, Account!Spec
=============================================================================
