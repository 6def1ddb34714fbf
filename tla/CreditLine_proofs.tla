-------------------------- MODULE CreditLine_proofs --------------------------
(***************************************************************************)
(* Theorems about CreditLine, for every value of its constants that meets  *)
(* CreditAssumption and BooksAssumption.  First what the operators on the  *)
(* vault's books and on the facility keep, then type correctness, then the *)
(* safety invariants the runs check, last the refinement of CreditAccount. *)
(***************************************************************************)
EXTENDS CreditLine, TLAPS

-----------------------------------------------------------------------------
(* Arithmetic. *)

\* Division by a positive number stays in the naturals and loses less than one.
LEMMA Division ==
    ASSUME NEW a \in Nat, NEW b \in Nat \ {0}
    PROVE  /\ a \div b \in Nat
           /\ (a \div b) * b <= a
           /\ a < ((a \div b) + 1) * b
  BY SMT

\* A product of naturals is a natural.
LEMMA Product ==
    ASSUME NEW a \in Nat, NEW b \in Nat, NEW c \in Nat
    PROVE  a * b * c \in Nat
  BY SMT

-----------------------------------------------------------------------------
(* The vault's books. *)

\* The vault's operations keep the shape of its books when their amounts are
\* natural numbers the balance covers.
LEMMA BooksOperations ==
    ASSUME NEW v \in Books, NEW amount \in Nat, NEW interest \in Nat, NEW frozen \in BOOLEAN
    PROVE  /\ AfterRepayment(v, amount, interest) \in Books
           /\ AfterRepayment(v, amount, interest).totalBorrowed
                 = Monus(v.totalBorrowed, amount)
           /\ AfterWriteDownLoss(v, amount) \in Books
           /\ AfterSetFrozen(v, frozen) \in Books
           /\ AfterEntry(v, amount) \in Books
           /\ amount <= v.balance => /\ AfterBorrow(v, amount) \in Books
                                     /\ AfterExit(v, amount) \in Books
           /\ v.accumulatedFees <= v.balance => AfterCollectFees(v) \in Books
<1>1. FeeOn(v, interest) \in Nat
  <2>1. interest * v.protocolFeeBps \in Nat
    BY BooksAssumption DEF Books
  <2>2. QED BY <2>1, Division, BooksAssumption DEF FeeOn
<1>2. AfterRepayment(v, amount, interest) \in Books
  <2> DEFINE w == [v EXCEPT !.accumulatedFees = @ + FeeOn(v, interest)]
             x == [w EXCEPT !.totalBorrowed = Monus(@, amount)]
  <2>1. w \in Books
    BY <1>1 DEF Books
  <2> HIDE DEF w
  <2>2. x \in Books
    BY <2>1 DEF Books, Monus
  <2> HIDE DEF x
  <2>3. [x EXCEPT !.balance = @ + amount] \in Books
    BY <2>2 DEF Books
  <2>4. QED BY <2>3 DEF AfterRepayment, w, x
<1>3. AfterRepayment(v, amount, interest).totalBorrowed = Monus(v.totalBorrowed, amount)
  BY DEF Books, AfterRepayment
<1>4. ASSUME amount <= v.balance
      PROVE  AfterBorrow(v, amount) \in Books
  <2> DEFINE w == [v EXCEPT !.balance = @ - amount]
  <2>1. w \in Books
    BY <1>4 DEF Books
  <2> HIDE DEF w
  <2>2. [w EXCEPT !.totalBorrowed = @ + amount] \in Books
    BY <2>1 DEF Books
  <2>3. QED BY <2>2 DEF AfterBorrow, w
<1>5. ASSUME v.accumulatedFees <= v.balance
      PROVE  AfterCollectFees(v) \in Books
  <2> DEFINE w == [v EXCEPT !.accumulatedFees = 0]
  <2>1. w \in Books /\ w.balance = v.balance
    BY DEF Books
  <2> HIDE DEF w
  <2>2. [w EXCEPT !.balance = @ - v.accumulatedFees] \in Books
    BY <1>5, <2>1 DEF Books
  <2>3. QED BY <2>2 DEF AfterCollectFees, w
<1>6. AfterWriteDownLoss(v, amount) \in Books
  BY DEF Books, AfterWriteDownLoss, Monus
<1>7. AfterSetFrozen(v, frozen) \in Books /\ AfterEntry(v, amount) \in Books
  BY DEF Books, AfterSetFrozen, AfterEntry
<1>8. amount <= v.balance => AfterExit(v, amount) \in Books
  BY DEF Books, AfterExit
<1>9. QED BY <1>2, <1>3, <1>4, <1>5, <1>6, <1>7, <1>8

\* No more than the vault holds can be borrowed.
LEMMA LiquidityIsHeld ==
    ASSUME NEW v \in Books
    PROVE  AvailableLiquidity(v) \in Nat /\ AvailableLiquidity(v) <= v.balance
  BY DEF Books, AvailableLiquidity, Monus

-----------------------------------------------------------------------------
(* The facility. *)

\* Pending interest is a natural number as long as accrual is not in the future.
LEMMA PendingType ==
    ASSUME NEW f \in Facility, NEW t \in Nat, f.lastAccrual <= t
    PROVE  Pending(f, t) \in Nat
<1>1. f.principal * f.rate * (t - f.lastAccrual) \in Nat
  BY Product DEF Facility
<1>2. QED BY <1>1, Division, CreditAssumption DEF Pending

\* What _accrueInterest changes, and what it leaves alone.
LEMMA AccruedFields ==
    ASSUME NEW f \in Facility, NEW t \in Nat, f.lastAccrual <= t
    PROVE  /\ Accrued(f, t) \in Facility
           /\ Accrued(f, t).principal = f.principal
           /\ Accrued(f, t).accruedInterest = f.accruedInterest + Pending(f, t)
           /\ Accrued(f, t).lastAccrual = t
           /\ Accrued(f, t).rate = f.rate
           /\ Accrued(f, t).status = f.status
<1> DEFINE g == [f EXCEPT !.accruedInterest = @ + Pending(f, t)]
<1>1. g \in Facility
  BY PendingType DEF Facility
<1> HIDE DEF g
<1>2. [g EXCEPT !.lastAccrual = t] \in Facility
  BY <1>1 DEF Facility
<1>3. QED BY <1>2 DEF Accrued, Facility, g

\* New terms are the rate and limit and nothing else.
LEMMA OnTermsFields ==
    ASSUME NEW f \in Facility, NEW offer \in Offers
    PROVE  /\ OnTerms(f, offer) \in Facility
           /\ OnTerms(f, offer).principal = f.principal
           /\ OnTerms(f, offer).accruedInterest = f.accruedInterest
           /\ OnTerms(f, offer).lastAccrual = f.lastAccrual
           /\ OnTerms(f, offer).status = f.status
<1> DEFINE g == [f EXCEPT !.rate = offer.rate]
<1>1. offer \in [limit : Nat, rate : Nat]
  BY CreditAssumption
<1>2. g \in Facility
  BY <1>1 DEF Facility
<1> HIDE DEF g
<1>3. [g EXCEPT !.limit = offer.limit] \in Facility
  BY <1>1, <1>2 DEF Facility
<1>4. QED BY <1>3 DEF OnTerms, Facility, g

\* A payment no larger than the debt leaves a facility, takes interest first and
\* touches nothing else.
LEMMA PaidFields ==
    ASSUME NEW f \in Facility, NEW amount \in Nat, amount <= Owed(f)
    PROVE  /\ Paid(f, amount) \in Facility
           /\ Paid(f, amount).principal = f.principal - Monus(amount, f.accruedInterest)
           /\ Paid(f, amount).accruedInterest = Monus(f.accruedInterest, amount)
           /\ Paid(f, amount).lastAccrual = f.lastAccrual
           /\ Paid(f, amount).rate = f.rate
           /\ Paid(f, amount).status = f.status
           /\ Paid(f, amount).principal <= f.principal
<1> DEFINE principal == f.principal - Monus(amount, f.accruedInterest)
           g         == [f EXCEPT !.accruedInterest = Monus(@, amount)]
<1>1. principal \in Nat /\ principal <= f.principal
  BY DEF Facility, Owed, Monus
<1>2. g \in Facility /\ g.principal = f.principal
  BY DEF Facility, Monus
<1> HIDE DEF principal, g
<1>3. [g EXCEPT !.principal = principal] \in Facility
  BY <1>1, <1>2 DEF Facility
<1>4. Paid(f, amount) = [g EXCEPT !.principal = principal]
  BY <1>2 DEF Paid, g, principal
<1>5. QED
  BY <1>1, <1>3, <1>4 DEF Paid, principal, Facility

\* Reassessing the status touches nothing but the status.
LEMMA ReassessedFields ==
    ASSUME NEW f \in Facility
    PROVE  /\ Reassessed(f) \in Facility
           /\ Reassessed(f).principal = f.principal
           /\ Reassessed(f).accruedInterest = f.accruedInterest
           /\ Reassessed(f).lastAccrual = f.lastAccrual
           /\ Reassessed(f).rate = f.rate
  BY DEF Facility, Statuses, Reassessed
-----------------------------------------------------------------------------
(* Type correctness. *)

\* Types, and that interest was never accrued ahead of the clock.
TypeInv ==
    /\ CreditTypeOK
    /\ facility.lastAccrual <= now

\* The facility and the history after the accrual each transaction starts with.
LEMMA CurrentFields ==
    ASSUME TypeInv
    PROVE  /\ Current \in Facility
           /\ Current.principal = facility.principal
           /\ Current.accruedInterest = facility.accruedInterest + Pending(facility, now)
           /\ Current.lastAccrual = now
           /\ Current.rate = facility.rate
           /\ Current.status = facility.status
           /\ Pending(facility, now) \in Nat
  BY AccruedFields, PendingType DEF TypeInv, CreditTypeOK, Current

LEMMA AccrualHistory ==
    ASSUME TypeInv
    PROVE  /\ WithAccrual(hist) \in HistoryType
           /\ WithAccrual(hist).integral = hist.integral
           /\ WithAccrual(hist).charged = hist.charged + Pending(facility, now)
           /\ WithAccrual(hist).accruals =
                 IF facility.principal > 0 /\ facility.lastAccrual < now
                    THEN hist.accruals + 1 ELSE hist.accruals
           /\ WithAccrual(hist).forgiven = hist.forgiven
<1> DEFINE n == IF facility.principal > 0 /\ facility.lastAccrual < now
                   THEN hist.accruals + 1 ELSE hist.accruals
           g == [hist EXCEPT !.charged = @ + Pending(facility, now)]
<1>1. hist \in HistoryType /\ Pending(facility, now) \in Nat
  BY CurrentFields DEF TypeInv, CreditTypeOK
<1>2. n \in Nat
  BY <1>1 DEF HistoryType
<1>3. /\ g \in HistoryType /\ g.accruals = hist.accruals
      /\ g.integral = hist.integral /\ g.forgiven = hist.forgiven
      /\ g.charged = hist.charged + Pending(facility, now)
  BY <1>1 DEF HistoryType
<1>4. WithAccrual(hist) = [g EXCEPT !.accruals = n]
  BY <1>3 DEF WithAccrual
<1> HIDE DEF n, g
<1>5. [g EXCEPT !.accruals = n] \in HistoryType
  BY <1>2, <1>3 DEF HistoryType
<1>6. /\ [g EXCEPT !.accruals = n].integral = g.integral
      /\ [g EXCEPT !.accruals = n].charged = g.charged
      /\ [g EXCEPT !.accruals = n].forgiven = g.forgiven
      /\ [g EXCEPT !.accruals = n].accruals = n
  BY <1>3 DEF HistoryType
<1>7. QED BY <1>3, <1>4, <1>5, <1>6 DEF n

\* A payment is cut to the debt, and its interest part to the payment.
LEMMA PaymentBounds ==
    ASSUME TypeInv, NEW amount \in Nat
    PROVE  /\ Payment(amount) \in Nat
           /\ Payment(amount) <= Owed(Current)
           /\ InterestIn(amount) \in Nat
           /\ InterestIn(amount) <= Payment(amount)
  BY CurrentFields DEF Payment, InterestIn, Lesser, Owed, Facility

\* The facility after a repayment, whoever the caller.
LEMMA RepayFields ==
    ASSUME TypeInv, NEW amount \in Nat, NEW byAgent \in BOOLEAN,
           RepayFacility(amount, byAgent)
    PROVE  /\ facility' \in Facility
           /\ facility'.principal
                 = facility.principal - Monus(Payment(amount), Current.accruedInterest)
           /\ facility'.accruedInterest = Monus(Current.accruedInterest, Payment(amount))
           /\ facility'.lastAccrual = now
           /\ facility'.rate = facility.rate
           /\ hist' = WithAccrual(hist)
           /\ loansRepaid' \in Nat
           /\ lastPayment' \in Nat
<1> DEFINE f == Paid(Current, Payment(amount))
           resets == \/ Owed(f) = 0
                     \/ byAgent /\ Payment(amount) >= Owed(Current) \div TimerShare
<1>1. /\ f \in Facility
      /\ f.principal = facility.principal - Monus(Payment(amount), Current.accruedInterest)
      /\ f.accruedInterest = Monus(Current.accruedInterest, Payment(amount))
      /\ f.lastAccrual = now
      /\ f.rate = facility.rate
  BY CurrentFields, PaymentBounds, PaidFields
<1>2. /\ facility' = IF resets THEN [f EXCEPT !.status = Cured(@)] ELSE f
      /\ hist' = WithAccrual(hist)
      /\ loansRepaid' = IF ClosesCycle(f) THEN loansRepaid + 1 ELSE loansRepaid
      /\ lastPayment' = IF resets THEN now ELSE lastPayment
  BY DEF RepayFacility
<1> HIDE DEF f, resets
<1>3. /\ [f EXCEPT !.status = Cured(@)] \in Facility
      /\ [f EXCEPT !.status = Cured(@)].principal = f.principal
      /\ [f EXCEPT !.status = Cured(@)].accruedInterest = f.accruedInterest
      /\ [f EXCEPT !.status = Cured(@)].lastAccrual = f.lastAccrual
      /\ [f EXCEPT !.status = Cured(@)].rate = f.rate
  BY <1>1 DEF Facility, Statuses, Cured
<1>4. loansRepaid' \in Nat /\ lastPayment' \in Nat
  BY <1>2 DEF TypeInv, CreditTypeOK
<1>5. CASE resets
  BY <1>1, <1>2, <1>3, <1>4, <1>5
<1>6. CASE ~resets
  BY <1>1, <1>2, <1>4, <1>6
<1>7. QED BY <1>5, <1>6

\* A write-down takes no more than the debt and leaves the clock of accrual.
LEMMA WriteDownFields ==
    ASSUME TypeInv, NEW amount \in Nat
    PROVE  /\ WrittenDown(Current, amount) \in Facility
           /\ WrittenDown(Current, amount).principal <= facility.principal
           /\ WrittenDown(Current, amount).principal
                 = facility.principal
                     - Monus(Lesser(amount, Owed(Current)), Current.accruedInterest)
           /\ WrittenDown(Current, amount).accruedInterest
                 = Monus(Current.accruedInterest, Lesser(amount, Owed(Current)))
           /\ WrittenDown(Current, amount).lastAccrual = now
           /\ WrittenDown(Current, amount).rate = facility.rate
<1>1. Lesser(amount, Owed(Current)) \in Nat /\ Lesser(amount, Owed(Current)) <= Owed(Current)
  BY CurrentFields DEF Lesser, Owed, Facility
<1>2. QED BY <1>1, CurrentFields, PaidFields DEF WrittenDown

\* A drawdown adds the amount to the principal, on the new terms.
LEMMA DrawdownFields ==
    ASSUME TypeInv, NEW amount \in Nat, NEW offer \in Offers
    PROVE  LET f == [OnTerms(Current, offer) EXCEPT !.principal = @ + amount]
           IN  /\ f \in Facility
               /\ f.principal = facility.principal + amount
               /\ f.accruedInterest = facility.accruedInterest + Pending(facility, now)
               /\ f.lastAccrual = now
<1> DEFINE g == OnTerms(Current, offer)
<1>1. /\ g \in Facility
      /\ g.principal = facility.principal
      /\ g.accruedInterest = facility.accruedInterest + Pending(facility, now)
      /\ g.lastAccrual = now
  BY CurrentFields, OnTermsFields
<1> HIDE DEF g
<1>2. /\ [g EXCEPT !.principal = @ + amount] \in Facility
      /\ [g EXCEPT !.principal = @ + amount].principal = g.principal + amount
      /\ [g EXCEPT !.principal = @ + amount].accruedInterest = g.accruedInterest
      /\ [g EXCEPT !.principal = @ + amount].lastAccrual = g.lastAccrual
  BY <1>1 DEF Facility
<1>3. QED BY <1>1, <1>2 DEF g

LEMMA TypeInit == CreditInit => TypeInv
<1> SUFFICES ASSUME CreditInit PROVE TypeInv
  OBVIOUS
<1>1. vault \in Books
  BY BooksAssumption DEF CreditInit, NewBooks, Books
<1>2. facility \in Facility /\ facility.lastAccrual = 0
  BY DEF CreditInit, Facility, Statuses
<1>3. hist \in HistoryType
  BY DEF CreditInit, HistoryType
<1>4. gate \in [Gates -> BOOLEAN]
  BY DEF CreditInit
<1>5. QED BY <1>1, <1>2, <1>3, <1>4 DEF CreditInit, TypeInv, CreditTypeOK

LEMMA TypeNext == TypeInv /\ [CreditNext]_creditVars => TypeInv'
<1> SUFFICES ASSUME TypeInv, [CreditNext]_creditVars PROVE TypeInv'
  OBVIOUS
<1> USE DEF TypeInv, CreditTypeOK
<1>1. ASSUME NEW amount \in MinDrawdown..MaxLent, NEW offer \in Offers,
             Drawdown(amount, offer)
      PROVE  TypeInv'
  <2>1. amount \in Nat /\ amount <= vault.balance
    BY <1>1, CreditAssumption, LiquidityIsHeld DEF Drawdown, Books
  <2>2. AfterBorrow(vault, amount) \in Books
    BY <2>1, BooksOperations
  <2>3. facility' \in Facility /\ facility'.lastAccrual = now
    BY <1>1, <2>1, DrawdownFields DEF Drawdown
  <2>4. hist' \in HistoryType
    BY <1>1, AccrualHistory DEF Drawdown
  <2>5. QED BY <1>1, <2>1, <2>2, <2>3, <2>4 DEF Drawdown
<1>2. ASSUME NEW offer \in Offers, RefreshCreditLine(offer)
      PROVE  TypeInv'
  <2>1. facility' \in Facility /\ facility'.lastAccrual = now
    BY <1>2, CurrentFields, OnTermsFields DEF RefreshCreditLine
  <2>2. hist' \in HistoryType
    BY <1>2, AccrualHistory DEF RefreshCreditLine
  <2>3. QED BY <1>2, <2>1, <2>2 DEF RefreshCreditLine
<1>3. CASE UpdateStatus
  <2>1. facility' \in Facility /\ facility'.lastAccrual = now
    BY <1>3, CurrentFields, ReassessedFields DEF UpdateStatus
  <2>2. vault' \in Books
    BY <1>3, BooksOperations DEF UpdateStatus, FrozenIfDefaulted
  <2>3. hist' \in HistoryType
    BY <1>3, AccrualHistory DEF UpdateStatus
  <2>4. QED BY <1>3, <2>1, <2>2, <2>3 DEF UpdateStatus
<1>4. ASSUME NEW amount \in Amounts, NEW byAgent \in BOOLEAN, Repay(amount, byAgent)
      PROVE  TypeInv'
  <2>1. amount \in Nat
    BY CurrentFields DEF Amounts, Outstanding, Owed, Facility
  <2>2. /\ facility' \in Facility /\ facility'.lastAccrual = now
        /\ hist' \in HistoryType /\ loansRepaid' \in Nat /\ lastPayment' \in Nat
    BY <1>4, <2>1, RepayFields, AccrualHistory DEF Repay
  <2>3. vault' \in Books
    BY <1>4, <2>1, PaymentBounds, BooksOperations DEF Repay, AfterRepay
  <2>4. QED BY <1>4, <2>2, <2>3 DEF Repay
<1>5. ASSUME NEW amount \in WriteDowns, OwnerWriteDown(amount)
      PROVE  TypeInv'
  <2>1. amount \in Nat
    BY CreditAssumption
  <2>2. /\ facility' \in Facility /\ facility'.lastAccrual = now
        /\ facility'.principal <= facility.principal
    BY <1>5, <2>1, WriteDownFields DEF OwnerWriteDown
  <2>3. WithAccrual(hist) \in HistoryType
    BY AccrualHistory
  <2>4. facility.principal - facility'.principal \in Nat
    BY <2>2 DEF TypeInv, CreditTypeOK, Facility
  <2>5. hist' = [WithAccrual(hist) EXCEPT
                     !.forgiven = @ + facility.principal - facility'.principal]
    BY <1>5 DEF OwnerWriteDown
  <2>6. hist' \in HistoryType
    BY <2>3, <2>4, <2>5 DEF HistoryType
  <2>7. QED BY <1>5, <2>2, <2>6 DEF OwnerWriteDown
<1>6. ASSUME NEW p \in PeriodChoices, SetPeriods(p)
      PROVE  TypeInv'
  BY <1>6 DEF SetPeriods
<1>7. ASSUME NEW g \in OwnerGates, TurnGate(g)
      PROVE  TypeInv'
  BY <1>7 DEF TurnGate
<1>8. ASSUME NEW v \in Books, VaultStep(v)
      PROVE  TypeInv'
  BY <1>8 DEF VaultStep
<1>9. ASSUME OwnerNext
      PROVE  TypeInv'
  <2>1. CASE CollectFees
    <3>1. vault.accumulatedFees <= vault.balance
      BY <2>1 DEF CollectFees
    <3>2. AfterCollectFees(vault) \in Books
      BY <3>1, BooksOperations
    <3>3. QED BY <2>1, <3>2, <1>8 DEF CollectFees
  <2>2. ASSUME NEW frozen \in BOOLEAN, OwnerSetFrozen(frozen)
        PROVE  TypeInv'
    BY <2>2, <1>8, BooksOperations DEF OwnerSetFrozen
  <2>3. ASSUME NEW loss \in WriteDowns, OwnerWriteDownVault(loss)
        PROVE  TypeInv'
    BY <2>3, <1>8, BooksOperations, CreditAssumption DEF OwnerWriteDownVault
  <2>4. QED BY <1>5, <1>6, <1>7, <1>9, <2>1, <2>2, <2>3 DEF OwnerNext
<1>10. ASSUME BackersNext
       PROVE  TypeInv'
  <2>1. ASSUME NEW assets \in Deposits, BackersDeposit(assets)
        PROVE  TypeInv'
    BY <2>1, <1>8, BooksOperations, CreditAssumption DEF BackersDeposit
  <2>2. ASSUME NEW assets \in Withdrawals, BackersWithdraw(assets)
        PROVE  TypeInv'
    <3>1. assets \in Nat /\ assets <= vault.balance
      BY <2>2, CreditAssumption DEF BackersWithdraw, Lesser, TotalAssets, Monus, Books
    <3>2. QED BY <2>2, <3>1, <1>8, BooksOperations DEF BackersWithdraw
  <2>3. QED BY <1>10, <2>1, <2>2 DEF BackersNext
<1>11. CASE Tick
  <2>1. facility.principal * facility.rate \in Nat
    BY DEF Facility
  <2>2. hist' \in HistoryType
    BY <1>11, <2>1 DEF Tick, HistoryType
  <2>3. QED BY <1>11, <2>2 DEF Tick, Facility
<1>12. CASE UNCHANGED creditVars
  BY <1>12 DEF creditVars
<1>13. QED
  BY <1>1, <1>2, <1>3, <1>4, <1>9, <1>10, <1>11, <1>12 DEF CreditNext, BorrowerNext

\* Every variable of the credit line keeps its type in every behaviour.
THEOREM CreditTypeCorrect == CreditSpec => []CreditTypeOK
<1>1. CreditInit => TypeInv
  BY TypeInit
<1>2. TypeInv /\ [CreditNext]_creditVars => TypeInv'
  BY TypeNext
<1>3. TypeInv => CreditTypeOK
  BY DEF TypeInv
<1>4. QED BY <1>1, <1>2, <1>3, PTL DEF CreditSpec

-----------------------------------------------------------------------------
(* The vault and the facility. *)

\* Before the vault's asset count can be compared with the facility, types.
VaultInv == TypeInv /\ VaultNeverOverstatesDebt

\* No operation on the vault but a loan raises what it has lent.
LEMMA LentFields ==
    ASSUME NEW v \in Books, NEW x, NEW frozen
    PROVE  /\ AfterWriteDownLoss(v, x).totalBorrowed = Monus(v.totalBorrowed, x)
           /\ AfterSetFrozen(v, frozen).totalBorrowed = v.totalBorrowed
           /\ AfterCollectFees(v).totalBorrowed = v.totalBorrowed
           /\ AfterEntry(v, x).totalBorrowed = v.totalBorrowed
           /\ AfterExit(v, x).totalBorrowed = v.totalBorrowed
           /\ AfterBorrow(v, x).totalBorrowed = v.totalBorrowed + x
  BY DEF Books, AfterWriteDownLoss, AfterSetFrozen, AfterCollectFees, AfterEntry,
         AfterExit, AfterBorrow

\* A repayment takes at least as much off the vault's loan as off the principal.
LEMMA PaymentKeepsVaultBelow ==
    ASSUME VaultInv, NEW amount \in Nat, NEW byAgent \in BOOLEAN,
           RepayFacility(amount, byAgent), vault'.totalBorrowed \in Nat,
           vault'.totalBorrowed <= Monus(vault.totalBorrowed, Payment(amount))
    PROVE  VaultNeverOverstatesDebt'
<1> DEFINE pay == Payment(amount)
           int == Current.accruedInterest
<1>1. pay \in Nat /\ int \in Nat /\ pay <= Owed(Current) /\ InterestIn(amount) \in Nat
  BY PaymentBounds, CurrentFields DEF VaultInv, Facility
<1>2. facility'.principal = facility.principal - Monus(pay, int)
  BY <1>1, RepayFields DEF VaultInv
<1>3. vault'.totalBorrowed \in Nat /\ vault'.totalBorrowed <= Monus(vault.totalBorrowed, pay)
  OBVIOUS
<1>4. hist'.forgiven = hist.forgiven
  BY RepayFields, AccrualHistory DEF VaultInv
<1>5. /\ facility.principal \in Nat /\ vault.totalBorrowed \in Nat /\ hist.forgiven \in Nat
      /\ vault.totalBorrowed <= facility.principal + hist.forgiven
  BY DEF VaultInv, TypeInv, CreditTypeOK, VaultNeverOverstatesDebt, Facility, Books,
         HistoryType
<1>6. Monus(pay, int) \in Nat /\ Monus(pay, int) <= pay
      /\ Monus(pay, int) <= facility.principal
  BY <1>1, <1>5, CurrentFields DEF Monus, Owed, VaultInv
<1> HIDE DEF pay, int
<1>7. Monus(vault.totalBorrowed, pay) <= facility.principal - Monus(pay, int) + hist.forgiven
  <2>1. CASE vault.totalBorrowed > pay
    BY <2>1, <1>1, <1>5, <1>6 DEF Monus
  <2>2. CASE ~(vault.totalBorrowed > pay)
    BY <2>2, <1>5, <1>6 DEF Monus
  <2>3. QED BY <2>1, <2>2
<1>8. Monus(vault.totalBorrowed, pay) \in Nat
  BY <1>1, <1>5 DEF Monus
<1>9. QED BY <1>2, <1>3, <1>4, <1>5, <1>6, <1>7, <1>8 DEF VaultNeverOverstatesDebt

LEMMA RepayKeepsVaultBelow ==
    ASSUME VaultInv, NEW amount \in Nat, NEW byAgent \in BOOLEAN, Repay(amount, byAgent)
    PROVE  VaultNeverOverstatesDebt'
<1>1. Payment(amount) \in Nat /\ InterestIn(amount) \in Nat
  BY PaymentBounds DEF VaultInv
<1>2. vault'.totalBorrowed = Monus(vault.totalBorrowed, Payment(amount))
  BY <1>1, BooksOperations DEF VaultInv, TypeInv, CreditTypeOK, Repay, AfterRepay
<1>3. Monus(vault.totalBorrowed, Payment(amount)) \in Nat
  BY <1>1 DEF Monus, VaultInv, TypeInv, CreditTypeOK, Books
<1>4. QED BY <1>2, <1>3, PaymentKeepsVaultBelow DEF Repay

LEMMA VaultNext == VaultInv /\ [CreditNext]_creditVars => VaultInv'
<1> SUFFICES ASSUME VaultInv, [CreditNext]_creditVars PROVE VaultNeverOverstatesDebt'
  BY TypeNext DEF VaultInv
<1>t. /\ vault \in Books /\ facility \in Facility /\ hist \in HistoryType /\ TypeInv
      /\ facility.principal \in Nat /\ vault.totalBorrowed \in Nat /\ hist.forgiven \in Nat
      /\ vault.totalBorrowed <= facility.principal + hist.forgiven
  BY DEF VaultInv, TypeInv, CreditTypeOK, VaultNeverOverstatesDebt, Facility, Books,
         HistoryType
<1>1. ASSUME NEW amount \in MinDrawdown..MaxLent, NEW offer \in Offers,
             Drawdown(amount, offer)
      PROVE  VaultNeverOverstatesDebt'
  <2>1. amount \in Nat
    BY CreditAssumption
  <2>2. facility'.principal = facility.principal + amount
    BY <1>1, <1>t, <2>1, DrawdownFields DEF Drawdown
  <2>3. vault'.totalBorrowed = vault.totalBorrowed + amount
    BY <1>1, <1>t, LentFields DEF Drawdown
  <2>4. hist'.forgiven = hist.forgiven
    BY <1>1, <1>t, AccrualHistory DEF Drawdown
  <2>5. QED BY <1>t, <2>1, <2>2, <2>3, <2>4 DEF VaultNeverOverstatesDebt
<1>2. ASSUME NEW offer \in Offers, RefreshCreditLine(offer)
      PROVE  VaultNeverOverstatesDebt'
  <2>1. facility'.principal = facility.principal /\ hist'.forgiven = hist.forgiven
    BY <1>2, <1>t, CurrentFields, OnTermsFields, AccrualHistory DEF RefreshCreditLine
  <2>2. QED BY <1>2, <1>t, <2>1 DEF RefreshCreditLine, VaultNeverOverstatesDebt
<1>3. CASE UpdateStatus
  <2>1. facility'.principal = facility.principal /\ hist'.forgiven = hist.forgiven
    BY <1>3, <1>t, CurrentFields, ReassessedFields, AccrualHistory DEF UpdateStatus
  <2>2. vault'.totalBorrowed = vault.totalBorrowed
    BY <1>3, <1>t, LentFields DEF UpdateStatus, FrozenIfDefaulted
  <2>3. QED BY <1>t, <2>1, <2>2 DEF VaultNeverOverstatesDebt
<1>4. ASSUME NEW amount \in Amounts, NEW byAgent \in BOOLEAN, Repay(amount, byAgent)
      PROVE  VaultNeverOverstatesDebt'
  <2>1. amount \in Nat
    BY <1>t, CurrentFields DEF Amounts, Outstanding, Owed, Facility
  <2>2. QED BY <1>4, <2>1, RepayKeepsVaultBelow
<1>5. ASSUME NEW amount \in WriteDowns, OwnerWriteDown(amount)
      PROVE  VaultNeverOverstatesDebt'
  <2>1. amount \in Nat
    BY CreditAssumption
  <2>2. facility'.principal \in Nat /\ facility'.principal <= facility.principal
    BY <1>5, <1>t, <2>1, WriteDownFields DEF OwnerWriteDown, Facility
  <2>3. hist'.forgiven = hist.forgiven + facility.principal - facility'.principal
    BY <1>5, <1>t, AccrualHistory DEF OwnerWriteDown, HistoryType
  <2>4. vault' = vault
    BY <1>5 DEF OwnerWriteDown
  <2>5. QED BY <1>t, <2>2, <2>3, <2>4 DEF VaultNeverOverstatesDebt
<1>6. ASSUME NEW v \in Books, VaultStep(v), v.totalBorrowed <= vault.totalBorrowed
      PROVE  VaultNeverOverstatesDebt'
  <2>1. v.totalBorrowed \in Nat
    BY DEF Books
  <2>2. QED BY <1>6, <1>t, <2>1 DEF VaultStep, VaultNeverOverstatesDebt
<1>7. CASE OwnerNext
  <2>1. CASE CollectFees
    <3>1. vault.accumulatedFees <= vault.balance
      BY <2>1 DEF CollectFees
    <3>2. AfterCollectFees(vault) \in Books
      BY <1>t, <3>1, BooksOperations
    <3>3. QED BY <2>1, <3>2, <1>t, <1>6, LentFields DEF CollectFees
  <2>2. ASSUME NEW frozen \in BOOLEAN, OwnerSetFrozen(frozen)
        PROVE  VaultNeverOverstatesDebt'
    <3>1. /\ AfterSetFrozen(vault, frozen) \in Books
          /\ AfterSetFrozen(vault, frozen).totalBorrowed = vault.totalBorrowed
      BY <1>t, LentFields, BooksOperations
    <3>2. QED BY <2>2, <1>t, <1>6, <3>1 DEF OwnerSetFrozen
  <2>3. ASSUME NEW loss \in WriteDowns, OwnerWriteDownVault(loss)
        PROVE  VaultNeverOverstatesDebt'
    <3>1. loss \in Nat
      BY CreditAssumption
    <3>2. Monus(vault.totalBorrowed, loss) <= vault.totalBorrowed
      BY <3>1, <1>t DEF Monus
    <3>3. QED BY <2>3, <1>t, <1>6, <3>1, <3>2, LentFields, BooksOperations
              DEF OwnerWriteDownVault
  <2>4. CASE (\E p \in PeriodChoices : SetPeriods(p)) \/ (\E g \in OwnerGates : TurnGate(g))
    BY <2>4, <1>t DEF SetPeriods, TurnGate, VaultNeverOverstatesDebt
  <2>5. QED BY <1>5, <1>7, <2>1, <2>2, <2>3, <2>4 DEF OwnerNext
<1>8. CASE BackersNext
  <2>1. ASSUME NEW assets \in Deposits, BackersDeposit(assets)
        PROVE  VaultNeverOverstatesDebt'
    <3>1. assets \in Nat
      BY CreditAssumption
    <3>2. /\ AfterEntry(vault, assets) \in Books
          /\ AfterEntry(vault, assets).totalBorrowed = vault.totalBorrowed
      BY <3>1, <1>t, LentFields, BooksOperations
    <3>3. QED BY <2>1, <1>t, <1>6, <3>2 DEF BackersDeposit
  <2>2. ASSUME NEW assets \in Withdrawals, BackersWithdraw(assets)
        PROVE  VaultNeverOverstatesDebt'
    <3>1. assets \in Nat /\ assets <= vault.balance
      BY <2>2, <1>t, CreditAssumption
         DEF BackersWithdraw, Lesser, TotalAssets, Monus, Books
    <3>2. /\ AfterExit(vault, assets) \in Books
          /\ AfterExit(vault, assets).totalBorrowed = vault.totalBorrowed
      BY <3>1, <1>t, LentFields, BooksOperations
    <3>3. QED BY <2>2, <1>t, <1>6, <3>2 DEF BackersWithdraw
  <2>3. QED BY <1>8, <2>1, <2>2 DEF BackersNext
<1>9. CASE Tick
  <2>1. hist'.forgiven = hist.forgiven
    BY <1>9, <1>t DEF Tick, HistoryType
  <2>2. QED BY <1>9, <1>t, <2>1 DEF Tick, VaultNeverOverstatesDebt
<1>10. CASE UNCHANGED creditVars
  BY <1>10, <1>t DEF creditVars, VaultNeverOverstatesDebt
<1>11. QED
  <2>1. CASE BorrowerNext
    BY <2>1, <1>1, <1>2, <1>3 DEF BorrowerNext
  <2>2. CASE \E amount \in Amounts, byAgent \in BOOLEAN : Repay(amount, byAgent)
    BY <2>2, <1>4
  <2>3. QED BY <2>1, <2>2, <1>7, <1>8, <1>9, <1>10 DEF CreditNext

\* The vault never counts as lent more than the facility's principal and what
\* the owner forgave on the facility alone.
THEOREM VaultNeverOverstates == CreditSpec => []VaultNeverOverstatesDebt
<1>1. CreditInit => VaultInv
  <2>1. CreditInit => VaultNeverOverstatesDebt
    BY DEF CreditInit, NewBooks, VaultNeverOverstatesDebt
  <2>2. QED BY <2>1, TypeInit DEF VaultInv
<1>2. VaultInv /\ [CreditNext]_creditVars => VaultInv'
  BY VaultNext
<1>3. VaultInv => VaultNeverOverstatesDebt
  BY DEF VaultInv
<1>4. QED BY <1>1, <1>2, <1>3, PTL DEF CreditSpec

-----------------------------------------------------------------------------
(* Interest. *)

\* The exact interest since the last accrual, times Year.
Elapsed == facility.principal * facility.rate * (now - facility.lastAccrual)

\* InterestTracksIntegral is not inductive: what the charged interest misses must
\* be known at the last accrual, and a principal must have a date it accrues from.
InterestInv ==
    /\ TypeInv
    /\ now > 0
    /\ facility.principal > 0 => facility.lastAccrual > 0
    /\ hist.charged * Year + Elapsed <= hist.integral
    /\ hist.integral <= (hist.charged + hist.accruals) * Year + Elapsed

\* Pending interest is the exact interest rounded down.
LEMMA PendingBounds ==
    ASSUME InterestInv
    PROVE  /\ Elapsed \in Nat
           /\ Pending(facility, now) \in Nat
           /\ Pending(facility, now) * Year <= Elapsed
           /\ Elapsed < (Pending(facility, now) + 1) * Year
           /\ facility.principal = 0 \/ facility.lastAccrual = now
                 => Elapsed = 0 /\ Pending(facility, now) = 0
<1>1. /\ facility.principal \in Nat /\ facility.rate \in Nat /\ facility.lastAccrual \in Nat
      /\ now \in Nat /\ facility.lastAccrual <= now
  BY DEF InterestInv, TypeInv, CreditTypeOK, Facility
<1>2. now - facility.lastAccrual \in Nat
  BY <1>1
<1>3. Elapsed \in Nat
  BY <1>1, <1>2, Product DEF Elapsed
<1>4. facility.principal = 0 \/ facility.lastAccrual = now => Elapsed = 0
  BY <1>1 DEF Elapsed
<1>5. CASE facility.principal = 0
  BY <1>3, <1>4, <1>5, CreditAssumption DEF Pending
<1>6. CASE facility.principal > 0
  <2>1. Pending(facility, now) = Elapsed \div Year
    BY <1>1, <1>6 DEF Pending, InterestInv, Elapsed
  <2>2. 0 \div Year = 0
    BY CreditAssumption
  <2>3. QED BY <1>3, <1>4, <1>6, <2>1, <2>2, Division, CreditAssumption
<1>7. QED BY <1>1, <1>5, <1>6

\* Every step accrues first, or lets time pass, or leaves interest alone.
Accrues ==
    /\ now' = now
    /\ facility'.lastAccrual = now
    /\ hist'.integral = hist.integral
    /\ hist'.charged = hist.charged + Pending(facility, now)
    /\ hist'.accruals = IF facility.principal > 0 /\ facility.lastAccrual < now
                           THEN hist.accruals + 1 ELSE hist.accruals

LEMMA StepsOnInterest ==
    ASSUME TypeInv, [CreditNext]_creditVars
    PROVE  Accrues \/ Tick \/ UNCHANGED <<now, facility, hist>>
<1>1. ASSUME NEW amount \in MinDrawdown..MaxLent, NEW offer \in Offers,
             Drawdown(amount, offer)
      PROVE  Accrues
  <2>1. amount \in Nat
    BY CreditAssumption
  <2>2. QED BY <1>1, <2>1, DrawdownFields, AccrualHistory DEF Drawdown, Accrues
<1>2. ASSUME NEW offer \in Offers, RefreshCreditLine(offer)
      PROVE  Accrues
  <2>1. facility'.lastAccrual = now
    BY <1>2, CurrentFields, OnTermsFields DEF RefreshCreditLine
  <2>2. QED BY <1>2, <2>1, AccrualHistory DEF RefreshCreditLine, Accrues
<1>3. ASSUME UpdateStatus
      PROVE  Accrues
  <2>1. facility'.lastAccrual = now
    BY <1>3, CurrentFields, ReassessedFields DEF UpdateStatus
  <2>2. QED BY <1>3, <2>1, AccrualHistory DEF UpdateStatus, Accrues
<1>4. ASSUME NEW amount \in Amounts, NEW byAgent \in BOOLEAN, Repay(amount, byAgent)
      PROVE  Accrues
  <2>1. amount \in Nat
    BY CurrentFields DEF Amounts, Outstanding, Owed, Facility, TypeInv, CreditTypeOK
  <2>2. QED BY <1>4, <2>1, RepayFields, AccrualHistory DEF Repay, Accrues
<1>5. ASSUME NEW amount \in WriteDowns, OwnerWriteDown(amount)
      PROVE  Accrues
  <2>1. facility'.lastAccrual = now
    BY <1>5, CreditAssumption, WriteDownFields DEF OwnerWriteDown
  <2>2. /\ hist'.integral = WithAccrual(hist).integral
        /\ hist'.charged = WithAccrual(hist).charged
        /\ hist'.accruals = WithAccrual(hist).accruals
    BY <1>5, AccrualHistory DEF OwnerWriteDown, HistoryType
  <2>3. QED BY <1>5, <2>1, <2>2, AccrualHistory DEF OwnerWriteDown, Accrues
<1>6. ASSUME OwnerNext
      PROVE  Accrues \/ UNCHANGED <<now, facility, hist>>
  BY <1>5, <1>6 DEF OwnerNext, SetPeriods, TurnGate, CollectFees, OwnerSetFrozen,
                    OwnerWriteDownVault, VaultStep
<1>7. ASSUME BackersNext
      PROVE  UNCHANGED <<now, facility, hist>>
  BY <1>7 DEF BackersNext, BackersDeposit, BackersWithdraw, VaultStep
<1>8. ASSUME BorrowerNext
      PROVE  Accrues
  BY <1>1, <1>2, <1>3, <1>8 DEF BorrowerNext
<1>9. QED
  BY <1>4, <1>6, <1>7, <1>8 DEF CreditNext, creditVars

\* Accruing, letting time pass and leaving interest alone keep the invariant,
\* whoever the caller.
LEMMA InterestStep ==
    ASSUME InterestInv, TypeInv', Accrues \/ Tick \/ UNCHANGED <<now, facility, hist>>
    PROVE  InterestInv'
<1>1. TypeInv /\ TypeInv'
  BY DEF InterestInv
<1>2. /\ now \in Nat /\ now > 0 /\ Year \in Nat /\ Year > 0
      /\ hist.charged \in Nat /\ hist.accruals \in Nat /\ hist.integral \in Nat
      /\ hist.charged * Year + Elapsed <= hist.integral
      /\ hist.integral <= (hist.charged + hist.accruals) * Year + Elapsed
  BY CreditAssumption DEF InterestInv, TypeInv, CreditTypeOK, HistoryType
<1>3. /\ facility.principal \in Nat /\ facility.rate \in Nat
      /\ facility.lastAccrual \in Nat /\ facility.lastAccrual <= now
      /\ facility'.principal \in Nat /\ facility'.rate \in Nat
  BY <1>1 DEF TypeInv, CreditTypeOK, Facility
<1>4. CASE Accrues
  <2>1. Elapsed' = 0
    <3>1. now' - facility'.lastAccrual = 0
      BY <1>2, <1>4 DEF Accrues
    <3>2. facility'.principal * facility'.rate * 0 = 0
      BY <1>3
    <3>3. QED BY <3>1, <3>2, Zenon DEF Elapsed
  <2>2. hist'.charged * Year <= hist.integral
    BY <1>2, <1>4, PendingBounds DEF Accrues
  <2>3. hist.integral <= (hist'.charged + hist'.accruals) * Year
    <3>1. CASE facility.principal > 0 /\ facility.lastAccrual < now
      BY <1>2, <1>4, <3>1, PendingBounds DEF Accrues
    <3>2. CASE facility.principal = 0 \/ facility.lastAccrual = now
      <4>1. Elapsed = 0 /\ Pending(facility, now) = 0
        BY <3>2, PendingBounds
      <4>2. hist'.charged = hist.charged /\ hist'.accruals = hist.accruals
        BY <1>2, <1>3, <1>4, <3>2, <4>1 DEF Accrues
      <4>3. QED BY <1>2, <4>1, <4>2
    <3>3. \/ facility.principal > 0 /\ facility.lastAccrual < now
          \/ facility.principal = 0 \/ facility.lastAccrual = now
      <4>1. /\ now \in Nat /\ facility.lastAccrual \in Nat /\ facility.lastAccrual <= now
            /\ facility.principal \in Nat
        BY <1>2, <1>3
      <4>2. QED BY <4>1
    <3>4. QED BY <3>1, <3>2, <3>3, Zenon
  <2>4. hist'.integral = hist.integral /\ now' = now /\ facility'.lastAccrual = now
    BY <1>4 DEF Accrues
  <2>5. hist'.charged \in Nat /\ hist'.accruals \in Nat
    BY <1>1 DEF TypeInv, CreditTypeOK, HistoryType
  <2>6. QED BY <1>1, <1>2, <2>1, <2>2, <2>3, <2>4, <2>5 DEF InterestInv
<1>5. CASE Tick
  <2>1. /\ now' = now + 1 /\ facility' = facility
        /\ hist'.integral = hist.integral + facility.principal * facility.rate
        /\ hist'.charged = hist.charged /\ hist'.accruals = hist.accruals
    BY <1>1, <1>5 DEF Tick, TypeInv, CreditTypeOK, HistoryType
  <2>2. Elapsed' = facility.principal * facility.rate * ((now + 1) - facility.lastAccrual)
    <3>1. facility' = facility /\ now' = now + 1
      BY <2>1
    <3>2. Elapsed' = facility'.principal * facility'.rate * (now' - facility'.lastAccrual)
      BY DEF Elapsed
    <3>3. QED BY <3>1, <3>2, Zenon
  <2>3. facility.principal * facility.rate \in Nat
    BY <1>3
  <2>4. Elapsed' = Elapsed + facility.principal * facility.rate
    <3>1. \A q, t \in Nat : q * (t + 1) = q * t + q
      OBVIOUS
    <3>2. /\ now - facility.lastAccrual \in Nat
          /\ (now + 1) - facility.lastAccrual = (now - facility.lastAccrual) + 1
      <4>1. now \in Nat /\ facility.lastAccrual \in Nat /\ facility.lastAccrual <= now
        BY <1>2, <1>3
      <4>2. QED BY <4>1
    <3> DEFINE q == facility.principal * facility.rate
               t == now - facility.lastAccrual
    <3>3. Elapsed = q * t /\ Elapsed' = q * (t + 1)
      BY <2>2, <3>2, Zenon DEF Elapsed
    <3>4. q \in Nat /\ t \in Nat
      BY <2>3, <3>2
    <3> HIDE DEF q, t
    <3>5. Elapsed' = Elapsed + q
      BY <3>1, <3>3, <3>4, Zenon
    <3>6. QED BY <3>5 DEF q
  <2>5. Elapsed \in Nat /\ Elapsed' \in Nat
    BY <2>3, <2>4, PendingBounds
  <2>6. /\ hist'.charged * Year + Elapsed' <= hist'.integral
        /\ hist'.integral <= (hist'.charged + hist'.accruals) * Year + Elapsed'
    <3>1. /\ hist.charged * Year \in Nat
          /\ (hist.charged + hist.accruals) * Year \in Nat
      BY <1>2
    <3>2. QED BY <1>2, <2>1, <2>3, <2>4, <2>5, <3>1
  <2>7. QED BY <1>1, <1>2, <2>1, <2>6 DEF InterestInv
<1>6. CASE UNCHANGED <<now, facility, hist>>
  BY <1>1, <1>6 DEF InterestInv, Elapsed
<1>7. QED BY <1>4, <1>5, <1>6

LEMMA InterestNext == InterestInv /\ [CreditNext]_creditVars => InterestInv'
<1> SUFFICES ASSUME InterestInv, [CreditNext]_creditVars PROVE InterestInv'
  OBVIOUS
<1>1. TypeInv /\ TypeInv'
  BY TypeNext DEF InterestInv
<1>2. QED BY <1>1, StepsOnInterest, InterestStep

LEMMA InterestInit == CreditInit => InterestInv
<1> SUFFICES ASSUME CreditInit PROVE InterestInv
  OBVIOUS
<1>1. TypeInv /\ now = 1 /\ facility.principal = 0 /\ facility.rate = 0
      /\ facility.lastAccrual = 0
      /\ hist.integral = 0 /\ hist.charged = 0 /\ hist.accruals = 0
  BY TypeInit DEF CreditInit
<1>2. Elapsed = 0 /\ 0 * Year = 0
  BY <1>1, CreditAssumption DEF Elapsed
<1>3. QED BY <1>1, <1>2 DEF InterestInv

\* The invariant is what InterestTracksIntegral says, at the last accrual.
LEMMA InterestInvTracks == InterestInv => InterestTracksIntegral
<1> SUFFICES ASSUME InterestInv PROVE InterestTracksIntegral
  OBVIOUS
<1>1. /\ Year \in Nat /\ Year > 0
      /\ hist.charged \in Nat /\ hist.accruals \in Nat /\ hist.integral \in Nat
      /\ hist.charged * Year + Elapsed <= hist.integral
      /\ hist.integral <= (hist.charged + hist.accruals) * Year + Elapsed
  BY CreditAssumption DEF InterestInv, TypeInv, CreditTypeOK, HistoryType
<1>2. QED BY <1>1, PendingBounds DEF InterestTracksIntegral

\* Interest charged and pending stays within one unit per accrual of the exact
\* integral of principal times rate, and never above it.
THEOREM InterestTracks == CreditSpec => []InterestTracksIntegral
  BY InterestInit, InterestNext, InterestInvTracks, PTL DEF CreditSpec

-----------------------------------------------------------------------------
(* Loan cycles. *)

\* The two invariants together: accrual opens no cycle because there is no
\* interest, pending or charged, without principal.
CycleInv ==
    /\ TypeInv
    /\ NoInterestWithoutPrincipal
    /\ CyclesAreBackedByLoans

\* Accrual creates no debt.
LEMMA AccrualOpensNoDebt ==
    ASSUME TypeInv
    PROVE  /\ Owed(facility) \in Nat /\ Owed(Current) \in Nat
           /\ Owed(Current) > 0 => Owed(facility) > 0
           /\ NoInterestWithoutPrincipal /\ facility.principal = 0
                 => Current.accruedInterest = 0
<1>1. /\ facility.principal \in Nat /\ facility.accruedInterest \in Nat
      /\ Current.principal = facility.principal
      /\ Current.accruedInterest = facility.accruedInterest + Pending(facility, now)
      /\ Pending(facility, now) \in Nat
  BY CurrentFields DEF TypeInv, CreditTypeOK, Facility
<1>2. facility.principal = 0 => Pending(facility, now) = 0
  BY DEF Pending
<1>3. QED BY <1>1, <1>2 DEF Owed, NoInterestWithoutPrincipal

\* Taking a payment off the debt, interest first, leaves no interest behind once
\* the principal is gone.
LEMMA NoInterestLeft ==
    ASSUME NEW principal \in Nat, NEW interest \in Nat, NEW amount \in Nat,
           amount <= principal + interest, principal = 0 => interest = 0
    PROVE  principal - Monus(amount, interest) = 0 => Monus(interest, amount) = 0
  BY DEF Monus

\* So it is in a payment, whoever the caller, and in a write-down.
LEMMA PaymentLeavesNoInterest ==
    ASSUME TypeInv, NoInterestWithoutPrincipal, NEW amount \in Nat, NEW byAgent \in BOOLEAN,
           RepayFacility(amount, byAgent)
    PROVE  NoInterestWithoutPrincipal'
<1>1. /\ facility.principal \in Nat /\ Current.accruedInterest \in Nat
      /\ facility.principal = 0 => Current.accruedInterest = 0
      /\ Owed(Current) = facility.principal + Current.accruedInterest
  BY CurrentFields, AccrualOpensNoDebt DEF TypeInv, CreditTypeOK, Facility, Owed
<1>2. /\ facility'.principal
           = facility.principal - Monus(Payment(amount), Current.accruedInterest)
      /\ facility'.accruedInterest = Monus(Current.accruedInterest, Payment(amount))
  BY RepayFields
<1>3. /\ Payment(amount) \in Nat
      /\ Payment(amount) <= facility.principal + Current.accruedInterest
  BY <1>1, PaymentBounds
<1>4. QED BY <1>1, <1>2, <1>3, NoInterestLeft DEF NoInterestWithoutPrincipal

LEMMA CutLeavesNoInterest ==
    ASSUME TypeInv, NoInterestWithoutPrincipal, NEW amount \in Nat,
           facility' = WrittenDown(Current, amount)
    PROVE  NoInterestWithoutPrincipal'
<1> DEFINE cut == Lesser(amount, Owed(Current))
<1>1. /\ facility.principal \in Nat /\ Current.accruedInterest \in Nat
      /\ facility.principal = 0 => Current.accruedInterest = 0
      /\ Owed(Current) = facility.principal + Current.accruedInterest
  BY CurrentFields, AccrualOpensNoDebt DEF TypeInv, CreditTypeOK, Facility, Owed
<1>2. cut \in Nat /\ cut <= facility.principal + Current.accruedInterest
  BY <1>1 DEF Lesser
<1>3. /\ facility'.principal = facility.principal - Monus(cut, Current.accruedInterest)
      /\ facility'.accruedInterest = Monus(Current.accruedInterest, cut)
  BY WriteDownFields
<1> HIDE DEF cut
<1>4. QED BY <1>1, <1>2, <1>3, NoInterestLeft DEF NoInterestWithoutPrincipal

\* No interest without principal is kept by every step.
LEMMA NoInterestNext ==
    ASSUME TypeInv, NoInterestWithoutPrincipal, [CreditNext]_creditVars
    PROVE  NoInterestWithoutPrincipal'
<1>t. /\ facility.principal \in Nat /\ facility.accruedInterest \in Nat
      /\ Current.principal = facility.principal
      /\ Current.accruedInterest \in Nat
      /\ facility.principal = 0 => Current.accruedInterest = 0
  BY CurrentFields, AccrualOpensNoDebt DEF TypeInv, CreditTypeOK, Facility
<1>1. ASSUME NEW amount \in MinDrawdown..MaxLent, NEW offer \in Offers,
             Drawdown(amount, offer)
      PROVE  NoInterestWithoutPrincipal'
  <2>1. amount \in Nat /\ amount > 0
    BY CreditAssumption
  <2>2. facility'.principal = facility.principal + amount
    BY <1>1, <2>1, DrawdownFields DEF Drawdown
  <2>3. QED BY <1>t, <2>1, <2>2 DEF NoInterestWithoutPrincipal
<1>2. ASSUME NEW offer \in Offers, RefreshCreditLine(offer)
      PROVE  NoInterestWithoutPrincipal'
  BY <1>2, <1>t, CurrentFields, OnTermsFields
     DEF RefreshCreditLine, NoInterestWithoutPrincipal
<1>3. CASE UpdateStatus
  BY <1>3, <1>t, CurrentFields, ReassessedFields
     DEF UpdateStatus, NoInterestWithoutPrincipal
<1>4. ASSUME NEW amount \in Amounts, NEW byAgent \in BOOLEAN, Repay(amount, byAgent)
      PROVE  NoInterestWithoutPrincipal'
  <2>1. amount \in Nat
    BY CurrentFields DEF Amounts, Outstanding, Owed, Facility, TypeInv, CreditTypeOK
  <2>2. QED BY <1>4, <2>1, PaymentLeavesNoInterest DEF Repay
<1>5. ASSUME NEW amount \in WriteDowns, OwnerWriteDown(amount)
      PROVE  NoInterestWithoutPrincipal'
  BY <1>5, CreditAssumption, CutLeavesNoInterest DEF OwnerWriteDown
<1>6. CASE UNCHANGED facility
  BY <1>6 DEF NoInterestWithoutPrincipal
<1>7. ASSUME OwnerNext
      PROVE  (\E amount \in WriteDowns : OwnerWriteDown(amount)) \/ UNCHANGED facility
  BY <1>7 DEF OwnerNext, SetPeriods, TurnGate, CollectFees, OwnerSetFrozen,
              OwnerWriteDownVault, VaultStep
<1>8. ASSUME BackersNext \/ Tick \/ UNCHANGED creditVars
      PROVE  UNCHANGED facility
  BY <1>8 DEF BackersNext, BackersDeposit, BackersWithdraw, VaultStep, Tick, creditVars
<1>9. CASE BorrowerNext
  BY <1>1, <1>2, <1>3, <1>9 DEF BorrowerNext
<1>10. QED BY <1>4, <1>5, <1>6, <1>7, <1>8, <1>9 DEF CreditNext

\* A step that counts no cycle, lends nothing and opens no debt keeps the count.
LEMMA NoNewCycle ==
    ASSUME CycleInv, TypeInv',
           loansRepaid' = loansRepaid, totalAmountBorrowed' = totalAmountBorrowed,
           Owed(facility') > 0 => Owed(facility) > 0
    PROVE  CyclesAreBackedByLoans'
<1>1. MinDrawdown \in Nat /\ loansRepaid \in Nat /\ totalAmountBorrowed \in Nat
  BY CreditAssumption DEF CycleInv, TypeInv, CreditTypeOK
<1>2. MinDrawdown * (loansRepaid + 0) <= MinDrawdown * (loansRepaid + 1)
  BY <1>1
<1>3. QED BY <1>1, <1>2 DEF CycleInv, CyclesAreBackedByLoans

\* A repayment counts a cycle only when it ends a debt there was.
LEMMA RepayCycle ==
    ASSUME CycleInv, TypeInv', NEW amount \in Nat, NEW byAgent \in BOOLEAN,
           RepayFacility(amount, byAgent), totalAmountBorrowed' = totalAmountBorrowed
    PROVE  CyclesAreBackedByLoans'
<1>1. /\ Owed(facility) > 0
      /\ totalAmountBorrowed' = totalAmountBorrowed
      /\ \/ loansRepaid' = loansRepaid + 1 /\ Owed(facility') = 0
         \/ loansRepaid' = loansRepaid
  <2> DEFINE f == Paid(Current, Payment(amount))
  <2>1. /\ Owed(Current) > 0
        /\ loansRepaid' = IF ClosesCycle(f) THEN loansRepaid + 1 ELSE loansRepaid
        /\ totalAmountBorrowed' = totalAmountBorrowed
    BY DEF RepayFacility
  <2>2. Owed(facility') = Owed(f)
    <3>1. /\ f.principal
               = facility.principal - Monus(Payment(amount), Current.accruedInterest)
          /\ f.accruedInterest = Monus(Current.accruedInterest, Payment(amount))
      BY CurrentFields, PaymentBounds, PaidFields DEF CycleInv
    <3>2. QED BY <3>1, RepayFields DEF CycleInv, Owed
  <2>3. QED BY <2>1, <2>2, AccrualOpensNoDebt DEF CycleInv, ClosesCycle
<1>2. CASE loansRepaid' = loansRepaid
  BY <1>1, <1>2, NoNewCycle
<1>3. CASE loansRepaid' = loansRepaid + 1 /\ Owed(facility') = 0
  <2>1. MinDrawdown * (loansRepaid + 1) <= totalAmountBorrowed
    BY <1>1 DEF CycleInv, CyclesAreBackedByLoans
  <2>2. (loansRepaid + 1) + 0 = loansRepaid + 1
    BY DEF CycleInv, TypeInv, CreditTypeOK
  <2>3. QED BY <1>1, <1>3, <2>1, <2>2 DEF CyclesAreBackedByLoans
<1>4. QED BY <1>1, <1>2, <1>3

\* A write-down ends debts at most.
LEMMA CutOpensNoDebt ==
    ASSUME TypeInv, NEW amount \in Nat, facility' = WrittenDown(Current, amount)
    PROVE  Owed(facility') > 0 => Owed(facility) > 0
<1> DEFINE cut == Lesser(amount, Owed(Current))
<1>1. cut \in Nat /\ Current.principal \in Nat /\ Current.accruedInterest \in Nat
      /\ cut <= Current.principal + Current.accruedInterest
      /\ Current.principal = facility.principal
  BY CurrentFields DEF Owed, Lesser, Facility
<1>2. /\ facility'.principal = facility.principal - Monus(cut, Current.accruedInterest)
      /\ facility'.accruedInterest = Monus(Current.accruedInterest, cut)
  BY WriteDownFields
<1> HIDE DEF cut
<1>3. Owed(facility') <= Owed(Current) /\ Owed(facility') \in Nat /\ Owed(Current) \in Nat
  BY <1>1, <1>2 DEF Owed, Monus
<1>4. QED BY <1>3, AccrualOpensNoDebt

LEMMA CyclesNext == CycleInv /\ [CreditNext]_creditVars => CycleInv'
<1> SUFFICES ASSUME CycleInv, [CreditNext]_creditVars PROVE CyclesAreBackedByLoans'
  BY TypeNext, NoInterestNext DEF CycleInv
<1>t. TypeInv /\ TypeInv'
  BY TypeNext DEF CycleInv
<1>1. ASSUME NEW amount \in MinDrawdown..MaxLent, NEW offer \in Offers,
             Drawdown(amount, offer)
      PROVE  CyclesAreBackedByLoans'
  <2>1. /\ MinDrawdown \in Nat /\ amount \in Nat /\ MinDrawdown <= amount
        /\ loansRepaid \in Nat /\ totalAmountBorrowed \in Nat
    BY <1>t, CreditAssumption DEF TypeInv, CreditTypeOK
  <2>2. totalAmountBorrowed' = totalAmountBorrowed + amount /\ loansRepaid' = loansRepaid
    BY <1>1 DEF Drawdown
  <2>3. MinDrawdown * loansRepaid <= totalAmountBorrowed
    <3>1. MinDrawdown * (loansRepaid + 0) <= totalAmountBorrowed
          \/ MinDrawdown * (loansRepaid + 1) <= totalAmountBorrowed
      BY DEF CycleInv, CyclesAreBackedByLoans
    <3>2. MinDrawdown * loansRepaid <= MinDrawdown * (loansRepaid + 1)
      BY <2>1
    <3>3. MinDrawdown * loansRepaid \in Nat /\ MinDrawdown * (loansRepaid + 1) \in Nat
      BY <2>1
    <3>4. loansRepaid + 0 = loansRepaid
      BY <2>1
    <3>5. QED BY <2>1, <3>1, <3>2, <3>3, <3>4
  <2>4. /\ MinDrawdown * (loansRepaid + 0) <= totalAmountBorrowed + amount
        /\ MinDrawdown * (loansRepaid + 1) <= totalAmountBorrowed + amount
    <3>1. MinDrawdown * (loansRepaid + 1) = MinDrawdown * loansRepaid + MinDrawdown
      BY <2>1
    <3>2. MinDrawdown * loansRepaid \in Nat /\ loansRepaid + 0 = loansRepaid
      BY <2>1
    <3>3. QED BY <2>1, <2>3, <3>1, <3>2
  <2>5. QED BY <2>2, <2>4, Zenon DEF CyclesAreBackedByLoans
<1>2. ASSUME NEW offer \in Offers, RefreshCreditLine(offer)
      PROVE  CyclesAreBackedByLoans'
  <2>1. Owed(facility') = Owed(Current)
    BY <1>2, <1>t, CurrentFields, OnTermsFields DEF RefreshCreditLine, Owed
  <2>2. QED BY <1>2, <1>t, <2>1, AccrualOpensNoDebt, NoNewCycle DEF RefreshCreditLine
<1>3. CASE UpdateStatus
  <2>1. Owed(facility') = Owed(Current)
    BY <1>3, <1>t, CurrentFields, ReassessedFields DEF UpdateStatus, Owed
  <2>2. QED BY <1>3, <1>t, <2>1, AccrualOpensNoDebt, NoNewCycle DEF UpdateStatus
<1>4. ASSUME NEW amount \in Amounts, NEW byAgent \in BOOLEAN, Repay(amount, byAgent)
      PROVE  CyclesAreBackedByLoans'
  <2>1. amount \in Nat
    BY <1>t, CurrentFields DEF Amounts, Outstanding, Owed, Facility
  <2>2. QED BY <1>4, <1>t, <2>1, RepayCycle DEF Repay
<1>5. ASSUME NEW amount \in WriteDowns, OwnerWriteDown(amount)
      PROVE  CyclesAreBackedByLoans'
  BY <1>5, <1>t, CreditAssumption, CutOpensNoDebt, NoNewCycle DEF OwnerWriteDown
<1>6. CASE UNCHANGED <<facility, loansRepaid, totalAmountBorrowed>>
  BY <1>6 DEF CycleInv, CyclesAreBackedByLoans
<1>7. ASSUME OwnerNext
      PROVE  \/ \E amount \in WriteDowns : OwnerWriteDown(amount)
             \/ UNCHANGED <<facility, loansRepaid, totalAmountBorrowed>>
  BY <1>7 DEF OwnerNext, SetPeriods, TurnGate, CollectFees, OwnerSetFrozen,
              OwnerWriteDownVault, VaultStep
<1>8. ASSUME BackersNext \/ Tick \/ UNCHANGED creditVars
      PROVE  UNCHANGED <<facility, loansRepaid, totalAmountBorrowed>>
  BY <1>8 DEF BackersNext, BackersDeposit, BackersWithdraw, VaultStep, Tick, creditVars
<1>9. CASE BorrowerNext
  BY <1>1, <1>2, <1>3, <1>9 DEF BorrowerNext
<1>10. QED BY <1>4, <1>5, <1>6, <1>7, <1>8, <1>9 DEF CreditNext

LEMMA CyclesInit == CreditInit => CycleInv
<1> SUFFICES ASSUME CreditInit PROVE CycleInv
  OBVIOUS
<1>1. NoInterestWithoutPrincipal /\ Owed(facility) = 0
  BY DEF CreditInit, NoInterestWithoutPrincipal, Owed
<1>2. MinDrawdown * (0 + 0) <= 0
  BY CreditAssumption
<1>3. loansRepaid = 0 /\ totalAmountBorrowed = 0
  BY DEF CreditInit
<1>4. CyclesAreBackedByLoans
  BY <1>1, <1>2, <1>3 DEF CyclesAreBackedByLoans
<1>5. QED BY <1>1, <1>4, TypeInit DEF CycleInv

\* Interest never outlives its principal.
THEOREM InterestNeedsPrincipal == CreditSpec => []NoInterestWithoutPrincipal
<1>1. CycleInv => NoInterestWithoutPrincipal
  BY DEF CycleInv
<1>2. QED BY <1>1, CyclesInit, CyclesNext, PTL DEF CreditSpec

\* Every repaid cycle, and the open one, has a drawdown of the minimum behind it.
THEOREM CyclesBacked == CreditSpec => []CyclesAreBackedByLoans
<1>1. CycleInv => CyclesAreBackedByLoans
  BY DEF CycleInv
<1>2. QED BY <1>1, CyclesInit, CyclesNext, PTL DEF CreditSpec
-----------------------------------------------------------------------------
(* Lending. *)

\* A drawdown adds the amount to the principal and answers the scorer's limit.
LEMMA DrawdownLimit ==
    ASSUME TypeInv, NEW amount \in Nat, NEW offer \in Offers, Drawdown(amount, offer)
    PROVE  /\ Owed(facility') = Owed(Current) + amount
           /\ facility'.limit = offer.limit
<1> DEFINE g == OnTerms(Current, offer)
<1>1. g \in Facility /\ g.limit = offer.limit
  BY CurrentFields, OnTermsFields DEF OnTerms, Facility
<1>2. /\ Owed(facility) \in Nat /\ Pending(facility, now) \in Nat
      /\ facility.principal \in Nat /\ facility.accruedInterest \in Nat
  BY CurrentFields, PendingType DEF TypeInv, CreditTypeOK, Facility, Owed
<1>3. facility' = [g EXCEPT !.principal = @ + amount]
  BY DEF Drawdown
<1>4. /\ facility'.principal = facility.principal + amount
      /\ facility'.accruedInterest = facility.accruedInterest + Pending(facility, now)
  BY DrawdownFields DEF Drawdown
<1> HIDE DEF g
<1>5. facility'.limit = offer.limit
  BY <1>1, <1>3 DEF Facility
<1>6. QED BY <1>2, <1>4, <1>5, CurrentFields DEF Owed

\* An overdue debtor is refused, whatever its stored status.
LEMMA OverdueIsRefused ==
    ASSUME TypeInv, StatusAllowsDrawdown
    PROVE  /\ facility.status = "ACTIVE"
           /\ Owed(facility) > 0 => now - lastPayment <= periods.grace
<1>1. /\ now \in Nat /\ lastPayment \in Nat
      /\ periods \in [grace : Nat, default : Nat]
      /\ facility \in Facility
  BY CreditAssumption DEF TypeInv, CreditTypeOK
<1>2. Reassessed(facility).status =
        IF PastDefault(facility) THEN "DEFAULT"
        ELSE IF Owed(facility) > 0 /\ now - lastPayment > periods.grace THEN "DELINQUENT"
        ELSE facility.status
  BY <1>1 DEF Reassessed, Facility
<1>3. /\ ~(Owed(facility) > 0 /\ now - lastPayment > periods.grace)
      /\ facility.status = "ACTIVE"
  BY <1>2 DEF StatusAllowsDrawdown
<1>4. periods.grace \in Nat
  BY <1>1
<1>5. QED BY <1>1, <1>3, <1>4

\* Principal grows in a drawdown and nowhere else.
LEMMA OnlyDrawdownLends ==
    ASSUME TypeInv, [CreditNext]_creditVars, facility'.principal > facility.principal
    PROVE  \E amount \in MinDrawdown..MaxLent, offer \in Offers : Drawdown(amount, offer)
<1>t. facility.principal \in Nat
  BY DEF TypeInv, CreditTypeOK, Facility
<1>1. ASSUME NEW offer \in Offers, RefreshCreditLine(offer)
      PROVE  FALSE
  BY <1>1, <1>t, CurrentFields, OnTermsFields DEF RefreshCreditLine
<1>2. ASSUME UpdateStatus
      PROVE  FALSE
  BY <1>2, <1>t, CurrentFields, ReassessedFields DEF UpdateStatus
<1>3. ASSUME NEW amount \in Amounts, NEW byAgent \in BOOLEAN, Repay(amount, byAgent)
      PROVE  FALSE
  <2>1. amount \in Nat
    BY CurrentFields DEF Amounts, Outstanding, Owed, Facility, TypeInv, CreditTypeOK
  <2>2. facility'.principal
           = facility.principal - Monus(Payment(amount), Current.accruedInterest)
    BY <1>3, <2>1, RepayFields DEF Repay
  <2>3. Monus(Payment(amount), Current.accruedInterest) \in Nat
    BY <2>1, PaymentBounds, CurrentFields DEF Monus, Facility
  <2>4. QED BY <1>t, <2>2, <2>3
<1>4. ASSUME NEW amount \in WriteDowns, OwnerWriteDown(amount)
      PROVE  FALSE
  <2>1. amount \in Nat
    BY CreditAssumption
  <2>2. facility'.principal \in Nat /\ facility'.principal <= facility.principal
    BY <1>4, <2>1, WriteDownFields DEF OwnerWriteDown, Facility
  <2>3. QED BY <1>t, <2>2
<1>5. ASSUME facility' = facility
      PROVE  FALSE
  BY <1>t, <1>5
<1>6. CASE OwnerNext
  BY <1>4, <1>5, <1>6 DEF OwnerNext, SetPeriods, TurnGate, CollectFees, OwnerSetFrozen,
                          OwnerWriteDownVault, VaultStep
<1>7. CASE BackersNext
  BY <1>5, <1>7 DEF BackersNext, BackersDeposit, BackersWithdraw, VaultStep
<1>8. CASE Tick \/ UNCHANGED creditVars
  BY <1>5, <1>8 DEF Tick, creditVars
<1>9. QED BY <1>1, <1>2, <1>3, <1>6, <1>7, <1>8 DEF CreditNext, BorrowerNext

\* A step of the credit line that lends more.
LEMMA LendingStep ==
    ASSUME TypeInv, [CreditNext]_creditVars, facility'.principal > facility.principal
    PROVE  /\ Owed(facility) > 0 => now - lastPayment <= periods.grace
           /\ Owed(facility') <= facility'.limit
<1>1. PICK amount \in MinDrawdown..MaxLent, offer \in Offers : Drawdown(amount, offer)
  BY OnlyDrawdownLends
<1>2. amount \in Nat
  BY CreditAssumption
<1>3. Owed(Current) + amount <= offer.limit /\ StatusAllowsDrawdown
  BY <1>1 DEF Drawdown, LimitCovers
<1>4. QED BY <1>1, <1>2, <1>3, DrawdownLimit, OverdueIsRefused

\* New principal only goes to a debtor not overdue at that moment, within the
\* limit the scorer answers in that transaction.
THEOREM LendsInGoodStanding == CreditSpec => LendOnlyInGoodStanding
<1> DEFINE Good == facility'.principal > facility.principal =>
                      /\ Owed(facility) > 0 => now - lastPayment <= periods.grace
                      /\ Owed(facility') <= facility'.limit
<1>1. TypeInv /\ [CreditNext]_creditVars => [Good]_creditVars
  BY LendingStep
<1>2. QED BY <1>1, TypeInit, TypeNext, PTL DEF CreditSpec, LendOnlyInGoodStanding

-----------------------------------------------------------------------------
(***************************************************************************)
(* The credit line implements CreditAccount: the facility's initial states *)
(* map to the account's, and every step of CreditLine is a step of the     *)
(* account or leaves the amount owed and the standing as they are.         *)
(***************************************************************************)

\* The two state functions that the account's variables stand for.
Debt     == Outstanding(facility, now)
Standing == facility.status

\* Division is monotonic.
LEMMA DivisionMonotonic ==
    ASSUME NEW a \in Nat, NEW b \in Nat, NEW c \in Nat \ {0}, a <= b
    PROVE  a \div c <= b \div c
<1> DEFINE p == a \div c
           q == b \div c
<1>1. /\ p \in Nat /\ q \in Nat
      /\ p * c <= a /\ b < (q + 1) * c
  BY Division
<1> HIDE DEF p, q
<1>2. ASSUME p >= q + 1 PROVE FALSE
  <2>1. p * c >= (q + 1) * c
    BY <1>1, <1>2
  <2>2. p * c \in Nat /\ (q + 1) * c \in Nat
    BY <1>1
  <2>3. QED BY <1>1, <2>1, <2>2
<1>3. p <= q
  BY <1>1, <1>2
<1>4. QED BY <1>3 DEF p, q

\* After an accrual nothing is pending, so the debt is what is booked.
LEMMA NothingPending ==
    ASSUME NEW f \in Facility, f.lastAccrual = now, now \in Nat
    PROVE  Pending(f, now) = 0 /\ Outstanding(f, now) = Owed(f)
<1>1. f.principal * f.rate * (now - f.lastAccrual) = 0
  <2>1. now - f.lastAccrual = 0
    OBVIOUS
  <2>2. f.principal * f.rate \in Nat
    BY DEF Facility
  <2>3. QED BY <2>1, <2>2
<1>2. 0 \div Year = 0
  BY CreditAssumption
<1>3. Pending(f, now) = 0
  BY <1>1, <1>2 DEF Pending
<1>4. QED BY <1>3 DEF Outstanding, Owed, Facility

\* What is owed is a number, and the booked debt once interest is accrued.
LEMMA DebtIsCurrent ==
    ASSUME TypeInv
    PROVE  /\ Debt \in Nat
           /\ Debt = Owed(Current)
           /\ Standing \in Statuses
<1>1. /\ facility.principal \in Nat /\ facility.accruedInterest \in Nat
      /\ Pending(facility, now) \in Nat
      /\ Standing \in Statuses
  BY PendingType DEF TypeInv, CreditTypeOK, Facility, Standing
<1>2. QED BY <1>1, CurrentFields DEF Debt, Outstanding, Owed

\* The same after a step that accrued, with no time passing in it.
LEMMA DebtAfterAccrual ==
    ASSUME TypeInv', now' = now, facility'.lastAccrual = now
    PROVE  Debt' = Owed(facility')
<1>1. facility' \in Facility /\ now \in Nat
  BY DEF TypeInv, CreditTypeOK
<1>2. Outstanding(facility', now) = Owed(facility')
  BY <1>1, NothingPending
<1>3. QED BY <1>2 DEF Debt

-----------------------------------------------------------------------------
(* The actions. *)

LEMMA DrawdownBorrows ==
    ASSUME TypeInv, TypeInv', NEW amount \in MinDrawdown..MaxLent, NEW offer \in Offers,
           Drawdown(amount, offer)
    PROVE  Account!Borrow
<1>1. amount \in Nat /\ amount > 0
  BY CreditAssumption
<1>2. facility'.lastAccrual = now /\ now' = now
  BY <1>1, DrawdownFields DEF Drawdown
<1>3. Debt' = Debt + amount
  BY <1>1, <1>2, DebtAfterAccrual, DebtIsCurrent, DrawdownLimit
<1>4. Standing = "ACTIVE" /\ Standing' = Standing
  <2>1. facility.status = "ACTIVE" /\ Current.status = facility.status
    BY OverdueIsRefused, CurrentFields DEF Drawdown
  <2>2. facility'.status = OnTerms(Current, offer).status
    BY <1>1, CurrentFields, OnTermsFields DEF Drawdown, Facility
  <2>3. QED BY <2>1, <2>2, CurrentFields, OnTermsFields DEF Standing
<1>5. QED BY <1>1, <1>3, <1>4, DebtIsCurrent DEF Account!Borrow, Debt, Standing

LEMMA RefreshMovesNothing ==
    ASSUME TypeInv, TypeInv', NEW offer \in Offers, RefreshCreditLine(offer)
    PROVE  Debt' = Debt /\ Standing' = Standing
<1>1. /\ facility'.lastAccrual = now /\ now' = now
      /\ Owed(facility') = Owed(Current)
      /\ facility'.status = Current.status
  BY CurrentFields, OnTermsFields DEF RefreshCreditLine, Owed
<1>2. QED BY <1>1, DebtAfterAccrual, DebtIsCurrent, CurrentFields DEF Standing

LEMMA UpdateReassesses ==
    ASSUME TypeInv, TypeInv', UpdateStatus
    PROVE  Account!Reassess \/ (Debt' = Debt /\ Standing' = Standing)
<1>1. /\ facility'.lastAccrual = now /\ now' = now
      /\ Owed(facility') = Owed(Current)
  BY CurrentFields, ReassessedFields DEF UpdateStatus, Owed
<1>2. Debt' = Debt
  BY <1>1, DebtAfterAccrual, DebtIsCurrent
<1>3. facility'.status =
        IF PastDefault(Current) THEN "DEFAULT"
        ELSE IF Owed(Current) > 0 /\ now - lastPayment > periods.grace THEN "DELINQUENT"
        ELSE Current.status
  BY CurrentFields DEF UpdateStatus, Reassessed, Facility
<1>4. CASE Standing' = Standing
  BY <1>2, <1>4
<1>5. CASE Standing' # Standing
  <2>1. Owed(Current) > 0 /\ facility'.status \in {"DELINQUENT", "DEFAULT"}
    BY <1>3, <1>5, CurrentFields DEF PastDefault, Standing
  <2>2. QED BY <1>2, <2>1, DebtIsCurrent DEF Account!Reassess, Debt, Standing
<1>6. QED BY <1>4, <1>5

LEMMA RepayPays ==
    ASSUME TypeInv, TypeInv', NEW amount \in Nat, NEW byAgent \in BOOLEAN,
           amount > 0, RepayFacility(amount, byAgent), now' = now
    PROVE  Account!Pay
<1>1. facility'.lastAccrual = now /\ now' = now
  BY RepayFields
<1>2. Payment(amount) \in Nat /\ 0 < Payment(amount) /\ Payment(amount) <= Owed(Current)
  BY PaymentBounds, DebtIsCurrent DEF RepayFacility, Payment, Lesser
<1>3. Owed(facility') = Owed(Current) - Payment(amount)
  <2>1. /\ Current.principal \in Nat /\ Current.accruedInterest \in Nat
        /\ Current.principal = facility.principal
    BY CurrentFields DEF Facility
  <2>2. /\ facility'.principal
             = Current.principal - Monus(Payment(amount), Current.accruedInterest)
        /\ facility'.accruedInterest = Monus(Current.accruedInterest, Payment(amount))
    BY <2>1, RepayFields
  <2>3. QED BY <1>2, <2>1, <2>2 DEF Owed, Monus
<1>4. Debt' \in Nat /\ Debt' < Debt
  BY <1>1, <1>2, <1>3, DebtAfterAccrual, DebtIsCurrent
<1>5. Standing' \in IF Standing = "DELINQUENT" THEN {"DELINQUENT", "ACTIVE"} ELSE {Standing}
  <2> DEFINE f == Paid(Current, Payment(amount))
  <2>1. f \in Facility /\ f.status = facility.status
    BY <1>2, CurrentFields, PaidFields
  <2>2. facility' = [f EXCEPT !.status = Cured(@)] \/ facility' = f
    BY DEF RepayFacility
  <2> HIDE DEF f
  <2>3. facility'.status = Cured(f.status) \/ facility'.status = f.status
    BY <2>1, <2>2 DEF Facility
  <2>4. QED BY <2>1, <2>3 DEF Cured, Standing
<1>6. QED BY <1>4, <1>5 DEF Account!Pay, Debt, Standing

\* A facility written down by any amount is forgiven that much, or owed nothing.
LEMMA CutForgives ==
    ASSUME TypeInv, TypeInv', NEW amount \in Nat,
           facility' = WrittenDown(Current, amount), now' = now
    PROVE  Account!Forgive \/ (Debt' = Debt /\ Standing' = Standing)
<1> DEFINE cut == Lesser(amount, Owed(Current))
<1>1. facility'.lastAccrual = now /\ facility' = Paid(Current, cut)
  BY WriteDownFields DEF WrittenDown
<1>2. cut \in Nat /\ cut <= Owed(Current)
  BY DebtIsCurrent DEF Lesser
<1> HIDE DEF cut
<1>3. Owed(facility') = Owed(Current) - cut
  <2>1. Current.principal \in Nat /\ Current.accruedInterest \in Nat /\ Current \in Facility
    BY CurrentFields DEF Facility
  <2>2. /\ facility'.principal = Current.principal - Monus(cut, Current.accruedInterest)
        /\ facility'.accruedInterest = Monus(Current.accruedInterest, cut)
    BY <1>1, <1>2, <2>1, PaidFields
  <2>3. QED BY <1>2, <2>1, <2>2 DEF Owed, Monus
<1>4. Debt' = Debt - cut /\ Debt' \in Nat
  BY <1>1, <1>2, <1>3, DebtAfterAccrual, DebtIsCurrent
<1>5. Standing' = Standing
  BY <1>1, <1>2, CurrentFields, PaidFields DEF Standing
<1>6. CASE cut > 0
  BY <1>2, <1>4, <1>5, <1>6, DebtIsCurrent DEF Account!Forgive, Debt, Standing
<1>7. CASE ~(cut > 0)
  BY <1>2, <1>4, <1>5, <1>7, DebtIsCurrent
<1>8. QED BY <1>6, <1>7

LEMMA WriteDownForgives ==
    ASSUME TypeInv, TypeInv', NEW amount \in Nat, OwnerWriteDown(amount)
    PROVE  Account!Forgive \/ (Debt' = Debt /\ Standing' = Standing)
  BY CutForgives DEF OwnerWriteDown

\* Time adds interest to a debt, never takes any away, and creates no debt.
LEMMA TickPasses ==
    ASSUME TypeInv, TypeInv', Tick
    PROVE  Account!TimePasses \/ (Debt' = Debt /\ Standing' = Standing)
<1>f. /\ facility \in Facility /\ now \in Nat /\ facility.lastAccrual \in Nat
      /\ facility.lastAccrual <= now
      /\ facility.principal \in Nat /\ facility.rate \in Nat
      /\ facility.accruedInterest \in Nat
  BY DEF TypeInv, CreditTypeOK, Facility
<1>1. Standing' = Standing /\ Debt' = Outstanding(facility, now + 1)
  BY DEF Tick, Debt, Standing
<1>2. CASE facility.principal = 0 \/ facility.lastAccrual = 0
  <2>1. Pending(facility, now) = 0 /\ Pending(facility, now + 1) = 0
    BY <1>2 DEF Pending
  <2>2. QED BY <1>1, <2>1 DEF Debt, Outstanding
<1>3. CASE ~(facility.principal = 0 \/ facility.lastAccrual = 0)
  <2> DEFINE d == facility.principal * facility.rate
             a == d * (now - facility.lastAccrual)
             b == d * ((now + 1) - facility.lastAccrual)
  <2>1. d \in Nat
    BY <1>f
  <2> HIDE DEF d
  <2>2. a \in Nat /\ b \in Nat /\ a <= b
    BY <1>f, <2>1
  <2> HIDE DEF a, b
  <2>3. a \div Year <= b \div Year /\ a \div Year \in Nat /\ b \div Year \in Nat
    BY <2>2, DivisionMonotonic, Division, CreditAssumption
  <2>4. Pending(facility, now) = a \div Year /\ Pending(facility, now + 1) = b \div Year
    BY <1>f, <1>3 DEF Pending, a, b, d
  <2>5. Debt \in Nat /\ Debt > 0 /\ Debt' \in Nat /\ Debt' >= Debt
    BY <1>1, <1>3, <1>f, <2>3, <2>4 DEF Debt, Outstanding, Owed
  <2>6. QED BY <1>1, <2>5 DEF Account!TimePasses, Debt, Standing
<1>4. QED BY <1>2, <1>3

-----------------------------------------------------------------------------
(* The refinement. *)

LEMMA StepsImplementAccount ==
    ASSUME TypeInv, [CreditNext]_creditVars
    PROVE  Account!Next \/ (Debt' = Debt /\ Standing' = Standing)
<1>t. TypeInv'
  BY TypeNext
<1>1. ASSUME now' = now, facility' = facility
      PROVE  Debt' = Debt /\ Standing' = Standing
  BY <1>1 DEF Debt, Standing
<1>2. CASE BorrowerNext
  BY <1>t, <1>2, DrawdownBorrows, RefreshMovesNothing, UpdateReassesses
     DEF BorrowerNext, Account!Next
<1>3. ASSUME NEW amount \in Amounts, NEW byAgent \in BOOLEAN, Repay(amount, byAgent)
      PROVE  Account!Next
  <2>1. amount \in Nat
    BY <1>t, CurrentFields DEF Amounts, Outstanding, Owed, Facility, TypeInv, CreditTypeOK
  <2>2. QED BY <1>t, <1>3, <2>1, RepayPays DEF Account!Next, Repay
<1>4. CASE OwnerNext
  <2>1. ASSUME NEW amount \in WriteDowns, OwnerWriteDown(amount)
        PROVE  Account!Next \/ (Debt' = Debt /\ Standing' = Standing)
    BY <1>t, <2>1, CreditAssumption, WriteDownForgives DEF Account!Next
  <2>2. QED
    BY <1>1, <1>4, <2>1 DEF OwnerNext, SetPeriods, TurnGate, CollectFees, OwnerSetFrozen,
                            OwnerWriteDownVault, VaultStep
<1>5. CASE BackersNext
  BY <1>1, <1>5 DEF BackersNext, BackersDeposit, BackersWithdraw, VaultStep
<1>6. CASE Tick
  BY <1>t, <1>6, TickPasses DEF Account!Next
<1>7. CASE UNCHANGED creditVars
  BY <1>1, <1>7 DEF creditVars
<1>8. QED BY <1>2, <1>3, <1>4, <1>5, <1>6, <1>7 DEF CreditNext

\* The credit line implements the abstract account, whatever the constants are.
THEOREM CreditLineImplementsAccount == CreditSpec => ImplementsAccount
<1>1. CreditInit => Account!Init
  BY DEF CreditInit, Account!Init, Outstanding, Owed, Pending
<1>2. TypeInv /\ [CreditNext]_creditVars
         => [Account!Next]_<<Outstanding(facility, now), facility.status>>
  BY StepsImplementAccount DEF Debt, Standing
<1>3. QED
  BY <1>1, <1>2, TypeInit, TypeNext, PTL DEF CreditSpec, ImplementsAccount, Account!Spec
=============================================================================
