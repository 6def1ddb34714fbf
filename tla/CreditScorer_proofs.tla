------------------------- MODULE CreditScorer_proofs -------------------------
(***************************************************************************)
(* Theorems about RevenueLockbox and then about CreditScorer, which is     *)
(* composed with it, for every value of their constants.  Of the lockbox:  *)
(* types, revenue is counted once, epochs are counted once, and its        *)
(* payments leave the credit line an implementation of CreditAccount.  Of  *)
(* the scorer: every answer is inside the parameters in force, so the      *)
(* contracts together implement LockboxSpec, where the answer is any       *)
(* member of Offers.                                                       *)
(***************************************************************************)
EXTENDS CreditScorer, CreditLine_proofs, FiniteSetTheorems

allVars == <<creditVars, lockboxVars>>

-----------------------------------------------------------------------------
(* What one call of processRevenue takes and splits. *)

\* A share of an amount in basis points is no more than the amount.
LEMMA ShareIsPart ==
    ASSUME NEW a \in Nat, NEW s \in Nat, NEW b \in Nat \ {0}, s <= b
    PROVE  (a * s) \div b \in Nat /\ (a * s) \div b <= a
<1> DEFINE p == a * s
           q == p \div b
<1>1. p \in Nat /\ a * b \in Nat /\ p <= a * b
  BY SMT
<1> HIDE DEF p
<1>2. q \in Nat /\ q * b <= p
  BY <1>1, Division
<1> HIDE DEF q
<1>3. ASSUME q >= a + 1 PROVE FALSE
  <2>1. q * b >= (a + 1) * b /\ q * b \in Nat
    BY <1>2, <1>3
  <2>2. (a + 1) * b = a * b + b
    OBVIOUS
  <2>3. QED BY <1>1, <1>2, <2>1, <2>2
<1>4. q \in Nat /\ q <= a
  BY <1>2, <1>3
<1>5. QED BY <1>4 DEF q, p

\* The lockbox's own storage and the history keep their types.
LockInv ==
    /\ TypeInv
    /\ lockbox \in LockboxType
    /\ arrived \in Nat

LEMMA LockboxFields ==
    ASSUME LockInv
    PROVE  /\ lockbox.balance \in Nat /\ lockbox.totalRevenueCapture \in Nat
           /\ lockbox.totalRepaid \in Nat /\ lockbox.epochsWithRevenue \in Nat
           /\ lockbox.revenueByEpoch \in [Epochs -> Nat]
  BY DEF LockInv, LockboxType

\* What is taken is in the lockbox, what goes to the debt is part of it.
LEMMA SplitBounds ==
    ASSUME LockInv, lockbox.balance > 0
    PROVE  /\ Taken \in Nat /\ 0 < Taken /\ Taken <= lockbox.balance
           /\ RepaymentPart \in Nat /\ RepaymentPart <= Taken
           /\ ToDebt \in Nat /\ ToDebt <= RepaymentPart
           /\ ToDebt <= Owed(Current)
<1>1. Taken \in Nat /\ 0 < Taken /\ Taken <= lockbox.balance
  BY LockboxFields, LockboxAssumption DEF Taken, Lesser
<1>2. RepaymentPart \in Nat /\ RepaymentPart <= Taken
  BY <1>1, ShareIsPart, LockboxAssumption, BooksAssumption DEF RepaymentPart
<1>3. Outstanding(facility, now) \in Nat /\ Outstanding(facility, now) = Owed(Current)
  BY DebtIsCurrent DEF LockInv, Debt
<1>4. QED BY <1>1, <1>2, <1>3 DEF ToDebt, Lesser

\* repay takes all that processRevenue offers it.
LEMMA RepayTakesAll ==
    ASSUME LockInv, lockbox.balance > 0
    PROVE  Payment(ToDebt) = ToDebt
  BY SplitBounds, DebtIsCurrent DEF LockInv, Payment, Lesser

\* So a call lowers the balance by what it counts as captured.
LEMMA BalanceAfterProcess ==
    ASSUME LockInv, ProcessRevenue
    PROVE  lockbox' = [lockbox EXCEPT
              !.balance = @ - Taken,
              !.totalRevenueCapture = @ + Taken,
              !.totalRepaid = @ + RepaymentPart,
              !.revenueByEpoch[CurrentEpoch] = IF Taken >= MinRevenue THEN @ + Taken ELSE @,
              !.epochsWithRevenue = @ + NewEpoch]
<1>1. lockbox.balance \in Nat /\ lockbox.balance > 0
  BY LockboxFields DEF ProcessRevenue
<1>2. (((lockbox.balance - (Taken - RepaymentPart)) - (RepaymentPart - ToDebt))
         - (IF ToDebt > 0 THEN Payment(ToDebt) ELSE 0)) = lockbox.balance - Taken
  BY <1>1, SplitBounds, RepayTakesAll
<1>3. QED BY <1>2 DEF ProcessRevenue

-----------------------------------------------------------------------------
(* Types. *)

LEMMA LockInit == LockboxInit => LockInv
<1> SUFFICES ASSUME LockboxInit PROVE LockInv
  OBVIOUS
<1>1. TypeInv
  BY TypeInit DEF LockboxInit
<1>2. lockbox \in LockboxType
  BY DEF LockboxInit, LockboxType
<1>3. QED BY <1>1, <1>2 DEF LockInv, LockboxInit

\* A call of processRevenue keeps the credit line's types.
LEMMA ProcessKeepsCreditTypes ==
    ASSUME LockInv, ProcessRevenue
    PROVE  TypeInv'
<1> USE DEF LockInv, TypeInv, CreditTypeOK
<1> DEFINE direct == RepaymentPart - ToDebt
<1>1. direct \in Nat /\ ToDebt \in Nat
  BY SplitBounds, LockboxFields DEF ProcessRevenue
<1> HIDE DEF direct
<1>2. CASE ToDebt > 0
  <2>1. /\ RepayFacility(ToDebt, TRUE)
        /\ vault' = AfterRepayment(AfterRepay(vault, ToDebt), direct, 0)
    BY <1>2 DEF ProcessRevenue, PayDebtAndVault, direct
  <2>2. /\ facility' \in Facility /\ facility'.lastAccrual = now
        /\ hist' \in HistoryType /\ loansRepaid' \in Nat /\ lastPayment' \in Nat
    BY <1>1, <2>1, RepayFields, AccrualHistory
  <2>3. AfterRepay(vault, ToDebt) \in Books
    BY <1>1, PaymentBounds, BooksOperations DEF AfterRepay
  <2>4. vault' \in Books
    BY <1>1, <2>1, <2>3, BooksOperations
  <2>5. QED BY <2>2, <2>4 DEF ProcessRevenue
<1>3. CASE ~(ToDebt > 0)
  <2>1. /\ vault' = AfterRepayment(vault, direct, 0)
        /\ UNCHANGED <<facility, lastPayment, loansRepaid, hist>>
    BY <1>3 DEF ProcessRevenue, PayDebtAndVault, direct
  <2>2. vault' \in Books
    BY <1>1, <2>1, BooksOperations
  <2>3. QED BY <2>1, <2>2 DEF ProcessRevenue
<1>4. QED BY <1>2, <1>3

\* An update at an argument outside the domain changes nothing.
LEMMA UpdateKeepsType ==
    ASSUME NEW S, NEW g \in [S -> Nat], NEW i, NEW v, i \in S => v \in Nat
    PROVE  [g EXCEPT ![i] = v] \in [S -> Nat]
<1>1. CASE i \in S
  BY <1>1
<1>2. CASE i \notin S
  BY <1>2
<1>3. QED BY <1>1, <1>2

LEMMA LockNext == LockInv /\ [LockboxNext]_allVars => LockInv'
<1> SUFFICES ASSUME LockInv, [LockboxNext]_allVars PROVE LockInv'
  OBVIOUS
<1>1. CASE CreditNext /\ UNCHANGED lockboxVars
  BY <1>1, TypeNext DEF LockInv, lockboxVars
<1>2. CASE ProcessRevenue
  <2>1. lockbox.balance > 0 /\ NewEpoch \in Nat
    BY <1>2 DEF ProcessRevenue, NewEpoch
  <2> DEFINE e == CurrentEpoch
             f == lockbox.revenueByEpoch
             x == IF Taken >= MinRevenue THEN f[e] + Taken ELSE f[e]
             r == [f EXCEPT ![e] = x]
             after == [lockbox EXCEPT
                          !.balance = lockbox.balance - Taken,
                          !.totalRevenueCapture = lockbox.totalRevenueCapture + Taken,
                          !.totalRepaid = lockbox.totalRepaid + RepaymentPart,
                          !.revenueByEpoch = r,
                          !.epochsWithRevenue = lockbox.epochsWithRevenue + NewEpoch]
  <2>2. f \in [Epochs -> Nat] /\ Taken \in Nat
    BY <2>1, LockboxFields, SplitBounds
  <2>a. e \in Epochs => x \in Nat
    BY <2>2
  <2>3. lockbox' = after
    BY <1>2, BalanceAfterProcess DEF LockInv, LockboxType
  <2> HIDE DEF x, e, f
  <2>b. r \in [Epochs -> Nat]
    BY <2>2, <2>a, UpdateKeepsType
  <2> HIDE DEF r
  <2> DEFINE l1 == [lockbox EXCEPT !.balance = lockbox.balance - Taken]
             l2 == [l1 EXCEPT !.totalRevenueCapture = lockbox.totalRevenueCapture + Taken]
             l3 == [l2 EXCEPT !.totalRepaid = lockbox.totalRepaid + RepaymentPart]
             l4 == [l3 EXCEPT !.revenueByEpoch = r]
             l5 == [l4 EXCEPT !.epochsWithRevenue = lockbox.epochsWithRevenue + NewEpoch]
  <2>c. lockbox' = l5
    BY <2>3 DEF LockInv, LockboxType
  <2> HIDE DEF after
  <2>d. l1 \in LockboxType
    BY <2>1, LockboxFields, SplitBounds DEF LockInv, LockboxType
  <2> HIDE DEF l1
  <2>e. l2 \in LockboxType
    BY <2>2, <2>d, LockboxFields DEF LockboxType
  <2> HIDE DEF l2
  <2>f. l3 \in LockboxType
    BY <2>1, <2>e, LockboxFields, SplitBounds DEF LockboxType
  <2> HIDE DEF l3
  <2>g. l4 \in LockboxType
    BY <2>b, <2>f DEF LockboxType
  <2> HIDE DEF l4
  <2>4. lockbox' \in LockboxType
    BY <2>1, <2>c, <2>g, LockboxFields DEF LockboxType
  <2>5. QED BY <1>2, <2>4, ProcessKeepsCreditTypes DEF LockInv, ProcessRevenue
<1>3. ASSUME NEW amount \in Payments, RevenueArrives(amount)
      PROVE  LockInv'
  <2>1. amount \in Nat
    BY LockboxAssumption
  <2>2. TypeInv'
    BY <1>3, TypeNext DEF LockInv, RevenueArrives
  <2>3. QED BY <1>3, <2>1, <2>2 DEF RevenueArrives, LockInv, LockboxType
<1>4. CASE UNCHANGED allVars
  <2>1. TypeInv'
    BY <1>4, TypeNext DEF LockInv, allVars
  <2>2. QED BY <1>4, <2>1 DEF LockInv, allVars, lockboxVars
<1>5. QED BY <1>1, <1>2, <1>3, <1>4 DEF LockboxNext

\* The lockbox, with the credit line and the vault it pays, keeps its types.
THEOREM LockboxTypeCorrect == LockboxSpec => []LockboxTypeOK
<1>1. LockInv => LockboxTypeOK
  BY DEF LockInv, LockboxTypeOK, TypeInv
<1>2. QED BY <1>1, LockInit, LockNext, PTL DEF LockboxSpec, allVars

-----------------------------------------------------------------------------
(* Revenue. *)

\* Every token that arrived is in the lockbox or was captured once.
THEOREM RevenueIsCountedOnce == LockboxSpec => []RevenueCountedOnce
<1>1. LockboxInit => RevenueCountedOnce
  BY DEF LockboxInit, RevenueCountedOnce
<1>2. LockInv /\ RevenueCountedOnce /\ [LockboxNext]_allVars => RevenueCountedOnce'
  <2> SUFFICES ASSUME LockInv, RevenueCountedOnce, [LockboxNext]_allVars
               PROVE  RevenueCountedOnce'
    OBVIOUS
  <2> USE DEF RevenueCountedOnce
  <2>1. CASE (CreditNext /\ UNCHANGED lockboxVars) \/ UNCHANGED allVars
    BY <2>1 DEF lockboxVars, allVars
  <2>2. CASE ProcessRevenue
    <3>1. /\ lockbox'.balance = lockbox.balance - Taken
          /\ lockbox'.totalRevenueCapture = lockbox.totalRevenueCapture + Taken
      BY <2>2, BalanceAfterProcess DEF LockInv, LockboxType
    <3>2. Taken \in Nat /\ arrived' = arrived
      BY <2>2, SplitBounds DEF ProcessRevenue
    <3>3. QED BY <3>1, <3>2, LockboxFields
  <2>3. ASSUME NEW amount \in Payments, RevenueArrives(amount)
        PROVE  RevenueCountedOnce'
    <3>1. /\ lockbox'.balance = lockbox.balance + amount
          /\ lockbox'.totalRevenueCapture = lockbox.totalRevenueCapture
          /\ arrived' = arrived + amount
      BY <2>3 DEF RevenueArrives, LockInv, LockboxType
    <3>2. amount \in Nat
      BY LockboxAssumption
    <3>3. QED BY <3>1, <3>2, LockboxFields
  <2>4. QED BY <2>1, <2>2, <2>3 DEF LockboxNext
<1>3. QED BY <1>1, <1>2, LockInit, LockNext, PTL DEF LockboxSpec, allVars

-----------------------------------------------------------------------------
(* Epochs. *)

Counted == {e \in Epochs : lockbox.revenueByEpoch[e] > 0}

\* The clock stays inside the epochs that have books, and no epoch has revenue
\* before it began.
EpochInv ==
    /\ now >= 1 /\ (now = 1 \/ now <= MaxTime)
    /\ lockbox.epochsWithRevenue = Cardinality(Counted)
    /\ \A e \in Counted : e <= CurrentEpoch

\* Time does not take the epoch back.
LEMMA EpochMonotonic ==
    ASSUME NEW a \in Nat, NEW b \in Nat, a >= 1, a <= b
    PROVE  /\ (a - 1) \div EpochLength \in Nat /\ (b - 1) \div EpochLength \in Nat
           /\ (a - 1) \div EpochLength <= (b - 1) \div EpochLength
<1>1. a - 1 \in Nat /\ b - 1 \in Nat /\ a - 1 <= b - 1
  OBVIOUS
<1>2. QED BY <1>1, LockboxAssumption, Division, DivisionMonotonic

\* The epoch of the moment has books.
LEMMA EpochInRange ==
    ASSUME LockInv, EpochInv
    PROVE  /\ CurrentEpoch \in Nat /\ CurrentEpoch \in Epochs
           /\ MaxTime \div EpochLength \in Nat
<1>1. /\ now \in Nat /\ now >= 1 /\ (now = 1 \/ now <= MaxTime)
      /\ MaxTime \in Nat /\ EpochLength \in Nat \ {0}
  BY CreditAssumption, LockboxAssumption DEF LockInv, TypeInv, CreditTypeOK, EpochInv
<1>2. now - 1 \in Nat /\ now - 1 <= MaxTime
  BY <1>1
<1>3. /\ (now - 1) \div EpochLength \in Nat
      /\ MaxTime \div EpochLength \in Nat
      /\ (now - 1) \div EpochLength <= MaxTime \div EpochLength
  BY <1>1, <1>2, Division, DivisionMonotonic
<1>4. QED BY <1>3 DEF CurrentEpoch, Epochs

LEMMA EpochInit == LockboxInit => EpochInv
<1> SUFFICES ASSUME LockboxInit PROVE EpochInv
  OBVIOUS
<1>1. /\ now = 1
      /\ lockbox.epochsWithRevenue = 0
      /\ lockbox.revenueByEpoch = [e \in Epochs |-> 0]
  BY DEF LockboxInit, CreditInit
<1>2. Counted = {}
  BY <1>1 DEF Counted
<1>3. QED BY <1>1, <1>2, FS_EmptySet DEF EpochInv

LEMMA EpochNext == LockInv /\ EpochInv /\ [LockboxNext]_allVars => EpochInv'
<1> SUFFICES ASSUME LockInv, EpochInv, [LockboxNext]_allVars PROVE EpochInv'
  OBVIOUS
<1>t. now \in Nat /\ MaxTime \in Nat /\ CurrentEpoch \in Nat
  BY EpochInRange, CreditAssumption DEF LockInv, TypeInv, CreditTypeOK
<1>1. ASSUME lockbox'.revenueByEpoch = lockbox.revenueByEpoch,
             lockbox'.epochsWithRevenue = lockbox.epochsWithRevenue,
             now' = now \/ (now < MaxTime /\ now' = now + 1)
      PROVE  EpochInv'
  <2>1. Counted' = Counted
    BY <1>1 DEF Counted
  <2>2. now' \in Nat /\ now <= now' /\ now' >= 1 /\ (now' = 1 \/ now' <= MaxTime)
    BY <1>t, <1>1 DEF EpochInv
  <2>3. CurrentEpoch <= CurrentEpoch' /\ CurrentEpoch' \in Nat
    <3>1. now >= 1
      BY DEF EpochInv
    <3>2. QED
      BY <1>t, <2>2, <3>1, EpochMonotonic DEF CurrentEpoch
  <2>4. \A e \in Counted : e \in Nat /\ e <= CurrentEpoch
    BY EpochInRange DEF EpochInv, Counted, Epochs
  <2>5. \A e \in Counted : e <= CurrentEpoch'
    BY <1>t, <2>3, <2>4
  <2>6. lockbox'.epochsWithRevenue = Cardinality(Counted)
    BY <1>1 DEF EpochInv
  <2>7. QED BY <2>1, <2>2, <2>5, <2>6 DEF EpochInv
<1>2. CASE CreditNext /\ UNCHANGED lockboxVars
  <2>1. now' = now \/ (now < MaxTime /\ now' = now + 1)
    BY <1>2 DEF CreditNext, BorrowerNext, OwnerNext, BackersNext, Drawdown,
                RefreshCreditLine, UpdateStatus, Repay, OwnerWriteDown, SetPeriods,
                TurnGate, CollectFees, OwnerSetFrozen, OwnerWriteDownVault, VaultStep,
                BackersDeposit, BackersWithdraw, Tick
  <2>2. QED BY <1>1, <1>2, <2>1 DEF lockboxVars
<1>3. CASE ProcessRevenue
  <2> DEFINE e == CurrentEpoch
             f == lockbox.revenueByEpoch
             x == IF Taken >= MinRevenue THEN f[e] + Taken ELSE f[e]
  <2>1. /\ Taken \in Nat /\ Taken > 0 /\ MinRevenue \in Nat /\ now' = now
        /\ f \in [Epochs -> Nat] /\ e \in Epochs
        /\ lockbox.epochsWithRevenue \in Nat
    BY <1>3, SplitBounds, LockboxFields, LockboxAssumption, EpochInRange DEF ProcessRevenue
  <2>2. /\ lockbox'.revenueByEpoch = [f EXCEPT ![e] = x]
        /\ lockbox'.epochsWithRevenue = lockbox.epochsWithRevenue + NewEpoch
    BY <1>3, BalanceAfterProcess DEF LockInv, LockboxType
  <2>3. CASE ~(Taken >= MinRevenue)
    <3>1. x = f[e] /\ NewEpoch = 0
      BY <2>3 DEF NewEpoch
    <3>2. [f EXCEPT ![e] = x] = f
      BY <2>1, <3>1
    <3> HIDE DEF x, f, e
    <3>3. QED BY <1>1, <2>1, <2>2, <3>1, <3>2 DEF f
  <2>4. CASE Taken >= MinRevenue
    <3>1. f[e] \in Nat /\ x \in Nat /\ x > 0
      BY <2>1, <2>4
    <3>2. NewEpoch = IF f[e] = 0 THEN 1 ELSE 0
      BY <2>4 DEF NewEpoch
    <3>3. Counted = {i \in Epochs : f[i] > 0}
          /\ Counted' = {i \in Epochs : [f EXCEPT ![e] = x][i] > 0}
      BY <2>2 DEF Counted
    <3>4. CurrentEpoch' = CurrentEpoch
      BY <2>1 DEF CurrentEpoch
    <3> HIDE DEF x, f
    <3>5. Counted' = Counted \cup {e} /\ (e \in Counted <=> ~(f[e] = 0))
      BY <2>1, <3>1, <3>3
    <3> HIDE DEF e
    <3>6. Cardinality(Counted) \in Nat
          /\ Cardinality(Counted') = IF f[e] = 0 THEN Cardinality(Counted) + 1
                                                 ELSE Cardinality(Counted)
      <4>1. IsFiniteSet(Counted)
        <5>1. IsFiniteSet(Epochs)
          BY EpochInRange, FS_Interval DEF Epochs
        <5>2. QED BY <5>1, FS_Subset DEF Counted
      <4>2. Cardinality(Counted) \in Nat
        BY <4>1, FS_CardinalityType
      <4>3. Cardinality(Counted \cup {e})
              = IF e \in Counted THEN Cardinality(Counted) ELSE Cardinality(Counted) + 1
        BY <4>1, FS_AddElement
      <4>4. QED BY <3>5, <4>2, <4>3
    <3>7. lockbox'.epochsWithRevenue = Cardinality(Counted')
      BY <2>2, <3>2, <3>6 DEF EpochInv
    <3>8. \A i \in Counted' : i <= CurrentEpoch'
      BY <1>t, <3>4, <3>5 DEF EpochInv, e
    <3>9. QED BY <2>1, <3>7, <3>8 DEF EpochInv
  <2>5. QED BY <2>3, <2>4
<1>4. ASSUME NEW amount \in Payments, RevenueArrives(amount)
      PROVE  EpochInv'
  <2>1. /\ lockbox'.revenueByEpoch = lockbox.revenueByEpoch
        /\ lockbox'.epochsWithRevenue = lockbox.epochsWithRevenue
        /\ now' = now
    BY <1>4 DEF RevenueArrives, creditVars, LockInv, LockboxType
  <2>2. QED BY <1>1, <2>1
<1>5. CASE UNCHANGED allVars
  BY <1>1, <1>5 DEF allVars, lockboxVars, creditVars
<1>6. QED BY <1>2, <1>3, <1>4, <1>5 DEF LockboxNext

\* The epoch books the consistency score divides count each epoch once, and only
\* epochs that have begun.
THEOREM EpochsAreCountedOnce == LockboxSpec => []EpochsCountedOnce
<1>1. LockInv /\ EpochInv => EpochsCountedOnce
  <2> SUFFICES ASSUME LockInv, EpochInv PROVE EpochsCountedOnce
    OBVIOUS
  <2>1. Counted \in SUBSET (0..CurrentEpoch) /\ CurrentEpoch \in Nat
    BY EpochInRange DEF EpochInv, Counted, Epochs
  <2>2. /\ IsFiniteSet(0..CurrentEpoch)
        /\ Cardinality(0..CurrentEpoch) = CurrentEpoch + 1
    BY <2>1, FS_Interval
  <2>3. Cardinality(Counted) <= Cardinality(0..CurrentEpoch)
    BY <2>1, <2>2, FS_Subset
  <2>4. QED BY <2>2, <2>3 DEF EpochInv, EpochsCountedOnce, Counted
<1>2. QED
  BY <1>1, LockInit, LockNext, EpochInit, EpochNext, PTL DEF LockboxSpec, allVars

-----------------------------------------------------------------------------
(* The vault's book of the loan. *)

\* What processRevenue pays comes off the vault's loan: as repayment at least as
\* much as off the principal, and the excess once more.
LEMMA ProcessKeepsVaultBelow ==
    ASSUME LockInv, VaultNeverOverstatesDebt, ProcessRevenue
    PROVE  VaultNeverOverstatesDebt'
<1> DEFINE direct == RepaymentPart - ToDebt
<1>1. direct \in Nat /\ ToDebt \in Nat /\ Payment(ToDebt) \in Nat /\ InterestIn(ToDebt) \in Nat
  BY SplitBounds, LockboxFields, PaymentBounds DEF ProcessRevenue, LockInv
<1>2. VaultInv /\ vault \in Books /\ vault.totalBorrowed \in Nat
  BY DEF LockInv, VaultInv, TypeInv, CreditTypeOK, Books
<1> HIDE DEF direct
<1>3. CASE ToDebt > 0
  <2> DEFINE repaid == AfterRepay(vault, ToDebt)
  <2>1. RepayFacility(ToDebt, TRUE) /\ vault' = AfterRepayment(repaid, direct, 0)
    BY <1>3 DEF ProcessRevenue, PayDebtAndVault, direct
  <2>2. /\ repaid \in Books
        /\ repaid.totalBorrowed = Monus(vault.totalBorrowed, Payment(ToDebt))
    BY <1>1, <1>2, BooksOperations DEF AfterRepay
  <2> HIDE DEF repaid
  <2>3. vault'.totalBorrowed = Monus(repaid.totalBorrowed, direct)
    BY <1>1, <2>1, <2>2, BooksOperations
  <2>4. vault'.totalBorrowed \in Nat /\ vault'.totalBorrowed <= repaid.totalBorrowed
    BY <1>1, <2>2, <2>3 DEF Monus, Books
  <2>5. QED BY <1>1, <1>2, <2>1, <2>2, <2>4, PaymentKeepsVaultBelow
<1>4. CASE ~(ToDebt > 0)
  <2>1. vault' = AfterRepayment(vault, direct, 0) /\ UNCHANGED <<facility, hist>>
    BY <1>4 DEF ProcessRevenue, PayDebtAndVault, direct
  <2>2. vault'.totalBorrowed = Monus(vault.totalBorrowed, direct)
    BY <1>1, <1>2, <2>1, BooksOperations
  <2>3. /\ facility.principal \in Nat /\ hist.forgiven \in Nat
        /\ Monus(vault.totalBorrowed, direct) \in Nat
        /\ Monus(vault.totalBorrowed, direct) <= vault.totalBorrowed
    BY <1>1, <1>2 DEF Monus, VaultInv, TypeInv, CreditTypeOK, Facility, HistoryType
  <2>4. QED BY <1>2, <2>1, <2>2, <2>3 DEF VaultNeverOverstatesDebt
<1>5. QED BY <1>3, <1>4

\* With a lockbox that repays too, the vault never counts as lent more than the
\* facility's principal and what the owner forgave on the facility alone.
THEOREM VaultNeverOverstatesWithLockbox == LockboxSpec => []VaultNeverOverstatesDebt
<1>1. LockboxInit => VaultNeverOverstatesDebt
  BY DEF LockboxInit, CreditInit, NewBooks, VaultNeverOverstatesDebt
<1>2. LockInv /\ VaultNeverOverstatesDebt /\ [LockboxNext]_allVars
         => VaultNeverOverstatesDebt'
  <2> SUFFICES ASSUME LockInv, VaultNeverOverstatesDebt, [LockboxNext]_allVars
               PROVE  VaultNeverOverstatesDebt'
    OBVIOUS
  <2>1. CASE CreditNext \/ UNCHANGED creditVars
    BY <2>1, VaultNext DEF LockInv, VaultInv
  <2>2. CASE ProcessRevenue
    BY <2>2, ProcessKeepsVaultBelow
  <2>3. QED BY <2>1, <2>2 DEF LockboxNext, RevenueArrives, allVars
<1>3. QED BY <1>1, <1>2, LockInit, LockNext, PTL DEF LockboxSpec, allVars

-----------------------------------------------------------------------------
(* Interest, loan cycles and lending, with a lockbox that repays. *)

\* What processRevenue does to the facility: a repayment of the debt, or nothing.
LEMMA ProcessOnFacility ==
    ASSUME LockInv, ProcessRevenue
    PROVE  /\ now' = now /\ totalAmountBorrowed' = totalAmountBorrowed
           /\ \/ ToDebt \in Nat /\ RepayFacility(ToDebt, TRUE)
              \/ UNCHANGED <<facility, loansRepaid, hist>>
<1>1. ToDebt \in Nat
  BY SplitBounds DEF ProcessRevenue
<1>2. QED BY <1>1 DEF ProcessRevenue, PayDebtAndVault

LEMMA StepsWithLockbox ==
    ASSUME [LockboxNext]_allVars
    PROVE  [CreditNext]_creditVars \/ ProcessRevenue
  BY DEF LockboxNext, RevenueArrives, allVars

\* Interest stays exact when revenue repays it.
THEOREM InterestTracksWithLockbox == LockboxSpec => []InterestTracksIntegral
<1>1. LockboxInit => InterestInv
  BY InterestInit DEF LockboxInit
<1>2. LockInv /\ LockInv' /\ InterestInv /\ [LockboxNext]_allVars => InterestInv'
  <2> SUFFICES ASSUME LockInv, LockInv', InterestInv, [LockboxNext]_allVars
               PROVE  InterestInv'
    OBVIOUS
  <2>1. CASE [CreditNext]_creditVars
    BY <2>1, InterestNext
  <2>2. ASSUME ProcessRevenue PROVE Accrues \/ UNCHANGED <<now, facility, hist>>
    <3>1. CASE ToDebt \in Nat /\ RepayFacility(ToDebt, TRUE)
      BY <2>2, <3>1, ProcessOnFacility, RepayFields, AccrualHistory DEF LockInv, Accrues
    <3>2. CASE UNCHANGED <<facility, loansRepaid, hist>>
      BY <2>2, <3>2, ProcessOnFacility
    <3>3. QED BY <2>2, <3>1, <3>2, ProcessOnFacility
  <2>3. CASE ProcessRevenue
    BY <2>2, <2>3, InterestStep DEF LockInv
  <2>4. QED BY <2>1, <2>3, StepsWithLockbox
<1>3. QED
  BY <1>1, <1>2, InterestInvTracks, LockInit, LockNext, PTL DEF LockboxSpec, allVars

\* A cycle that revenue closes had a drawdown of its own too, and revenue leaves no
\* interest behind its principal.
THEOREM CyclesBackedWithLockbox ==
    LockboxSpec => [](NoInterestWithoutPrincipal /\ CyclesAreBackedByLoans)
<1>1. LockboxInit => CycleInv
  BY CyclesInit DEF LockboxInit
<1>2. LockInv /\ LockInv' /\ CycleInv /\ [LockboxNext]_allVars => CycleInv'
  <2> SUFFICES ASSUME LockInv, LockInv', CycleInv, [LockboxNext]_allVars PROVE CycleInv'
    OBVIOUS
  <2>1. CASE [CreditNext]_creditVars
    BY <2>1, CyclesNext
  <2>2. CASE ProcessRevenue
    <3>1. TypeInv /\ TypeInv'
      BY DEF LockInv
    <3>2. CASE ToDebt \in Nat /\ RepayFacility(ToDebt, TRUE)
      <4>1. NoInterestWithoutPrincipal'
        BY <3>1, <3>2, PaymentLeavesNoInterest DEF CycleInv
      <4>2. CyclesAreBackedByLoans'
        BY <2>2, <3>1, <3>2, ProcessOnFacility, RepayCycle
      <4>3. QED BY <3>1, <4>1, <4>2 DEF CycleInv
    <3>3. CASE UNCHANGED <<facility, loansRepaid, hist>>
      <4>1. totalAmountBorrowed' = totalAmountBorrowed
        BY <2>2, ProcessOnFacility
      <4>2. NoInterestWithoutPrincipal' /\ CyclesAreBackedByLoans'
        BY <3>3, <4>1 DEF CycleInv, NoInterestWithoutPrincipal, CyclesAreBackedByLoans
      <4>3. QED BY <3>1, <4>2 DEF CycleInv
    <3>4. QED BY <2>2, <3>2, <3>3, ProcessOnFacility
  <2>3. QED BY <2>1, <2>2, StepsWithLockbox
<1>3. CycleInv => NoInterestWithoutPrincipal /\ CyclesAreBackedByLoans
  BY DEF CycleInv
<1>4. QED BY <1>1, <1>2, <1>3, LockInit, LockNext, PTL DEF LockboxSpec, allVars

\* Revenue that repays never lends, and the rest lends as the credit line alone.
THEOREM LendsInGoodStandingWithLockbox == LockboxSpec => LendOnlyInGoodStanding
<1> DEFINE Good == facility'.principal > facility.principal =>
                      /\ Owed(facility) > 0 => now - lastPayment <= periods.grace
                      /\ Owed(facility') <= facility'.limit
<1>1. LockInv /\ [LockboxNext]_allVars => [Good]_creditVars
  <2> SUFFICES ASSUME LockInv, [LockboxNext]_allVars,
                      facility'.principal > facility.principal
               PROVE  /\ Owed(facility) > 0 => now - lastPayment <= periods.grace
                      /\ Owed(facility') <= facility'.limit
    OBVIOUS
  <2>1. TypeInv /\ facility.principal \in Nat /\ facility' # facility
    BY DEF LockInv, TypeInv, CreditTypeOK, Facility
  <2>2. ASSUME ProcessRevenue PROVE FALSE
    <3>1. ToDebt \in Nat /\ RepayFacility(ToDebt, TRUE)
      BY <2>1, <2>2, ProcessOnFacility
    <3>2. /\ facility'.principal
               = facility.principal - Monus(Payment(ToDebt), Current.accruedInterest)
          /\ Payment(ToDebt) \in Nat /\ Current.accruedInterest \in Nat
      BY <2>1, <3>1, RepayFields, PaymentBounds, CurrentFields DEF Facility
    <3>3. Monus(Payment(ToDebt), Current.accruedInterest) \in Nat
      BY <3>2 DEF Monus
    <3>4. QED BY <2>1, <3>2, <3>3
  <2>3. [CreditNext]_creditVars
    BY <2>2, StepsWithLockbox
  <2>4. QED BY <2>1, <2>3, LendingStep
<1>2. QED BY <1>1, LockInit, LockNext, PTL DEF LockboxSpec, allVars, LendOnlyInGoodStanding

-----------------------------------------------------------------------------
(* The abstract account. *)

\* A call of processRevenue pays the debt or leaves it alone: the excess it sends
\* straight to the vault never touches the account.
LEMMA ProcessPays ==
    ASSUME LockInv, ProcessRevenue
    PROVE  Account!Pay \/ (Debt' = Debt /\ Standing' = Standing)
<1>1. TypeInv /\ TypeInv' /\ now' = now
  BY ProcessKeepsCreditTypes DEF LockInv, ProcessRevenue
<1>2. CASE ToDebt > 0
  <2>1. ToDebt \in Nat /\ RepayFacility(ToDebt, TRUE)
    BY <1>2, SplitBounds DEF ProcessRevenue, PayDebtAndVault
  <2>2. QED BY <1>1, <1>2, <2>1, RepayPays
<1>3. CASE ~(ToDebt > 0)
  <2>1. facility' = facility
    BY <1>3 DEF ProcessRevenue, PayDebtAndVault
  <2>2. QED BY <1>1, <2>1 DEF Debt, Standing
<1>4. QED BY <1>2, <1>3

\* Composed with the lockbox, the credit line still implements the account.
THEOREM LockboxImplementsAccount == LockboxSpec => ImplementsAccount
<1>1. LockboxInit => Account!Init
  BY DEF LockboxInit, CreditInit, Account!Init, Outstanding, Owed, Pending
<1>2. LockInv /\ [LockboxNext]_allVars
         => [Account!Next]_<<Outstanding(facility, now), facility.status>>
  <2> SUFFICES ASSUME LockInv, [LockboxNext]_allVars
               PROVE  Account!Next \/ (Debt' = Debt /\ Standing' = Standing)
    BY DEF Debt, Standing
  <2>1. CASE CreditNext \/ UNCHANGED creditVars
    BY <2>1, StepsImplementAccount DEF LockInv
  <2>2. CASE ProcessRevenue
    BY <2>2, ProcessPays DEF Account!Next
  <2>3. QED BY <2>1, <2>2 DEF LockboxNext, RevenueArrives, allVars
<1>3. QED
  BY <1>1, <1>2, LockInit, LockNext, PTL
     DEF LockboxSpec, allVars, ImplementsAccount, Account!Spec

-----------------------------------------------------------------------------
(* The scorer: its own state. *)

ScorerInv ==
    /\ scorer \in ScorerType
    /\ scorer.params \in ParamChoices \cup {DeployedParams}

-----------------------------------------------------------------------------
(* The factors. *)

\* A part of a whole is a percentage of it.
LEMMA PartIsPercent ==
    ASSUME NEW a \in Nat, NEW b \in Nat \ {0}, a <= b
    PROVE  (a * 100) \div b \in Percent
<1>1. a * 100 = 100 * a
  OBVIOUS
<1>2. (100 * a) \div b \in Nat /\ (100 * a) \div b <= 100
  BY ShareIsPart
<1>3. QED BY <1>1, <1>2 DEF Percent

\* Half and a third of a percentage are percentages.
LEMMA FractionIsPercent ==
    ASSUME NEW a \in Percent
    PROVE  a \div 2 \in Percent /\ a \div 3 \in Percent
  BY DEF Percent

LEMMA ParamFields ==
    ASSUME ScorerInv
    PROVE  /\ scorer.params.minCreditLine \in Nat /\ scorer.params.maxCreditLine \in Nat
           /\ scorer.params.minRate \in Nat /\ scorer.params.maxRate \in Nat
           /\ scorer.params.revenueMultiplier \in Nat
           /\ scorer.params.minEpochRevenue \in Nat
           /\ scorer.params.minCreditLine <= scorer.params.maxCreditLine
           /\ scorer.params.minRate <= scorer.params.maxRate
           /\ scorer.creditLine \in BOOLEAN /\ scorer.zkVerifier \in BOOLEAN
  BY DEF ScorerInv, ScorerType, Params, ParamsAccepted

LEMMA RevenueBounds ==
    ASSUME LockInv, EpochInv, ScorerInv
    PROVE  ScoreRevenue(scorer.params) \in Percent
<1> DEFINE p == scorer.params
           avg == Revenue \div (CurrentEpoch + 1)
           base == (avg * p.revenueMultiplier) \div 100
<1>1. Revenue \in Nat /\ CurrentEpoch + 1 \in Nat \ {0}
  BY LockboxFields, EpochInRange DEF Revenue
<1>2. avg \in Nat
  BY <1>1, Division
<1> HIDE DEF avg
<1>3. avg * p.revenueMultiplier \in Nat
  BY <1>2, ParamFields
<1>4. base \in Nat
  BY <1>3, Division
<1> HIDE DEF base
<1>5. CASE base >= p.maxCreditLine \/ base <= p.minCreditLine
  <2>1. ScoreRevenue(p) \in {0, 100}
    BY <1>5, Zenon DEF ScoreRevenue, base, avg
  <2>2. QED BY <2>1 DEF Percent
<1>6. CASE ~(base >= p.maxCreditLine \/ base <= p.minCreditLine)
  <2>1. /\ base - p.minCreditLine \in Nat
        /\ p.maxCreditLine - p.minCreditLine \in Nat \ {0}
        /\ base - p.minCreditLine <= p.maxCreditLine - p.minCreditLine
    BY <1>4, <1>6, ParamFields
  <2>2. ((base - p.minCreditLine) * 100) \div (p.maxCreditLine - p.minCreditLine) \in Percent
    BY <2>1, PartIsPercent
  <2>3. QED BY <1>6, <2>2 DEF ScoreRevenue, base, avg
<1>7. QED BY <1>5, <1>6

LEMMA ConsistencyBounds ==
    ASSUME LockInv, EpochInv, ScorerInv
    PROVE  ScoreConsistency(scorer.params) \in Percent
<1> DEFINE share == (EpochsActive * 100) \div (CurrentEpoch + 1)
           steady == IF CurrentEpoch > 0 THEN Lesser(share, 100) ELSE 50 * EpochsActive
<1>1. /\ CurrentEpoch \in Nat /\ CurrentEpoch + 1 \in Nat \ {0}
      /\ lockbox.epochsWithRevenue \in Nat
  BY LockboxFields, EpochInRange
<1>2. EpochsActive \in Nat /\ (~(CurrentEpoch > 0) => EpochsActive \in {0, 1})
  BY <1>1 DEF EpochsActive
<1>3. share \in Nat
  BY <1>1, <1>2, Division
<1> HIDE DEF share
<1>4. steady \in Percent
  BY <1>2, <1>3 DEF Lesser, Percent
<1>5. ScoreConsistency(scorer.params) \in {steady, steady \div 2}
  BY DEF ScoreConsistency, share
<1> HIDE DEF steady
<1>6. QED BY <1>4, <1>5, FractionIsPercent

LEMMA HistoryBounds ==
    ASSUME LockInv, ScorerInv
    PROVE  ScoreCreditHistory(scorer.params) \in Percent
<1> DEFINE completed == IF loansRepaid >= HistoryLoans THEN 100
                        ELSE (loansRepaid * 100) \div HistoryLoans
           counted == IF totalAmountBorrowed < scorer.params.minCreditLine * HistoryFloor
                      THEN completed \div 3 ELSE completed
<1>1. loansRepaid \in Nat /\ HistoryLoans \in Nat \ {0} /\ facility.status \in Statuses
  BY ScorerAssumption DEF LockInv, TypeInv, CreditTypeOK, Facility
<1>2. completed \in Percent
  <2>1. CASE loansRepaid >= HistoryLoans
    BY <2>1 DEF Percent
  <2>2. CASE ~(loansRepaid >= HistoryLoans)
    <3>1. loansRepaid <= HistoryLoans
      BY <1>1, <2>2
    <3>2. QED BY <1>1, <2>2, <3>1, PartIsPercent
  <2>3. QED BY <2>1, <2>2
<1> HIDE DEF completed
<1>3. counted \in Percent
  BY <1>2, FractionIsPercent
<1>4. ScoreCreditHistory(scorer.params) \in {0, counted, counted \div 2}
  BY DEF ScoreCreditHistory, completed
<1> HIDE DEF counted
<1>5. QED BY <1>3, <1>4, FractionIsPercent DEF Percent

LEMMA TimeBounds ==
    ASSUME LockInv, EpochInv
    PROVE  ScoreTime \in Percent
<1> DEFINE days == (now - 1) \div DayLength
<1>1. now \in Nat /\ now >= 1 /\ DayLength \in Nat \ {0} /\ MaturityDays \in Nat \ {0}
  BY ScorerAssumption DEF LockInv, TypeInv, CreditTypeOK, EpochInv
<1>2. days \in Nat
  BY <1>1, Division
<1> HIDE DEF days
<1>3. CASE days >= MaturityDays
  BY <1>3 DEF ScoreTime, Percent, days
<1>4. CASE ~(days >= MaturityDays)
  <2>a. days <= MaturityDays
    BY <1>1, <1>2, <1>4
  <2>1. (days * 100) \div MaturityDays \in Percent
    BY <1>1, <1>2, <2>a, PartIsPercent
  <2>2. QED BY <1>4, <2>1 DEF ScoreTime, days
<1>5. QED BY <1>3, <1>4

LEMMA DebtRatioBounds ==
    ASSUME LockInv
    PROVE  ScoreDebtRatio \in Percent
<1>1. Revenue \in Nat /\ Outstanding(facility, now) \in Nat
  BY LockboxFields, DebtIsCurrent DEF Revenue, LockInv, Debt
<1>2. CASE ~scorer.creditLine \/ Revenue = 0
  BY <1>2 DEF ScoreDebtRatio, Percent
<1>3. CASE ~(~scorer.creditLine \/ Revenue = 0)
  <2> DEFINE d == (Outstanding(facility, now) * 100) \div Revenue
  <2>1. Outstanding(facility, now) * 100 \in Nat /\ Revenue \in Nat \ {0}
    BY <1>1, <1>3
  <2>2. d \in Nat
    BY <2>1, Division
  <2>3. ScoreDebtRatio = Monus(100, d)
    BY <1>3 DEF ScoreDebtRatio
  <2> HIDE DEF d
  <2>4. QED BY <2>2, <2>3 DEF Monus, Percent
<1>4. QED BY <1>2, <1>3

LEMMA ScoreBounds ==
    ASSUME LockInv, EpochInv, ScorerInv
    PROVE  CompositeScore \in Percent
<1> DEFINE a == ScoreRevenue(scorer.params)
           b == ScoreConsistency(scorer.params)
           c == ScoreCreditHistory(scorer.params)
           sum == a * 30 + b * 25 + c * 20 + ScoreTime * 15 + ScoreDebtRatio * 10
<1>1. /\ a \in Percent /\ b \in Percent /\ c \in Percent
      /\ ScoreTime \in Percent /\ ScoreDebtRatio \in Percent
  BY RevenueBounds, ConsistencyBounds, HistoryBounds, TimeBounds, DebtRatioBounds
<1>2. CompositeScore = sum \div 100
  BY DEF CompositeScore
<1> HIDE DEF a, b, c
<1>3. sum \in Int /\ 0 <= sum /\ sum <= 10000
  <2>1. /\ a \in Int /\ 0 <= a /\ a <= 100 /\ b \in Int /\ 0 <= b /\ b <= 100
        /\ c \in Int /\ 0 <= c /\ c <= 100
        /\ ScoreTime \in Int /\ 0 <= ScoreTime /\ ScoreTime <= 100
        /\ ScoreDebtRatio \in Int /\ 0 <= ScoreDebtRatio /\ ScoreDebtRatio <= 100
    BY <1>1 DEF Percent
  <2>2. sum \in Int
    BY <2>1
  <2>3. 0 <= sum
    BY <2>1
  <2>4. sum <= 10000
    BY <2>1
  <2> HIDE DEF sum
  <2>5. QED BY <2>2, <2>3, <2>4
<1> HIDE DEF sum
<1>4. sum \div 100 \in Int /\ 0 <= sum \div 100 /\ sum \div 100 <= 100
  BY <1>3
<1>5. QED BY <1>2, <1>4 DEF Percent

-----------------------------------------------------------------------------
(* The answer. *)

LEMMA AnswerBounds ==
    ASSUME LockInv, EpochInv, ScorerInv
    PROVE  AnswerWithinParams
<1> DEFINE p == scorer.params
           d == p.maxCreditLine - p.minCreditLine
           r == p.maxRate - p.minRate
           x == (CompositeScore * d) \div 100
           y == (CompositeScore * r) \div 100
           limit == p.minCreditLine + x
<1>1. CompositeScore \in Nat /\ CompositeScore <= 100 /\ d \in Nat /\ r \in Nat
  BY ScoreBounds, ParamFields DEF Percent
<1> HIDE DEF d, r
<1>2. CompositeScore * d = d * CompositeScore /\ CompositeScore * r = r * CompositeScore
  BY <1>1
<1>3. x \in Nat /\ x <= d /\ y \in Nat /\ y <= r
  BY <1>1, <1>2, ShareIsPart
<1> HIDE DEF x, y
<1>4. limit \in p.minCreditLine..p.maxCreditLine
  BY <1>3, ParamFields DEF d
<1>5. CreditLimit = Boosted(limit)
  BY DEF CreditLimit, x, d
<1> HIDE DEF limit
<1>6. limit \in Nat /\ (limit * 125) \div 100 \in Nat /\ (limit * 125) \div 100 >= limit
  BY <1>4, ParamFields
<1>7. Boosted(limit) \in p.minCreditLine..p.maxCreditLine
  BY <1>4, <1>6, ParamFields DEF Boosted, Lesser
<1>8. InterestRate = p.maxRate - y
  BY DEF InterestRate, y, r
<1>9. InterestRate \in p.minRate..p.maxRate
  BY <1>3, <1>8, ParamFields DEF r
<1>10. QED BY <1>5, <1>7, <1>9 DEF AnswerWithinParams

LEMMA AnswerIsOffer ==
    ASSUME LockInv, EpochInv, ScorerInv
    PROVE  Answer \in Offers
<1> DEFINE p == scorer.params
<1>1. p \in ParamChoices \cup {DeployedParams} /\ ParamsAccepted(p)
  BY DEF ScorerInv, ScorerType
<1>2. [limit : p.minCreditLine..p.maxCreditLine, rate : p.minRate..p.maxRate] \subseteq Offers
  BY <1>1, ScorerAssumption
<1>3. Answer \in [limit : p.minCreditLine..p.maxCreditLine, rate : p.minRate..p.maxRate]
  BY AnswerBounds DEF AnswerWithinParams, Answer
<1>4. QED BY <1>2, <1>3

-----------------------------------------------------------------------------
(* The specification. *)

LEMMA ScorerStarts == ScorerInit => LockInv /\ EpochInv /\ ScorerInv
  BY LockInit, EpochInit, ScorerAssumption DEF ScorerInit, ScorerInv, ScorerType

\* Every step is one of LockboxSpec's or leaves lockbox, credit line and vault.
LEMMA ScorerSimulates ==
    ASSUME LockInv, EpochInv, ScorerInv, [ScorerNext]_scoredVars
    PROVE  [LockboxNext]_allVars
<1>1. Answer \in Offers /\ DrawdownTerms \in Offers
  BY AnswerIsOffer DEF DrawdownTerms
<1>2. CASE CreditStep /\ UNCHANGED <<lockboxVars, scorer>>
  <2>1. CreditNext
    BY <1>1, <1>2 DEF CreditStep, CreditNext, BorrowerNext
  <2>2. QED BY <1>2, <2>1 DEF LockboxNext
<1>3. CASE ProcessRevenue \/ \E amount \in Payments : RevenueArrives(amount)
  BY <1>3 DEF LockboxNext
<1>4. CASE UNCHANGED <<creditVars, lockboxVars>>
  BY <1>4 DEF allVars
<1>5. QED
  BY <1>2, <1>3, <1>4
     DEF ScorerNext, SetParameters, SetCreditLine, SetZKVerifier, scoredVars

LEMMA ScorerNextKeeps ==
    ScorerInv /\ [ScorerNext]_scoredVars => ScorerInv'
<1> SUFFICES ASSUME ScorerInv, [ScorerNext]_scoredVars PROVE ScorerInv'
  OBVIOUS
<1>1. CASE UNCHANGED scorer
  BY <1>1 DEF ScorerInv
<1>2. ASSUME NEW p \in ParamChoices, SetParameters(p) PROVE ScorerInv'
  BY <1>2, ScorerAssumption DEF SetParameters, ScorerInv, ScorerType
<1>3. CASE SetCreditLine
  BY <1>3 DEF SetCreditLine, ScorerInv, ScorerType
<1>4. ASSUME NEW set \in Verifiers, SetZKVerifier(set) PROVE ScorerInv'
  BY <1>4, ScorerAssumption DEF SetZKVerifier, ScorerInv, ScorerType
<1>5. QED BY <1>1, <1>2, <1>3, <1>4 DEF ScorerNext, scoredVars

\* The parameters in force are always ones that setParameters accepts.
THEOREM ScorerTypeCorrect == ScorerSpec => []ScorerTypeOK
<1>1. ScorerInv => ScorerTypeOK
  BY DEF ScorerInv, ScorerTypeOK
<1>2. QED BY <1>1, ScorerStarts, ScorerNextKeeps, PTL DEF ScorerSpec

\* Whatever the agent's history is, the limit and the rate it is answered are
\* inside the parameters then in force.
THEOREM AnswersWithinParams == ScorerSpec => []AnswerWithinParams
<1>1. LockInv /\ EpochInv /\ ScorerInv /\ [ScorerNext]_scoredVars
         => LockInv' /\ EpochInv' /\ ScorerInv'
  BY ScorerSimulates, ScorerNextKeeps, LockNext, EpochNext
<1>2. LockInv /\ EpochInv /\ ScorerInv => AnswerWithinParams
  BY AnswerBounds
<1>3. QED BY <1>1, <1>2, ScorerStarts, PTL DEF ScorerSpec

\* Scorer, credit line, vault and lockbox together implement LockboxSpec, so all
\* its theorems hold of them.
THEOREM ScorerImplementsLockbox == ScorerSpec => AnswersAreOffers
<1>1. ScorerInit => LockboxInit
  BY DEF ScorerInit
<1>2. LockInv /\ EpochInv /\ ScorerInv /\ [ScorerNext]_scoredVars
         => LockInv' /\ EpochInv' /\ ScorerInv'
  BY ScorerSimulates, ScorerNextKeeps, LockNext, EpochNext
<1>3. LockInv /\ EpochInv /\ ScorerInv /\ [ScorerNext]_scoredVars
         => [LockboxNext]_<<creditVars, lockboxVars>>
  BY ScorerSimulates DEF allVars
<1>4. QED
  BY <1>1, <1>2, <1>3, ScorerStarts, PTL DEF ScorerSpec, AnswersAreOffers, LockboxSpec

\* So scorer, credit line, vault and lockbox together implement the abstract account.
THEOREM ScorerImplementsAccount == ScorerSpec => ImplementsAccount
  BY ScorerImplementsLockbox, LockboxImplementsAccount DEF AnswersAreOffers

-----------------------------------------------------------------------------
(* The terms move together. *)

\* A share of a score grows with the score.
LEMMA ShareGrows ==
    ASSUME NEW a \in Nat, NEW b \in Nat, NEW d \in Nat, a <= b
    PROVE  (a * d) \div 100 <= (b * d) \div 100
<1>1. a * d \in Nat /\ b * d \in Nat /\ a * d <= b * d
  BY SMT
<1>2. QED BY <1>1, DivisionMonotonic

\* What the answer is for a score: the limit grows with it, the rate falls.
LimitFor(s) ==
    Boosted(scorer.params.minCreditLine
              + (s * (scorer.params.maxCreditLine - scorer.params.minCreditLine)) \div 100)
RateFor(s) ==
    scorer.params.maxRate
      - (s * (scorer.params.maxRate - scorer.params.minRate)) \div 100

LEMMA BetterScoreBetterTerms ==
    ASSUME ScorerInv, NEW a \in Percent, NEW b \in Percent, a <= b
    PROVE  LimitFor(a) <= LimitFor(b) /\ RateFor(b) <= RateFor(a)
<1> DEFINE p == scorer.params
           d == p.maxCreditLine - p.minCreditLine
           r == p.maxRate - p.minRate
           xa == (a * d) \div 100
           xb == (b * d) \div 100
           ya == (a * r) \div 100
           yb == (b * r) \div 100
<1>1. d \in Nat /\ r \in Nat /\ a \in Nat /\ b \in Nat
  BY ParamFields DEF Percent
<1> HIDE DEF d, r
<1>2. a * d \in Nat /\ b * d \in Nat /\ a * r \in Nat /\ b * r \in Nat
  BY <1>1
<1>3. /\ xa \in Nat /\ xb \in Nat /\ xa <= xb
      /\ ya \in Nat /\ yb \in Nat /\ ya <= yb
  BY <1>1, <1>2, Division, ShareGrows
<1> HIDE DEF xa, xb, ya, yb
<1>4. /\ LimitFor(a) = Boosted(p.minCreditLine + xa)
      /\ LimitFor(b) = Boosted(p.minCreditLine + xb)
      /\ RateFor(a) = p.maxRate - ya /\ RateFor(b) = p.maxRate - yb
  BY DEF LimitFor, RateFor, xa, xb, ya, yb, d, r
<1>5. RateFor(b) <= RateFor(a)
  BY <1>3, <1>4, ParamFields
<1> DEFINE la == p.minCreditLine + xa
           lb == p.minCreditLine + xb
<1>6. la \in Nat /\ lb \in Nat /\ la <= lb
  BY <1>3, ParamFields
<1> HIDE DEF la, lb
<1>7. (la * 125) \div 100 \in Nat /\ (lb * 125) \div 100 \in Nat
      /\ (la * 125) \div 100 <= (lb * 125) \div 100
  BY <1>6
<1>8. Boosted(la) <= Boosted(lb)
  BY <1>6, <1>7, ParamFields DEF Boosted, Lesser
<1>9. QED BY <1>4, <1>5, <1>8 DEF la, lb

\* The bounds as one formula, to be used of the state after a step.
LEMMA BoundsHold ==
    LockInv /\ EpochInv /\ ScorerInv =>
        /\ CompositeScore \in Percent /\ AnswerWithinParams /\ Debt \in Nat
        /\ ScoreCreditHistory(scorer.params) \in Percent /\ ScoreDebtRatio \in Percent
  BY ScoreBounds, AnswerBounds, DebtIsCurrent, HistoryBounds, DebtRatioBounds DEF LockInv

LEMMA BoundsHoldAfter ==
    LockInv' /\ EpochInv' /\ ScorerInv' =>
        /\ (CompositeScore \in Percent)' /\ AnswerWithinParams' /\ (Debt \in Nat)'
        /\ (ScoreCreditHistory(scorer.params) \in Percent)'
        /\ (ScoreDebtRatio \in Percent)'
  BY BoundsHold, PTL

\* No step that leaves the parameters and the proof alone raises both the limit
\* and the rate, or lowers both.
THEOREM BetterTermsTogether == ScorerSpec => TermsMoveTogether
<1> DEFINE Together == UNCHANGED <<scorer, gate>> =>
                          /\ CreditLimit' > CreditLimit => InterestRate' <= InterestRate
                          /\ InterestRate' > InterestRate => CreditLimit' <= CreditLimit
<1>1. LockInv /\ EpochInv /\ ScorerInv /\ [ScorerNext]_scoredVars
         => LockInv' /\ EpochInv' /\ ScorerInv'
  BY ScorerSimulates, ScorerNextKeeps, LockNext, EpochNext
<1>2. LockInv /\ EpochInv /\ ScorerInv /\ LockInv' /\ EpochInv' /\ ScorerInv' => Together
  <2> SUFFICES ASSUME LockInv, EpochInv, ScorerInv, LockInv', EpochInv', ScorerInv',
                      UNCHANGED <<scorer, gate>>
               PROVE  /\ CreditLimit' > CreditLimit => InterestRate' <= InterestRate
                      /\ InterestRate' > InterestRate => CreditLimit' <= CreditLimit
    OBVIOUS
  <2>s. CompositeScore \in Percent /\ CompositeScore' \in Percent
    <3>1. CompositeScore \in Percent
      BY ScoreBounds
    <3>2. (CompositeScore \in Percent)'
      BY BoundsHoldAfter
    <3>3. QED BY <3>1, <3>2 DEF Percent
  <2>1. PICK a \in Percent : a = CompositeScore
    BY <2>s
  <2>2. PICK b \in Percent : b = CompositeScore'
    BY <2>s
  <2>3. CreditLimit = LimitFor(a) /\ InterestRate = RateFor(a)
    BY <2>1 DEF CreditLimit, InterestRate, LimitFor, RateFor
  <2>4. CreditLimit' = LimitFor(b) /\ InterestRate' = RateFor(b)
    BY <2>2 DEF CreditLimit, InterestRate, LimitFor, RateFor, Boosted, ProofBonus
  <2>5. /\ LimitFor(a) \in Int /\ RateFor(a) \in Int
        /\ LimitFor(b) \in Int /\ RateFor(b) \in Int
    <3>1. AnswerWithinParams /\ AnswerWithinParams'
      BY AnswerBounds, BoundsHoldAfter
    <3>2. QED BY <2>3, <2>4, <3>1, ParamFields DEF AnswerWithinParams
  <2>6. a \in Int /\ b \in Int
    BY DEF Percent
  <2>7. CASE a <= b
    BY <2>3, <2>4, <2>5, <2>7, BetterScoreBetterTerms
  <2>8. CASE b <= a
    BY <2>3, <2>4, <2>5, <2>8, BetterScoreBetterTerms
  <2>9. QED BY <2>6, <2>7, <2>8
<1>3. LockInv /\ EpochInv /\ ScorerInv /\ [ScorerNext]_scoredVars => [Together]_scoredVars
  BY <1>1, <1>2
<1>4. QED
  BY <1>1, <1>3, ScorerStarts, PTL DEF ScorerSpec, TermsMoveTogether

-----------------------------------------------------------------------------
(* Paying never hurts. *)

\* Only a payment or a write-down lowers the debt; what it does to the rest.
OnlyPays ==
    /\ now' = now /\ totalAmountBorrowed' = totalAmountBorrowed
    /\ loansRepaid' >= loansRepaid
    /\ \/ facility'.status = facility.status
       \/ facility.status = "DELINQUENT" /\ facility'.status = "ACTIVE"

LEMMA DebtIsNumber == TypeInv => Debt \in Nat
  BY DebtIsCurrent

LEMMA DebtHolds == TypeInv' => (Debt \in Nat)'
  BY DebtIsNumber, PTL

LEMMA LoweringIsPaying ==
    ASSUME TypeInv, CreditNext, Debt' < Debt
    PROVE  OnlyPays
<1>t. TypeInv' /\ Debt \in Nat /\ Debt' \in Nat
  <2>1. TypeInv'
    BY TypeNext
  <2>2. Debt \in Nat
    BY DebtIsCurrent
  <2>3. Debt' \in Nat
    BY <2>1, DebtHolds
  <2>4. QED BY <2>1, <2>2, <2>3
<1>l. loansRepaid \in Nat
  BY DEF TypeInv, CreditTypeOK
<1>1. ASSUME NEW amount \in MinDrawdown..MaxLent, NEW offer \in Offers,
             Drawdown(amount, offer)
      PROVE  FALSE
  <2>1. Account!Borrow
    BY <1>1, <1>t, DrawdownBorrows
  <2>2. Debt' > Debt
    BY <2>1 DEF Account!Borrow, Debt
  <2>3. QED BY <1>t, <2>2
<1>2. ASSUME NEW offer \in Offers, RefreshCreditLine(offer)
      PROVE  FALSE
  BY <1>2, <1>t, RefreshMovesNothing
<1>3. ASSUME UpdateStatus
      PROVE  FALSE
  <2>1. Account!Reassess \/ Debt' = Debt
    BY <1>3, <1>t, UpdateReassesses
  <2>2. Debt' = Debt
    BY <2>1 DEF Account!Reassess, Debt
  <2>3. QED BY <1>t, <2>2
<1>4. ASSUME NEW amount \in Amounts, NEW byAgent \in BOOLEAN, Repay(amount, byAgent)
      PROVE  OnlyPays
  <2>1. amount \in Nat /\ amount > 0
    BY <1>t DEF Amounts, Debt
  <2>2. /\ now' = now /\ totalAmountBorrowed' = totalAmountBorrowed
        /\ RepayFacility(amount, byAgent)
    BY <1>4 DEF Repay
  <2>3. loansRepaid' >= loansRepaid
    BY <1>l, <2>2 DEF RepayFacility
  <2>4. Account!Pay
    BY <1>t, <2>1, <2>2, RepayPays
  <2>5. Standing' \in IF Standing = "DELINQUENT" THEN {"DELINQUENT", "ACTIVE"} ELSE {Standing}
    BY <2>4 DEF Account!Pay, Standing
  <2>6. QED BY <2>2, <2>3, <2>5 DEF OnlyPays, Standing
<1>5. ASSUME NEW amount \in WriteDowns, OwnerWriteDown(amount)
      PROVE  OnlyPays
  <2>1. amount \in Nat
    BY CreditAssumption
  <2>2. Account!Forgive
    BY <1>5, <1>t, <2>1, WriteDownForgives
  <2>3. Standing' = Standing
    BY <2>2 DEF Account!Forgive, Standing
  <2>4. QED BY <1>5, <1>l, <2>3 DEF OwnerWriteDown, OnlyPays, Standing
<1>6. ASSUME now' = now, facility' = facility
      PROVE  FALSE
  BY <1>6, <1>t DEF Debt
<1>7. CASE OwnerNext
  BY <1>5, <1>6, <1>7 DEF OwnerNext, SetPeriods, TurnGate, CollectFees, OwnerSetFrozen,
                          OwnerWriteDownVault, VaultStep
<1>8. CASE BackersNext
  BY <1>6, <1>8 DEF BackersNext, BackersDeposit, BackersWithdraw, VaultStep
<1>9. ASSUME Tick
      PROVE  FALSE
  <2>1. Account!TimePasses \/ Debt' = Debt
    BY <1>9, <1>t, TickPasses
  <2>2. Debt' >= Debt
    BY <1>t, <2>1 DEF Account!TimePasses, Debt
  <2>3. QED BY <1>t, <2>2
<1>10. QED
  BY <1>1, <1>2, <1>3, <1>4, <1>7, <1>8, <1>9 DEF CreditNext, BorrowerNext

\* Among the steps of the contracts together, the lockbox standing still.
LEMMA ScorerStepsPay ==
    ASSUME LockInv, EpochInv, ScorerInv, [ScorerNext]_scoredVars,
           Debt' < Debt, lockbox' = lockbox
    PROVE  OnlyPays /\ scorer' = scorer
<1>t. TypeInv /\ Debt \in Nat
  BY DebtIsCurrent DEF LockInv
<1>1. CASE CreditStep /\ UNCHANGED <<lockboxVars, scorer>>
  <2>1. Answer \in Offers /\ DrawdownTerms \in Offers
    BY AnswerIsOffer DEF DrawdownTerms
  <2>2. CreditNext
    BY <1>1, <2>1 DEF CreditStep, CreditNext, BorrowerNext
  <2>3. QED BY <1>t, <1>1, <2>2, LoweringIsPaying
<1>2. CASE ProcessRevenue
  <2>1. lockbox.balance > 0
    BY <1>2 DEF ProcessRevenue
  <2>2. lockbox'.balance = lockbox.balance - Taken
    BY <1>2, BalanceAfterProcess DEF LockInv, LockboxType
  <2>3. QED BY <2>1, <2>2, SplitBounds, LockboxFields
<1>3. CASE UNCHANGED creditVars
  BY <1>t, <1>3 DEF Debt, creditVars
<1>4. QED
  BY <1>1, <1>2, <1>3
     DEF ScorerNext, RevenueArrives, SetParameters, SetCreditLine, SetZKVerifier, scoredVars

\* The history after more repaid loans and with a status at least as good.
LEMMA HistoryGrows ==
    ASSUME LockInv, LockInv', ScorerInv, OnlyPays, scorer' = scorer
    PROVE  ScoreCreditHistory(scorer.params) <= ScoreCreditHistory(scorer.params)'
<1> DEFINE part(n) == (n * 100) \div HistoryLoans
           completed(n) == IF n >= HistoryLoans THEN 100 ELSE part(n)
           thin == totalAmountBorrowed < scorer.params.minCreditLine * HistoryFloor
           counted(n) == IF thin THEN completed(n) \div 3 ELSE completed(n)
           score(n, st) == IF ~scorer.creditLine \/ st = "DEFAULT" THEN 0
                           ELSE IF st = "DELINQUENT" THEN counted(n) \div 2
                           ELSE counted(n)
<1>1. PICK a \in Nat : a = loansRepaid
  BY DEF LockInv, TypeInv, CreditTypeOK
<1>2. PICK b \in Nat : b = loansRepaid'
  BY DEF LockInv, TypeInv, CreditTypeOK
<1>3. a <= b /\ HistoryLoans \in Nat \ {0}
  BY <1>1, <1>2, ScorerAssumption DEF OnlyPays
<1>4. ScoreCreditHistory(scorer.params) = score(a, facility.status)
  BY <1>1 DEF ScoreCreditHistory
<1>5. ScoreCreditHistory(scorer.params)' = score(b, facility'.status)
  BY <1>2 DEF ScoreCreditHistory, OnlyPays
<1>6. completed(a) \in Percent /\ completed(b) \in Percent /\ completed(a) <= completed(b)
  <2>1. ASSUME NEW n \in Nat, ~(n >= HistoryLoans)
        PROVE  part(n) \in Percent
    <3>1. n <= HistoryLoans /\ HistoryLoans \in Nat \ {0}
      BY <1>3, <2>1
    <3>2. QED BY <3>1, PartIsPercent
  <2>2. ~(b >= HistoryLoans) => part(a) <= part(b)
    <3>1. a * 100 \in Nat /\ b * 100 \in Nat /\ a * 100 <= b * 100
      BY <1>3
    <3>2. QED BY <1>3, <3>1, DivisionMonotonic
  <2> HIDE DEF part
  <2>3. QED BY <1>3, <2>1, <2>2 DEF Percent
<1> HIDE DEF completed
<1>7. counted(a) \in Percent /\ counted(b) \in Percent /\ counted(a) <= counted(b)
  BY <1>6 DEF Percent
<1> HIDE DEF counted
<1>8. score(a, facility.status) <= score(b, facility'.status)
  <2>0. \A p \in Percent : p \in Nat
    BY DEF Percent
  <2>1. counted(a) \in Nat /\ counted(b) \in Nat /\ counted(a) <= counted(b)
    BY <1>7, <2>0, Zenon
  <2>2. \/ facility'.status = facility.status
        \/ facility.status = "DELINQUENT" /\ facility'.status = "ACTIVE"
    BY DEF OnlyPays
  <2>3. CASE facility'.status = facility.status
    BY <2>1, <2>3
  <2>4. CASE facility.status = "DELINQUENT" /\ facility'.status = "ACTIVE"
    BY <2>1, <2>4
  <2>5. QED BY <2>2, <2>3, <2>4
<1>9. QED BY <1>4, <1>5, <1>8

\* The debt weighs less once it is lower.
LEMMA DebtRatioGrows ==
    ASSUME LockInv, LockInv', Debt' < Debt, lockbox' = lockbox, scorer' = scorer
    PROVE  ScoreDebtRatio <= ScoreDebtRatio'
<1>1. PICK c \in Nat : c = Revenue /\ c = Revenue'
  BY LockboxFields DEF Revenue
<1>2. PICK a \in Nat : a = Outstanding(facility, now)
  BY DebtIsCurrent DEF LockInv, Debt
<1>3. PICK b \in Nat : b = Outstanding(facility', now')
  <2>1. Debt' \in Nat
    BY DebtHolds DEF LockInv
  <2>2. QED BY <2>1 DEF Debt
<1>4. b < a
  BY <1>2, <1>3 DEF Debt
<1> DEFINE x == (a * 100) \div c
           y == (b * 100) \div c
<1>5. CASE ~scorer.creditLine \/ c = 0
  BY <1>1, <1>5 DEF ScoreDebtRatio
<1>6. CASE ~(~scorer.creditLine \/ c = 0)
  <2>1. c \in Nat \ {0} /\ a * 100 \in Nat /\ b * 100 \in Nat /\ b * 100 <= a * 100
    BY <1>4, <1>6
  <2>2. x \in Nat /\ y \in Nat /\ y <= x
    BY <2>1, Division, DivisionMonotonic
  <2>3. ScoreDebtRatio = Monus(100, x) /\ ScoreDebtRatio' = Monus(100, y)
    BY <1>1, <1>2, <1>3, <1>6 DEF ScoreDebtRatio
  <2> HIDE DEF x, y
  <2>4. QED BY <2>2, <2>3 DEF Monus
<1>7. QED BY <1>5, <1>6

LEMMA ScoreGrows ==
    ASSUME LockInv, EpochInv, ScorerInv, LockInv', EpochInv', ScorerInv',
           OnlyPays, scorer' = scorer, Debt' < Debt, lockbox' = lockbox
    PROVE  CompositeScore' >= CompositeScore
<1>1. /\ ScoreRevenue(scorer.params)' = ScoreRevenue(scorer.params)
      /\ ScoreConsistency(scorer.params)' = ScoreConsistency(scorer.params)
      /\ ScoreTime' = ScoreTime
  BY DEF OnlyPays, ScoreRevenue, ScoreConsistency, ScoreTime, EpochsActive, Revenue,
         CurrentEpoch
<1>2. PICK a \in Percent : a = ScoreRevenue(scorer.params)
  BY RevenueBounds
<1>3. PICK b \in Percent : b = ScoreConsistency(scorer.params)
  BY ConsistencyBounds
<1>4. PICK t \in Percent : t = ScoreTime
  BY TimeBounds
<1>5. PICK h \in Percent, g \in Percent : /\ h = ScoreCreditHistory(scorer.params)
                                          /\ g = ScoreCreditHistory(scorer.params)'
                                          /\ h <= g
  <2>1. ScoreCreditHistory(scorer.params) \in Percent
    BY HistoryBounds
  <2>2. (ScoreCreditHistory(scorer.params) \in Percent)'
    BY BoundsHoldAfter
  <2>3. QED BY <2>1, <2>2, HistoryGrows DEF Percent
<1>6. PICK d \in Percent, e \in Percent : d = ScoreDebtRatio /\ e = ScoreDebtRatio' /\ d <= e
  <2>1. ScoreDebtRatio \in Percent
    BY DebtRatioBounds
  <2>2. (ScoreDebtRatio \in Percent)'
    BY BoundsHoldAfter
  <2>3. QED BY <2>1, <2>2, DebtRatioGrows DEF Percent
<1>7. CompositeScore = (a * 30 + b * 25 + h * 20 + t * 15 + d * 10) \div 100
  BY <1>2, <1>3, <1>4, <1>5, <1>6 DEF CompositeScore
<1>8. CompositeScore' = (a * 30 + b * 25 + g * 20 + t * 15 + e * 10) \div 100
  <2>1. /\ ScoreRevenue(scorer.params)' = a /\ ScoreConsistency(scorer.params)' = b
        /\ ScoreTime' = t
    BY <1>1, <1>2, <1>3, <1>4
  <2>2. QED BY <1>5, <1>6, <2>1 DEF CompositeScore
<1>9. (a * 30 + b * 25 + h * 20 + t * 15 + d * 10) \div 100
         <= (a * 30 + b * 25 + g * 20 + t * 15 + e * 10) \div 100
  BY <1>5, <1>6 DEF Percent
<1>10. /\ CompositeScore \in Int /\ CompositeScore' \in Int
  BY <1>7, <1>8 DEF Percent
<1>11. QED BY <1>7, <1>8, <1>9, <1>10

\* A step that lowers the debt while the lockbox stands still never lowers the
\* score: no formula punishes the agent who pays.
THEOREM PayingIsSafe == ScorerSpec => PayingNeverHurts
<1> DEFINE Safe == Outstanding(facility', now') < Outstanding(facility, now)
                      /\ UNCHANGED lockbox => CompositeScore' >= CompositeScore
<1>1. LockInv /\ EpochInv /\ ScorerInv /\ [ScorerNext]_scoredVars
         => LockInv' /\ EpochInv' /\ ScorerInv'
  BY ScorerSimulates, ScorerNextKeeps, LockNext, EpochNext
<1>2. LockInv /\ EpochInv /\ ScorerInv /\ [ScorerNext]_scoredVars => Safe
  BY <1>1, ScorerStepsPay, ScoreGrows DEF Debt
<1>3. LockInv /\ EpochInv /\ ScorerInv /\ [ScorerNext]_scoredVars => [Safe]_scoredVars
  BY <1>2
<1>4. QED
  BY <1>1, <1>3, ScorerStarts, PTL DEF ScorerSpec, PayingNeverHurts
=============================================================================
