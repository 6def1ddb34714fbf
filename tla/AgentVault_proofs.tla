-------------------------- MODULE AgentVault_proofs --------------------------
(***************************************************************************)
(* Theorems about AgentVault, for every value of its constants that meets  *)
(* BooksAssumption and VaultAssumption, whatever the number of backers:    *)
(* types, the price of a share, and when shares may leave.                 *)
(***************************************************************************)
EXTENDS AgentVault, TLAPS

-----------------------------------------------------------------------------
(* Arithmetic. *)

\* Division rounded down.
LEMMA RoundedDown ==
    ASSUME NEW a \in Nat, NEW c \in Nat
    PROVE  a \div (c + 1) \in Nat /\ (a \div (c + 1)) * (c + 1) <= a
  BY SMT

\* Division rounded up: the least number of parts that covers the whole.
LEMMA RoundedUp ==
    ASSUME NEW a \in Nat, NEW c \in Nat
    PROVE  /\ (a + c) \div (c + 1) \in Nat
           /\ a <= ((a + c) \div (c + 1)) * (c + 1)
           /\ \A s \in Nat : a <= s * (c + 1) => (a + c) \div (c + 1) <= s
<1> DEFINE q == (a + c) \div (c + 1)
<1>1. q \in Nat /\ q * (c + 1) <= a + c /\ a + c < (q + 1) * (c + 1)
      BY SMT
<1> HIDE DEF q
<1>2. (q + 1) * (c + 1) = q * (c + 1) + c + 1
      BY <1>1, SMT
<1>3. ASSUME NEW s \in Nat, a <= s * (c + 1), q >= s + 1 PROVE FALSE
  <2>1. (s + 1) * (c + 1) <= q * (c + 1) /\ (s + 1) * (c + 1) = s * (c + 1) + c + 1
        BY <1>1, <1>3, SMT
  <2> QED
        BY <1>1, <1>3, <2>1
<1>4. q * (c + 1) \in Int
      BY <1>1
<1>5. a <= q * (c + 1)
      BY <1>1, <1>2, <1>4
<1>6. \A s \in Nat : a <= s * (c + 1) => q <= s
      BY <1>1, <1>3
<1> QED
    BY <1>1, <1>5, <1>6 DEF q

\* Products distribute over sums.
LEMMA Distributes ==
    ASSUME NEW a \in Int, NEW b \in Int, NEW c \in Int
    PROVE  (a + b) * c = a * c + b * c /\ a * c \in Int /\ c * a = a * c
  BY SMT

\* Products grow with their factors.
LEMMA Grows ==
    ASSUME NEW a \in Int, NEW b \in Int, NEW c \in Nat, a <= b
    PROVE  a * c <= b * c
  BY SMT

\* The price of a share is (assets + 1) / (supply + 1).  Entering backers pay it
\* at least, so that it does not fall.
LEMMA EntryPrice ==
    ASSUME NEW A \in Nat, NEW u \in Nat, NEW x \in Nat, NEW n \in Nat,
           n * (A + 1) <= x * (u + 1)
    PROVE  ((A + x) + 1) * (u + 1) >= (A + 1) * ((u + n) + 1)
<1> DEFINE c == A + 1
           w == u + 1
<1>1. (A + x) + 1 = c + x /\ (u + n) + 1 = w + n
      OBVIOUS
<1>2. c \in Nat /\ w \in Nat
      OBVIOUS
<1>3. n * c <= x * w
      OBVIOUS
<1> HIDE DEF c, w
<1>4. (c + x) * w = c * w + x * w /\ x * w \in Int /\ c * w \in Int
      BY <1>2, Distributes
<1>5. (w + n) * c = w * c + n * c /\ n * c \in Int /\ c * (w + n) = (w + n) * c /\ w * c = c * w
      BY <1>2, Distributes
<1>6. (c + x) * w >= c * (w + n)
      BY <1>3, <1>4, <1>5
<1> QED
    BY <1>1, <1>6 DEF c, w

\* Leaving backers get it at most.  What is left may be worth more than that, where
\* fees were not covered.
LEMMA ExitPrice ==
    ASSUME NEW A \in Nat, NEW u \in Nat, NEW x \in Nat, NEW n \in Nat, NEW left \in Nat,
           x * (u + 1) <= n * (A + 1), left >= A - x
    PROVE  (left + 1) * (u + 1) >= (A + 1) * ((u - n) + 1)
<1> DEFINE c == A + 1
           w == u + 1
<1>1. (u - n) + 1 = w + (-n) /\ left + 1 >= c + (-x)
      OBVIOUS
<1>2. c \in Nat /\ w \in Nat /\ -n \in Int /\ -x \in Int
      OBVIOUS
<1>3. x * w <= n * c
      OBVIOUS
<1> HIDE DEF c, w
<1>4. (c + (-x)) * w = c * w + (-x) * w /\ (-x) * w = -(x * w) /\ x * w \in Int /\ c * w \in Int
      BY <1>2, SMT
<1>5. /\ (w + (-n)) * c = w * c + (-n) * c /\ (-n) * c = -(n * c) /\ n * c \in Int
      /\ c * (w + (-n)) = (w + (-n)) * c /\ w * c = c * w
      BY <1>2, SMT
<1>6. (left + 1) * w >= (c + (-x)) * w
      BY <1>1, <1>2, Grows
<1>7. (left + 1) * w \in Int
      BY <1>2
<1>8. (left + 1) * w >= c * (w + (-n))
      BY <1>3, <1>4, <1>5, <1>6, <1>7
<1> QED
    BY <1>1, <1>8 DEF c, w

-----------------------------------------------------------------------------
(* The vault's books. *)

\* The amounts of books, and what the backers own of them.
LEMMA Amounts ==
    ASSUME NEW v \in Books
    PROVE  /\ v.balance \in Nat /\ v.totalBorrowed \in Nat /\ v.accumulatedFees \in Nat
           /\ TotalAssets(v) \in Nat /\ AvailableLiquidity(v) \in Nat
           /\ AvailableLiquidity(v) <= v.balance
  BY DEF Books, TotalAssets, AvailableLiquidity, Monus

\* Entries and exits change the balance.
LEMMA EntryExitBooks ==
    ASSUME NEW v \in Books, NEW x \in Nat
    PROVE  /\ AfterEntry(v, x) \in Books
           /\ AfterEntry(v, x).balance = v.balance + x
           /\ AfterEntry(v, x).totalBorrowed = v.totalBorrowed
           /\ AfterEntry(v, x).accumulatedFees = v.accumulatedFees
           /\ x <= v.balance =>
                /\ AfterExit(v, x) \in Books
                /\ AfterExit(v, x).balance = v.balance - x
                /\ AfterExit(v, x).totalBorrowed = v.totalBorrowed
                /\ AfterExit(v, x).accumulatedFees = v.accumulatedFees
  BY DEF Books, AfterEntry, AfterExit

\* Loans.
LEMMA BorrowBooks ==
    ASSUME NEW v \in Books, NEW x \in Nat, x <= v.balance
    PROVE  /\ AfterBorrow(v, x) \in Books
           /\ AfterBorrow(v, x).balance = v.balance - x
           /\ AfterBorrow(v, x).totalBorrowed = v.totalBorrowed + x
           /\ AfterBorrow(v, x).accumulatedFees = v.accumulatedFees
<1> DEFINE w == [v EXCEPT !.balance = @ - x]
           z == [w EXCEPT !.totalBorrowed = @ + x]
<1>1. /\ w \in Books /\ w.balance = v.balance - x /\ w.totalBorrowed = v.totalBorrowed
      /\ w.accumulatedFees = v.accumulatedFees
      BY DEF Books
<1> HIDE DEF w
<1>2. /\ z \in Books /\ z.balance = w.balance /\ z.totalBorrowed = w.totalBorrowed + x
      /\ z.accumulatedFees = w.accumulatedFees
      BY <1>1 DEF Books
<1>3. AfterBorrow(v, x) = z
      BY DEF AfterBorrow, w, z
<1> HIDE DEF z
<1> QED
    BY <1>1, <1>2, <1>3

\* Repayments: fees grow by the fee, loans shrink by what is repaid, if they can.
LEMMA RepaymentBooks ==
    ASSUME NEW v \in Books, NEW x \in Nat, NEW i \in Nat
    PROVE  /\ FeeOn(v, i) \in Nat
           /\ AfterRepayment(v, x, i) \in Books
           /\ AfterRepayment(v, x, i).balance = v.balance + x
           /\ AfterRepayment(v, x, i).totalBorrowed = Monus(v.totalBorrowed, x)
           /\ AfterRepayment(v, x, i).accumulatedFees = v.accumulatedFees + FeeOn(v, i)
<1>1. FeeOn(v, i) \in Nat
  <2>1. i * v.protocolFeeBps \in Nat
        BY BooksAssumption DEF Books
  <2> HIDE DEF Books
  <2>2. \A a \in Nat, b \in Nat \ {0} : a \div b \in Nat
        BY SMT
  <2> QED
        BY <2>1, <2>2, BooksAssumption DEF FeeOn
<1> DEFINE fees == v.accumulatedFees + FeeOn(v, i)
           borrowed == Monus(v.totalBorrowed, x)
           balance == v.balance + x
           w1 == [v EXCEPT !.accumulatedFees = fees]
           w2 == [w1 EXCEPT !.totalBorrowed = borrowed]
           w3 == [w2 EXCEPT !.balance = balance]
<1>2. fees \in Nat /\ borrowed \in Nat /\ balance \in Nat
      BY <1>1 DEF Books, Monus
<1>3. AfterRepayment(v, x, i) = w3
      BY DEF Books, AfterRepayment
<1> HIDE DEF fees, borrowed, balance
<1>4. w1 \in Books /\ w1.accumulatedFees = fees
      BY <1>2 DEF Books
<1> HIDE DEF w1
<1>5. w2 \in Books /\ w2.accumulatedFees = fees /\ w2.totalBorrowed = borrowed
      BY <1>2, <1>4 DEF Books
<1> HIDE DEF w2
<1>6. /\ w3 \in Books /\ w3.accumulatedFees = fees /\ w3.totalBorrowed = borrowed
      /\ w3.balance = balance
      BY <1>2, <1>5 DEF Books
<1> HIDE DEF w3
<1> QED
    BY <1>1, <1>3, <1>6 DEF fees, borrowed, balance

\* Fees leave the balance when they are collected.
LEMMA FeesBooks ==
    ASSUME NEW v \in Books, v.accumulatedFees <= v.balance
    PROVE  /\ AfterCollectFees(v) \in Books
           /\ AfterCollectFees(v).balance = v.balance - v.accumulatedFees
           /\ AfterCollectFees(v).totalBorrowed = v.totalBorrowed
           /\ AfterCollectFees(v).accumulatedFees = 0
<1> DEFINE w == [v EXCEPT !.accumulatedFees = 0]
           z == [w EXCEPT !.balance = @ - v.accumulatedFees]
<1>1. /\ w \in Books /\ w.balance = v.balance /\ w.totalBorrowed = v.totalBorrowed
      /\ w.accumulatedFees = 0
      BY DEF Books
<1> HIDE DEF w
<1>2. /\ z \in Books /\ z.balance = w.balance - v.accumulatedFees
      /\ z.totalBorrowed = w.totalBorrowed /\ z.accumulatedFees = w.accumulatedFees
      BY <1>1 DEF Books
<1>3. AfterCollectFees(v) = z
      BY DEF AfterCollectFees, w, z
<1> HIDE DEF z
<1> QED
    BY <1>1, <1>2, <1>3

\* Losses are taken off the loans.
LEMMA LossBooks ==
    ASSUME NEW v \in Books, NEW x \in Nat
    PROVE  /\ AfterWriteDownLoss(v, x) \in Books
           /\ AfterWriteDownLoss(v, x).balance = v.balance
           /\ AfterWriteDownLoss(v, x).totalBorrowed = Monus(v.totalBorrowed, x)
           /\ AfterWriteDownLoss(v, x).accumulatedFees = v.accumulatedFees
  BY DEF Books, AfterWriteDownLoss, Monus

\* The owner's settings move no amount.
LEMMA SettingsBooks ==
    ASSUME NEW v \in Books,
           NEW w \in {[v EXCEPT !.depositCap = cap] : cap \in Caps}
                       \cup {[v EXCEPT !.protocolFeeBps = fee] : fee \in Fees}
                       \cup {AfterSetFrozen(v, frozen) : frozen \in BOOLEAN}
    PROVE  /\ w \in Books
           /\ w.balance + w.totalBorrowed = v.balance + v.totalBorrowed
           /\ w.accumulatedFees = v.accumulatedFees
<1>1. ASSUME NEW cap \in Caps, w = [v EXCEPT !.depositCap = cap]
      PROVE  /\ w \in Books /\ w.balance = v.balance /\ w.totalBorrowed = v.totalBorrowed
             /\ w.accumulatedFees = v.accumulatedFees
      BY <1>1, VaultAssumption DEF Books
<1>2. ASSUME NEW fee \in Fees, w = [v EXCEPT !.protocolFeeBps = fee]
      PROVE  /\ w \in Books /\ w.balance = v.balance /\ w.totalBorrowed = v.totalBorrowed
             /\ w.accumulatedFees = v.accumulatedFees
      BY <1>2, VaultAssumption DEF Books
<1>3. ASSUME NEW frozen \in BOOLEAN, w = AfterSetFrozen(v, frozen)
      PROVE  /\ w \in Books /\ w.balance = v.balance /\ w.totalBorrowed = v.totalBorrowed
             /\ w.accumulatedFees = v.accumulatedFees
      BY <1>3 DEF Books, AfterSetFrozen
<1>4. /\ w \in Books /\ w.balance = v.balance /\ w.totalBorrowed = v.totalBorrowed
      /\ w.accumulatedFees = v.accumulatedFees
      BY <1>1, <1>2, <1>3
<1> QED
    BY <1>4

-----------------------------------------------------------------------------
(* The supply is the sum of the shares, for any number of backers: there is a  *)
(* measure of the groups of backers that adds up member by member.             *)

Sums(m, held, total) ==
    /\ m \in [SUBSET Backers -> Nat]
    /\ m[Backers] = total
    /\ \A S \in SUBSET Backers : \A b \in S : m[S] = m[S \ {b}] + held[b]

Summed(held, total) == \E m \in [SUBSET Backers -> Nat] : Sums(m, held, total)

\* Nobody holds more than there is.
LEMMA SummedBounds ==
    ASSUME NEW held \in [Backers -> Nat], NEW total, Summed(held, total), NEW b \in Backers
    PROVE  total \in Nat /\ held[b] <= total
<1>1. PICK m \in [SUBSET Backers -> Nat] : Sums(m, held, total)
      BY DEF Summed
<1>2. /\ Backers \in SUBSET Backers /\ Backers \ {b} \in SUBSET Backers
      /\ m[Backers] = m[Backers \ {b}] + held[b] /\ m[Backers] = total
      BY <1>1 DEF Sums
<1>3. m[Backers] \in Nat /\ m[Backers \ {b}] \in Nat /\ held[b] \in Nat
      BY <1>1, <1>2
<1> QED
    BY <1>2, <1>3

\* The sum follows a change of one backer's shares.
LEMMA SummedChange ==
    ASSUME NEW held \in [Backers -> Nat], NEW total, Summed(held, total),
           NEW b \in Backers, NEW d \in Int, held[b] + d >= 0
    PROVE  /\ [held EXCEPT ![b] = held[b] + d] \in [Backers -> Nat]
           /\ Summed([held EXCEPT ![b] = held[b] + d], total + d)
<1> DEFINE new == [held EXCEPT ![b] = held[b] + d]
<1>1. PICK m \in [SUBSET Backers -> Nat] : Sums(m, held, total)
      BY DEF Summed
<1>2. held[b] + d \in Nat /\ new \in [Backers -> Nat]
      BY SMT
<1>3. \A a \in Backers : new[a] = IF a = b THEN held[b] + d ELSE held[a]
      OBVIOUS
<1> HIDE DEF new
<1> DEFINE k == [S \in SUBSET Backers |-> IF b \in S THEN m[S] + d ELSE m[S]]
<1>4. k \in [SUBSET Backers -> Nat]
  <2>1. ASSUME NEW S \in SUBSET Backers, b \in S PROVE m[S] + d \in Nat
    <3>1. S \ {b} \in SUBSET Backers /\ m[S] = m[S \ {b}] + held[b]
          BY <1>1, <2>1 DEF Sums
    <3>2. m[S \ {b}] \in Nat /\ held[b] \in Nat
          BY <1>1, <3>1
    <3> QED
          BY <3>1, <3>2
  <2> QED
        BY <1>1, <2>1
<1>5. k[Backers] = total + d
  <2>1. Backers \in SUBSET Backers /\ m[Backers] = total
        BY <1>1 DEF Sums
  <2> QED
        BY <2>1
<1>6. ASSUME NEW S \in SUBSET Backers, NEW a \in S PROVE k[S] = k[S \ {a}] + new[a]
  <2>1. /\ S \ {a} \in SUBSET Backers /\ a \in Backers /\ m[S] = m[S \ {a}] + held[a]
        /\ m[S] \in Nat /\ m[S \ {a}] \in Nat /\ held[a] \in Nat
        BY <1>1 DEF Sums
  <2>2. CASE a = b
    <3>1. k[S] = m[S] + d /\ k[S \ {a}] = m[S \ {a}] /\ new[a] = held[a] + d
          BY <1>3, <2>1, <2>2
    <3> HIDE DEF k
    <3> QED
          BY <2>1, <3>1
  <2>3. CASE a # b
    <3>1. new[a] = held[a] /\ (b \in S <=> b \in S \ {a})
          BY <1>3, <2>1, <2>3
    <3>2. CASE b \in S
      <4>1. k[S] = m[S] + d /\ k[S \ {a}] = m[S \ {a}] + d
            BY <2>1, <3>1, <3>2
      <4> HIDE DEF k
      <4> QED
            BY <2>1, <3>1, <4>1
    <3>3. CASE b \notin S
      <4>1. k[S] = m[S] /\ k[S \ {a}] = m[S \ {a}]
            BY <2>1, <3>1, <3>3
      <4> HIDE DEF k
      <4> QED
            BY <2>1, <3>1, <4>1
    <3> QED
          BY <3>2, <3>3
  <2> QED
        BY <2>2, <2>3
<1> HIDE DEF k
<1>7. Sums(k, new, total + d)
      BY <1>4, <1>5, <1>6 DEF Sums
<1>8. Summed(new, total + d)
      BY <1>4, <1>7 DEF Summed
<1> QED
    BY <1>2, <1>8 DEF new

-----------------------------------------------------------------------------
(* The invariant. *)

TypeInv ==
    /\ now \in Nat /\ vault \in Books
    /\ supply \in Nat /\ shares \in [Backers -> Nat] /\ Summed(shares, supply)
    /\ requestTime \in [Backers -> Nat] /\ lastUnfreeze \in Nat
    /\ hist \in [received : [Backers -> Nat], thawed : Nat]

\* A request is not older than the last shares its maker received; nothing was
\* stamped in the future; a thaw was stamped.
TimesInv ==
    /\ \A b \in Backers : requestTime[b] <= now /\ hist.received[b] <= now
    /\ \A b \in Backers : requestTime[b] # 0 => hist.received[b] <= requestTime[b]
    /\ lastUnfreeze <= now /\ hist.thawed <= lastUnfreeze

VaultInv == TypeInv /\ TimesInv

\* An entry or an exit of n shares for x assets, at a price not against the others.
Enters(b, n, x) ==
    /\ n * (TotalAssets(vault) + 1) <= x * (supply + 1)
    /\ Minted(b, n) /\ vault' = AfterEntry(vault, x)

Leaves(b, n, x) ==
    /\ x * (supply + 1) <= n * (TotalAssets(vault) + 1)
    /\ n <= shares[b] /\ Burned(b, n, x)

\* Deposits and mints are entries, whichever side is rounded.
LEMMA Entries ==
    ASSUME TypeInv, NEW b \in Backers,
           \/ \E assets \in Assets : Deposit(b, assets)
           \/ \E n \in 1..MaxShares : Mint(b, n)
    PROVE  \E n \in Nat, x \in Nat : Enters(b, n, x)
<1> DEFINE A == TotalAssets(vault)
<1>1. A \in Nat /\ supply \in Nat /\ supply + 1 \in Nat /\ A + 1 \in Nat
      BY Amounts DEF TypeInv
<1>2. ASSUME NEW x \in Assets, Deposit(b, x) PROVE \E n \in Nat : Enters(b, n, x)
  <2> DEFINE n == ToShares(vault, supply, x)
  <2>1. x \in Nat /\ x * (supply + 1) \in Nat
        BY <1>1, VaultAssumption
  <2>2. n = (x * (supply + 1)) \div (A + 1)
        BY DEF ToShares
  <2>3. Minted(b, n) /\ vault' = AfterEntry(vault, x)
        BY <1>2 DEF Deposit
  <2> HIDE DEF A, n
  <2>4. n \in Nat /\ n * (A + 1) <= x * (supply + 1)
        BY <1>1, <2>1, <2>2, RoundedDown
  <2> QED
        BY <2>3, <2>4 DEF Enters, A
<1>3. ASSUME NEW n \in 1..MaxShares, Mint(b, n) PROVE \E x \in Nat : Enters(b, n, x)
  <2> DEFINE x == MintPrice(n)
  <2>1. n \in Nat /\ n * (A + 1) \in Nat
        BY <1>1, VaultAssumption
  <2>2. x = (n * (A + 1) + supply) \div (supply + 1)
        BY DEF MintPrice, ToAssetsUp
  <2>3. Minted(b, n) /\ vault' = AfterEntry(vault, x)
        BY <1>3 DEF Mint
  <2> HIDE DEF A, x
  <2>4. x \in Nat /\ n * (A + 1) <= x * (supply + 1)
        BY <1>1, <2>1, <2>2, RoundedUp
  <2> QED
        BY <2>3, <2>4 DEF Enters, A
<1>4. \A n \in 1..MaxShares : n \in Nat
      BY VaultAssumption
<1>5. Assets \subseteq Nat
      BY VaultAssumption
<1> QED
    BY <1>2, <1>3, <1>4, <1>5

\* Withdrawals and redemptions are exits of shares their owner has.
LEMMA Exits ==
    ASSUME TypeInv, NEW b \in Backers,
           \/ \E assets \in Assets : Withdraw(b, assets)
           \/ \E n \in 1..MaxShares : Redeem(b, n)
    PROVE  \E n \in Nat, x \in Nat : Leaves(b, n, x)
<1> DEFINE A == TotalAssets(vault)
           s == shares[b]
<1>1. /\ A \in Nat /\ supply \in Nat /\ supply + 1 \in Nat /\ A + 1 \in Nat
      /\ s \in Nat
      BY Amounts DEF TypeInv
<1>2. ASSUME NEW x \in Assets, Withdraw(b, x) PROVE \E n \in Nat : Leaves(b, n, x)
  <2> DEFINE n == ToSharesUp(vault, supply, x)
             worth == ToAssets(vault, supply, s)
  <2>1. x \in Nat /\ x * (supply + 1) \in Nat /\ s * (A + 1) \in Nat
        BY <1>1, VaultAssumption
  <2>2. n = (x * (supply + 1) + A) \div (A + 1) /\ worth = (s * (A + 1)) \div (supply + 1)
        BY DEF ToSharesUp, ToAssets
  <2>3. x <= worth /\ Burned(b, n, x)
        BY <1>2 DEF Withdraw
  <2> HIDE DEF A, s, n, worth
  <2>4. worth \in Nat /\ worth * (supply + 1) <= s * (A + 1)
        BY <1>1, <2>1, <2>2, RoundedDown
  <2>5. x * (supply + 1) <= worth * (supply + 1)
        BY <1>1, <2>1, <2>3, <2>4, Grows
  <2>6. x * (supply + 1) <= s * (A + 1)
    <3>1. worth * (supply + 1) \in Int
          BY <1>1, <2>4
    <3> QED
          BY <2>1, <2>4, <2>5, <3>1
  <2>7. n \in Nat /\ x * (supply + 1) <= n * (A + 1) /\ n <= s
        BY <1>1, <2>1, <2>2, <2>6, RoundedUp
  <2> QED
        BY <2>3, <2>7 DEF Leaves, A, s
<1>3. ASSUME NEW n \in 1..MaxShares, Redeem(b, n) PROVE \E x \in Nat : Leaves(b, n, x)
  <2> DEFINE x == ToAssets(vault, supply, n)
  <2>1. n \in Nat /\ n * (A + 1) \in Nat
        BY <1>1, VaultAssumption
  <2>2. x = (n * (A + 1)) \div (supply + 1)
        BY DEF ToAssets
  <2>3. n <= s /\ Burned(b, n, x)
        BY <1>3 DEF Redeem
  <2> HIDE DEF A, s, x
  <2>4. x \in Nat /\ x * (supply + 1) <= n * (A + 1)
        BY <1>1, <2>1, <2>2, RoundedDown
  <2> QED
        BY <2>3, <2>4 DEF Leaves, A, s
<1>4. \A n \in 1..MaxShares : n \in Nat
      BY VaultAssumption
<1>5. Assets \subseteq Nat
      BY VaultAssumption
<1> QED
    BY <1>2, <1>3, <1>4, <1>5

\* What entries and exits leave of the invariant.
LEMMA EntersKeeps ==
    ASSUME VaultInv, NEW b \in Backers, NEW n \in Nat, NEW x \in Nat, Enters(b, n, x)
    PROVE  VaultInv'
<1>1. vault' \in Books
      BY EntryExitBooks DEF VaultInv, TypeInv, Enters
<1>2. shares' \in [Backers -> Nat] /\ Summed(shares', supply') /\ supply' \in Nat
  <2>1. shares' = [shares EXCEPT ![b] = shares[b] + n] /\ supply' = supply + n
        BY DEF Enters, Minted
  <2>2. /\ shares \in [Backers -> Nat] /\ shares[b] + n >= 0 /\ Summed(shares, supply)
        /\ supply \in Nat
        BY DEF VaultInv, TypeInv
  <2>3. n \in Int /\ supply + n \in Nat
        BY <2>2
  <2> QED
        BY <2>1, <2>2, <2>3, SummedChange
<1>3. UNCHANGED <<now, requestTime, lastUnfreeze, hist>>
      BY DEF Enters, Minted
<1>4. TypeInv'
      BY <1>1, <1>2, <1>3 DEF VaultInv, TypeInv, Summed, Sums
<1>5. TimesInv'
      BY <1>3 DEF VaultInv, TimesInv
<1> QED
    BY <1>4, <1>5 DEF VaultInv

\* The same of exits, which leave no less than nothing.
LEMMA LeavesKeeps ==
    ASSUME VaultInv, NEW b \in Backers, NEW n \in Nat, NEW x \in Nat, Leaves(b, n, x)
    PROVE  VaultInv' /\ n <= supply
<1>1. vault' \in Books
      BY EntryExitBooks DEF VaultInv, TypeInv, Leaves, Burned
<1>2. /\ shares \in [Backers -> Nat] /\ shares[b] \in Nat /\ Summed(shares, supply)
      /\ supply \in Nat /\ n <= shares[b]
      BY DEF VaultInv, TypeInv, Leaves
<1>3. n <= supply
      BY <1>2, SummedBounds
<1>4. shares' \in [Backers -> Nat] /\ Summed(shares', supply') /\ supply' \in Nat
  <2>1. shares' = [shares EXCEPT ![b] = shares[b] + (-n)] /\ supply' = supply + (-n)
    <3>1. shares[b] - n = shares[b] + (-n) /\ supply - n = supply + (-n)
          BY <1>2
    <3>2. shares' = [shares EXCEPT ![b] = shares[b] - n] /\ supply' = supply - n
          BY DEF Leaves, Burned
    <3> QED
          BY <3>1, <3>2
  <2>2. -n \in Int /\ shares[b] + (-n) >= 0 /\ supply + (-n) \in Nat
        BY <1>2, <1>3
  <2> QED
        BY <1>2, <2>1, <2>2, SummedChange
<1>5. UNCHANGED <<now, requestTime, lastUnfreeze, hist>>
      BY DEF Leaves, Burned
<1>6. TypeInv'
      BY <1>1, <1>4, <1>5 DEF VaultInv, TypeInv, Summed, Sums
<1>7. TimesInv'
      BY <1>5 DEF VaultInv, TimesInv
<1> QED
    BY <1>3, <1>6, <1>7 DEF VaultInv

\* A transfer moves shares, starts the receiver's wait and takes back its request.
LEMMA TransferKeeps ==
    ASSUME VaultInv, NEW a \in Backers, NEW b \in Backers, NEW n \in 0..MaxShares,
           Transfer(a, b, n)
    PROVE  VaultInv'
<1> DEFINE taken == [shares EXCEPT ![a] = shares[a] + (-n)]
<1>1. /\ shares \in [Backers -> Nat] /\ shares[a] \in Nat /\ Summed(shares, supply)
      /\ supply \in Nat /\ n \in Nat /\ -n \in Int /\ n <= shares[a]
      BY VaultAssumption DEF VaultInv, TypeInv, Transfer
<1>2. shares[a] + (-n) >= 0
      BY <1>1
<1>3. taken \in [Backers -> Nat] /\ Summed(taken, supply + (-n))
      BY <1>1, <1>2, SummedChange
<1>4. shares' = [taken EXCEPT ![b] = taken[b] + n]
  <2>1. shares' = [[shares EXCEPT ![a] = shares[a] - n] EXCEPT ![b] = @ + n]
        BY DEF Transfer
  <2>2. shares[a] - n = shares[a] + (-n)
        BY <1>1
  <2> QED
        BY <2>1, <2>2
<1> HIDE DEF taken
<1>5. shares' \in [Backers -> Nat] /\ Summed(shares', supply + (-n) + n)
  <2>1. n \in Int /\ taken[b] + n >= 0
        BY <1>1, <1>3
  <2> QED
        BY <1>1, <1>3, <1>4, <2>1, SummedChange
<1>6. supply + (-n) + n = supply
      BY <1>1
<1>7. UNCHANGED <<now, vault, supply, lastUnfreeze>>
      BY DEF Transfer
<1>8. /\ requestTime' = [requestTime EXCEPT ![b] = 0]
      /\ hist' \in [received : [Backers -> Nat], thawed : Nat]
      /\ hist'.thawed = hist.thawed
      /\ hist'.received = [hist.received EXCEPT ![b] = now]
      BY DEF Transfer, RequestReset, VaultInv, TypeInv
<1>9. TypeInv'
      BY <1>5, <1>6, <1>7, <1>8 DEF VaultInv, TypeInv, Summed, Sums
<1>10. TimesInv'
      BY <1>7, <1>8 DEF VaultInv, TypeInv, TimesInv
<1> QED
    BY <1>9, <1>10 DEF VaultInv

\* The sum is the same as long as shares and supply are.
LEMMA SummedStays ==
    ASSUME Summed(shares, supply), UNCHANGED <<shares, supply>>
    PROVE  Summed(shares, supply)'
  BY DEF Summed, Sums

\* What the credit line, the lockbox and the factory do to the books.
LEMMA ContractSteps ==
    ASSUME TypeInv, ContractNext
    PROVE  /\ UNCHANGED <<now, supply, shares, requestTime>>
           /\ vault' \in Books
           /\ \/ UNCHANGED <<lastUnfreeze, hist>>
              \/ \E frozen \in BOOLEAN : SetFrozen(frozen)
           /\ \/ /\ vault'.balance + vault'.totalBorrowed = vault.balance + vault.totalBorrowed
                 /\ vault'.accumulatedFees = vault.accumulatedFees
              \/ \E r \in Repayments : vault' = AfterRepayment(vault, r.amount, r.interest)
              \/ /\ vault.accumulatedFees <= vault.balance
                 /\ vault' = AfterCollectFees(vault)
              \/ \E loss \in Loans : vault' = AfterWriteDownLoss(vault, loss)
<1>1. /\ vault \in Books /\ Loans \subseteq Nat /\ Caps \subseteq Nat /\ Fees \subseteq 0..MaxFeeBps
      /\ vault.balance \in Nat /\ vault.totalBorrowed \in Nat
      BY VaultAssumption, Amounts DEF TypeInv
<1> DEFINE Kept == UNCHANGED <<now, supply, shares, requestTime, lastUnfreeze, hist>>
<1>2. ASSUME NEW amount \in Loans, Borrow(amount)
      PROVE  /\ Kept /\ vault' \in Books
             /\ vault'.balance + vault'.totalBorrowed = vault.balance + vault.totalBorrowed
             /\ vault'.accumulatedFees = vault.accumulatedFees
  <2>1. amount \in Nat /\ amount <= vault.balance /\ vault' = AfterBorrow(vault, amount) /\ Kept
    <3>1. /\ amount \in Nat /\ amount <= AvailableLiquidity(vault)
          /\ vault' = AfterBorrow(vault, amount) /\ Kept
          BY <1>1, <1>2 DEF Borrow, BooksStep
    <3>2. AvailableLiquidity(vault) <= vault.balance /\ AvailableLiquidity(vault) \in Nat
          BY <1>1, Amounts
    <3> QED
          BY <1>1, <3>1, <3>2
  <2>2. /\ vault' \in Books /\ vault'.balance = vault.balance - amount
        /\ vault'.totalBorrowed = vault.totalBorrowed + amount
        /\ vault'.accumulatedFees = vault.accumulatedFees
        BY <1>1, <2>1, BorrowBooks
  <2>3. vault'.balance + vault'.totalBorrowed = vault.balance + vault.totalBorrowed
        BY <1>1, <2>1, <2>2
  <2> QED
        BY <2>1, <2>2, <2>3
<1>3. ASSUME NEW r \in Repayments, ReceiveRepayment(r)
      PROVE  Kept /\ vault' \in Books /\ vault' = AfterRepayment(vault, r.amount, r.interest)
  <2>1. r.amount \in Nat /\ r.interest \in Nat
        BY VaultAssumption
  <2>2. Kept /\ vault' = AfterRepayment(vault, r.amount, r.interest)
        BY <1>3 DEF ReceiveRepayment, BooksStep
  <2> QED
        BY <1>1, <2>1, <2>2, RepaymentBooks
<1>4. ASSUME CollectFees
      PROVE  /\ Kept /\ vault' \in Books /\ vault.accumulatedFees <= vault.balance
             /\ vault' = AfterCollectFees(vault)
  <2>1. /\ Kept /\ vault' = AfterCollectFees(vault) /\ vault.accumulatedFees <= vault.balance
        BY <1>1, <1>4 DEF CollectFees, BooksStep
  <2> QED
        BY <1>1, <2>1, FeesBooks
<1>5. ASSUME NEW loss \in Loans, WriteDownLoss(loss)
      PROVE  Kept /\ vault' \in Books /\ vault' = AfterWriteDownLoss(vault, loss)
  <2>1. Kept /\ vault' = AfterWriteDownLoss(vault, loss) /\ loss \in Nat
        BY <1>1, <1>5 DEF WriteDownLoss, BooksStep
  <2> QED
        BY <1>1, <2>1, LossBooks
<1>6. ASSUME NEW cap \in Caps, SetDepositCap(cap)
      PROVE  Kept /\ vault' \in {[vault EXCEPT !.depositCap = c] : c \in Caps}
      BY <1>6 DEF SetDepositCap, BooksStep
<1>7. ASSUME NEW fee \in Fees, SetProtocolFeeBps(fee)
      PROVE  Kept /\ vault' \in {[vault EXCEPT !.protocolFeeBps = f] : f \in Fees}
      BY <1>7 DEF SetProtocolFeeBps, BooksStep
<1>8. ASSUME NEW frozen \in BOOLEAN, SetFrozen(frozen)
      PROVE  /\ UNCHANGED <<now, supply, shares, requestTime>>
             /\ vault' \in {AfterSetFrozen(vault, f) : f \in BOOLEAN}
      BY <1>8 DEF SetFrozen
<1>9. ASSUME vault' \in {[vault EXCEPT !.depositCap = cap] : cap \in Caps}
                         \cup {[vault EXCEPT !.protocolFeeBps = fee] : fee \in Fees}
                         \cup {AfterSetFrozen(vault, frozen) : frozen \in BOOLEAN}
      PROVE  /\ vault' \in Books
             /\ vault'.balance + vault'.totalBorrowed = vault.balance + vault.totalBorrowed
             /\ vault'.accumulatedFees = vault.accumulatedFees
      BY <1>1, <1>9, SettingsBooks
<1> QED
    BY <1>2, <1>3, <1>4, <1>5, <1>6, <1>7, <1>8, <1>9 DEF ContractNext

\* Every step keeps the invariant.
LEMMA VaultNextKeeps == VaultInv /\ [VaultNext]_vaultVars => VaultInv'
<1> SUFFICES ASSUME VaultInv, [VaultNext]_vaultVars PROVE VaultInv'
    OBVIOUS
<1>1. ASSUME NEW b \in Backers, RequestWithdrawal(b) PROVE VaultInv'
  <2>1. /\ requestTime' = [requestTime EXCEPT ![b] = now]
        /\ UNCHANGED <<now, vault, supply, shares, lastUnfreeze, hist>>
        BY <1>1 DEF RequestWithdrawal
  <2>2. TypeInv'
        BY <2>1, SummedStays DEF VaultInv, TypeInv
  <2>3. TimesInv'
        BY <2>1 DEF VaultInv, TypeInv, TimesInv
  <2> QED
        BY <2>2, <2>3 DEF VaultInv
<1>2. CASE ContractNext
  <2>1. /\ UNCHANGED <<now, supply, shares, requestTime>> /\ vault' \in Books
        /\ \/ UNCHANGED <<lastUnfreeze, hist>>
           \/ \E frozen \in BOOLEAN : SetFrozen(frozen)
        BY <1>2, ContractSteps DEF VaultInv
  <2>4. Summed(shares, supply)'
        BY <2>1, SummedStays DEF VaultInv, TypeInv
  <2>2. CASE UNCHANGED <<lastUnfreeze, hist>>
        BY <2>1, <2>2, <2>4 DEF VaultInv, TypeInv, TimesInv
  <2>3. ASSUME NEW frozen \in BOOLEAN, SetFrozen(frozen) PROVE VaultInv'
    <3>1. /\ lastUnfreeze' \in {lastUnfreeze, now}
          /\ hist' = hist \/ (hist' = [hist EXCEPT !.thawed = now] /\ lastUnfreeze' = now)
          BY <2>3 DEF SetFrozen, UnfreezeStamp
    <3>2. lastUnfreeze \in Nat /\ now \in Nat /\ lastUnfreeze <= now
          BY DEF VaultInv, TypeInv, TimesInv
    <3>3. /\ hist' \in [received : [Backers -> Nat], thawed : Nat]
          /\ hist'.received = hist.received
          /\ hist'.thawed = hist.thawed \/ (hist'.thawed = now /\ lastUnfreeze' = now)
          BY <3>1 DEF VaultInv, TypeInv
    <3>4. TypeInv'
          BY <2>1, <2>4, <3>1, <3>2, <3>3 DEF VaultInv, TypeInv
    <3>5. /\ hist.thawed \in Nat /\ hist.thawed <= lastUnfreeze
          BY DEF VaultInv, TypeInv, TimesInv
    <3>6. lastUnfreeze' <= now /\ hist'.thawed <= lastUnfreeze'
          BY <3>1, <3>2, <3>3, <3>5
    <3>7. TimesInv'
          BY <2>1, <3>3, <3>6 DEF VaultInv, TimesInv
    <3> QED
          BY <3>4, <3>7 DEF VaultInv
  <2> QED
        BY <2>1, <2>2, <2>3
<1>3. CASE Tick
  <2>1. /\ now' = now + 1
        /\ UNCHANGED <<vault, supply, shares, requestTime, lastUnfreeze, hist>>
        BY <1>3 DEF Tick
  <2>2. TypeInv'
        BY <2>1, SummedStays DEF VaultInv, TypeInv
  <2>3. TimesInv'
        BY <2>1 DEF VaultInv, TypeInv, TimesInv
  <2> QED
        BY <2>2, <2>3 DEF VaultInv
<1>4. CASE UNCHANGED vaultVars
      BY <1>4, SummedStays DEF vaultVars, VaultInv, TypeInv, TimesInv
<1>5. CASE BackerNext
  <2>1. PICK b \in Backers :
          \/ \E assets \in Assets : Deposit(b, assets)
          \/ \E n \in 1..MaxShares : Mint(b, n)
          \/ RequestWithdrawal(b)
          \/ \E assets \in Assets : Withdraw(b, assets)
          \/ \E n \in 1..MaxShares : Redeem(b, n)
          \/ \E a \in Backers, n \in 0..MaxShares : Transfer(a, b, n)
        BY <1>5 DEF BackerNext
  <2>2. TypeInv
        BY DEF VaultInv
  <2> QED
        BY <1>1, <2>1, <2>2, Entries, Exits, EntersKeeps, LeavesKeeps, TransferKeeps
<1> QED
    BY <1>2, <1>3, <1>4, <1>5 DEF VaultNext

\* The invariant of every reachable state.
LEMMA VaultInvariant == VaultSpec => []VaultInv
<1>1. VaultInit => VaultInv
  <2> SUFFICES ASSUME VaultInit PROVE VaultInv
      OBVIOUS
  <2>1. PICK fee \in Fees, cap \in Caps : vault = NewBooks(fee, cap)
        BY DEF VaultInit
  <2>2. vault \in Books
    <3>1. fee \in 0..MaxFeeBps /\ cap \in Nat
          BY VaultAssumption
    <3> QED
          BY <2>1, <3>1 DEF NewBooks, Books
  <2>3. Summed(shares, supply)
    <3> DEFINE m == [S \in SUBSET Backers |-> 0]
    <3>1. m \in [SUBSET Backers -> Nat]
          OBVIOUS
    <3>2. Sums(m, shares, supply)
          BY DEF Sums, VaultInit
    <3> QED
          BY <3>1, <3>2 DEF Summed
  <2>4. TypeInv
        BY <2>2, <2>3 DEF VaultInit, TypeInv
  <2>5. TimesInv
        BY DEF VaultInit, TimesInv
  <2> QED
        BY <2>4, <2>5 DEF VaultInv
<1> QED
    BY <1>1, VaultNextKeeps, PTL DEF VaultSpec

-----------------------------------------------------------------------------
(* Theorems. *)

\* The books, the shares and the requests keep their types: no exit burns shares
\* its owner has not, and none leaves the vault with less than nothing.
THEOREM VaultTypeCorrect == VaultSpec => []VaultTypeOK
<1>1. VaultInv => VaultTypeOK
      BY DEF VaultInv, TypeInv, TimesInv, VaultTypeOK
<1> QED
    BY <1>1, VaultInvariant, PTL

\* The supply falls by exits only.
LEMMA SupplyFallsByExits ==
    ASSUME VaultInv, [VaultNext]_vaultVars, supply' < supply
    PROVE  \E b \in Backers, n \in Nat, x \in Nat : Leaves(b, n, x)
<1>1. TypeInv /\ supply \in Nat
      BY DEF VaultInv, TypeInv
<1>2. ASSUME NEW b \in Backers, NEW n \in Nat, NEW x \in Nat, Enters(b, n, x) PROVE FALSE
      BY <1>1, <1>2 DEF Enters, Minted
<1>3. ~ContractNext
      BY <1>1, ContractSteps
<1>4. ~Tick /\ ~UNCHANGED vaultVars
      BY <1>1 DEF Tick, vaultVars
<1>5. /\ \A b \in Backers : ~RequestWithdrawal(b)
      /\ \A a \in Backers, b \in Backers, n \in 0..MaxShares : ~Transfer(a, b, n)
      BY <1>1 DEF RequestWithdrawal, Transfer
<1>6. PICK b \in Backers :
        \/ \E assets \in Assets : Deposit(b, assets)
        \/ \E n \in 1..MaxShares : Mint(b, n)
        \/ \E assets \in Assets : Withdraw(b, assets)
        \/ \E n \in 1..MaxShares : Redeem(b, n)
      BY <1>3, <1>4, <1>5 DEF VaultNext, BackerNext
<1> QED
    BY <1>1, <1>2, <1>6, Entries, Exits

\* Received shares wait a full delay: the receipt took back the request, so that one
\* that is ready was made in the new hands (_update, _checkWithdrawalReady).
LEMMA ReceiversWait ==
    ASSUME VaultInv, [VaultNext]_vaultVars, supply' < supply,
           NEW c \in Backers, shares'[c] < shares[c]
    PROVE  now >= hist.received[c] + Delay
<1>1. PICK b \in Backers, n \in Nat, x \in Nat : Leaves(b, n, x)
      BY SupplyFallsByExits
<1>2. /\ shares' = [shares EXCEPT ![b] = @ - n] /\ WithdrawalReady(b)
      /\ shares \in [Backers -> Nat]
      BY <1>1 DEF Leaves, Burned, VaultInv, TypeInv
<1>3. c = b
  <2>1. ASSUME c # b PROVE FALSE
    <3>1. shares'[c] = shares[c] /\ shares[c] \in Nat
          BY <1>2, <2>1
    <3> QED
          BY <3>1
  <2> QED
        BY <2>1
<1>4. /\ requestTime[c] # 0 /\ now >= requestTime[c] + Delay
      BY <1>2, <1>3 DEF WithdrawalReady
<1>5. /\ hist.received[c] <= requestTime[c]
      /\ hist.received[c] \in Nat /\ requestTime[c] \in Nat /\ now \in Nat /\ Delay \in Nat
      BY <1>4, VaultAssumption DEF VaultInv, TypeInv, TimesInv
<1> QED
      BY <1>4, <1>5

\* Nobody leaves within a delay of a thaw: the thaw's stamp voids every older
\* request (setFrozen, _checkWithdrawalReady).
LEMMA ThawsAreNotRun ==
    ASSUME VaultInv, [VaultNext]_vaultVars, supply' < supply
    PROVE  now > hist.thawed + Delay
<1>1. PICK b \in Backers, n \in Nat, x \in Nat : Leaves(b, n, x)
      BY SupplyFallsByExits
<1>2. now >= requestTime[b] + Delay /\ requestTime[b] > lastUnfreeze
      BY <1>1 DEF Leaves, Burned, WithdrawalReady
<1>3. /\ hist.thawed <= lastUnfreeze /\ hist.thawed \in Nat /\ lastUnfreeze \in Nat
      /\ requestTime[b] \in Nat /\ now \in Nat /\ Delay \in Nat
      BY VaultAssumption DEF VaultInv, TypeInv, TimesInv
<1> QED
      BY <1>2, <1>3

\* Nobody leaves before the delay since shares were received or the vault was thawed.
THEOREM ExitsAreLate == VaultSpec => ExitsWait
<1>1. VaultInv /\ [VaultNext]_vaultVars =>
        (supply' < supply =>
           /\ \A b \in Backers : shares'[b] < shares[b] => now >= hist.received[b] + Delay
           /\ hist.thawed > 0 => now > hist.thawed + Delay)
      BY ReceiversWait, ThawsAreNotRun
<1> QED
    BY <1>1, VaultInvariant, PTL DEF VaultSpec, ExitsWait

-----------------------------------------------------------------------------
(* The price of a share. *)

Charged == Monus(vault'.accumulatedFees, vault.accumulatedFees)

Lost == IF vault'.balance = vault.balance
        THEN Monus(vault.totalBorrowed, vault'.totalBorrowed) ELSE 0

Fair == (TotalAssets(vault') + Charged + Lost + 1) * (supply + 1)
            >= (TotalAssets(vault) + 1) * (supply' + 1)

\* Fees and losses are amounts.
LEMMA ChargedLost ==
    ASSUME TypeInv, vault' \in Books
    PROVE  Charged \in Nat /\ Lost \in Nat
<1>1. /\ vault'.accumulatedFees \in Nat /\ vault.accumulatedFees \in Nat
      /\ vault'.totalBorrowed \in Nat /\ vault.totalBorrowed \in Nat
      BY Amounts DEF TypeInv
<1> QED
    BY <1>1 DEF Charged, Lost, Monus

\* Where the supply stays and the backers' assets fall by no more than fees and
\* losses, the price does not fall by more.
LEMMA FairWithoutShares ==
    ASSUME TypeInv, vault' \in Books, supply' = supply,
           TotalAssets(vault') + Charged + Lost >= TotalAssets(vault)
    PROVE  Fair
<1> DEFINE new == TotalAssets(vault') + Charged + Lost + 1
           old == TotalAssets(vault) + 1
           w == supply + 1
<1>1. new \in Nat /\ old \in Nat /\ w \in Nat /\ old <= new
      BY Amounts, ChargedLost DEF TypeInv
<1>2. supply' + 1 = w
      OBVIOUS
<1> HIDE DEF new, old, w
<1>3. old * w <= new * w /\ old * w \in Int /\ new * w \in Int
      BY <1>1, Grows
<1>4. new * w >= old * w
      BY <1>3
<1> QED
    BY <1>2, <1>4 DEF Fair, new, old, w

\* Entries.
LEMMA FairEntry ==
    ASSUME TypeInv, Solvent(vault), NEW b \in Backers, NEW n \in Nat, NEW x \in Nat,
           Enters(b, n, x)
    PROVE  Fair
<1> DEFINE A == TotalAssets(vault)
           new == TotalAssets(vault') + Charged + Lost
<1>1. /\ vault' \in Books /\ vault'.balance = vault.balance + x
      /\ vault'.totalBorrowed = vault.totalBorrowed
      /\ vault'.accumulatedFees = vault.accumulatedFees
      BY EntryExitBooks DEF Enters, TypeInv
<1>2. /\ vault.balance \in Nat /\ vault.totalBorrowed \in Nat /\ vault.accumulatedFees \in Nat
      /\ A \in Nat /\ supply \in Nat
      BY Amounts DEF TypeInv
<1>3. TotalAssets(vault') = A + x
      BY <1>1, <1>2 DEF Solvent, TotalAssets, Monus
<1>4. new \in Nat /\ new >= A + x
      BY <1>1, <1>2, <1>3, ChargedLost
<1>5. n * (A + 1) <= x * (supply + 1) /\ supply' = supply + n
      BY DEF Enters, Minted
<1> HIDE DEF A, new
<1>6. ((A + x) + 1) * (supply + 1) >= (A + 1) * ((supply + n) + 1)
      BY <1>2, <1>5, EntryPrice
<1>7. ((A + x) + 1) * (supply + 1) <= (new + 1) * (supply + 1)
      BY <1>2, <1>4, Grows
<1>8. /\ ((A + x) + 1) * (supply + 1) \in Int /\ (new + 1) * (supply + 1) \in Int
      /\ (A + 1) * ((supply + n) + 1) \in Int
      BY <1>2, <1>4
<1>9. (new + 1) * (supply + 1) >= (A + 1) * ((supply + n) + 1)
      BY <1>6, <1>7, <1>8
<1> QED
    BY <1>5, <1>9 DEF Fair, A, new

\* Exits.
LEMMA FairExit ==
    ASSUME VaultInv, Solvent(vault), NEW b \in Backers, NEW n \in Nat, NEW x \in Nat,
           Leaves(b, n, x)
    PROVE  Fair
<1> DEFINE A == TotalAssets(vault)
           new == TotalAssets(vault') + Charged + Lost
<1>1. /\ vault' \in Books /\ vault'.balance = vault.balance - x
      /\ vault'.totalBorrowed = vault.totalBorrowed
      /\ vault'.accumulatedFees = vault.accumulatedFees
      BY EntryExitBooks DEF Leaves, Burned, VaultInv, TypeInv
<1>2. /\ vault.balance \in Nat /\ vault.totalBorrowed \in Nat /\ vault.accumulatedFees \in Nat
      /\ A \in Nat /\ supply \in Nat /\ TotalAssets(vault') \in Nat
      BY <1>1, Amounts DEF VaultInv, TypeInv
<1>3. TotalAssets(vault') >= A - x
      BY <1>1, <1>2 DEF Solvent, TotalAssets, Monus
<1>4. new \in Nat /\ new >= A - x
  <2>1. Charged \in Nat /\ Lost \in Nat
        BY <1>1, ChargedLost DEF VaultInv
  <2> QED
        BY <1>2, <1>3, <2>1
<1>5. x * (supply + 1) <= n * (A + 1) /\ supply' = supply - n
      BY DEF Leaves, Burned
<1> HIDE DEF A, new
<1>6. (new + 1) * (supply + 1) >= (A + 1) * ((supply - n) + 1)
      BY <1>2, <1>4, <1>5, ExitPrice
<1> QED
    BY <1>5, <1>6 DEF Fair, A, new

\* What the contracts do: loans and fee collections move nothing, a repayment costs
\* its fee and a write-down its loss at most.
LEMMA FairContract ==
    ASSUME TypeInv, Solvent(vault), ContractNext
    PROVE  Fair
<1>1. /\ vault \in Books /\ vault' \in Books /\ supply' = supply
      /\ \/ /\ vault'.balance + vault'.totalBorrowed = vault.balance + vault.totalBorrowed
            /\ vault'.accumulatedFees = vault.accumulatedFees
         \/ \E r \in Repayments : vault' = AfterRepayment(vault, r.amount, r.interest)
         \/ /\ vault.accumulatedFees <= vault.balance
            /\ vault' = AfterCollectFees(vault)
         \/ \E loss \in Loans : vault' = AfterWriteDownLoss(vault, loss)
      BY ContractSteps DEF TypeInv
<1>2. /\ vault.balance \in Nat /\ vault.totalBorrowed \in Nat /\ vault.accumulatedFees \in Nat
      /\ vault'.balance \in Nat /\ vault'.totalBorrowed \in Nat
      /\ vault'.accumulatedFees \in Nat
      /\ Charged \in Nat /\ Lost \in Nat
      BY <1>1, Amounts, ChargedLost
<1>3. /\ TotalAssets(vault) = (vault.balance + vault.totalBorrowed) - vault.accumulatedFees
      /\ TotalAssets(vault') \in Nat
      /\ TotalAssets(vault') >= (vault'.balance + vault'.totalBorrowed) - vault'.accumulatedFees
      BY <1>2 DEF Solvent, TotalAssets, Monus
<1>4. CASE /\ vault'.balance + vault'.totalBorrowed = vault.balance + vault.totalBorrowed
           /\ vault'.accumulatedFees = vault.accumulatedFees
      BY <1>1, <1>2, <1>3, <1>4, FairWithoutShares
<1>5. ASSUME NEW r \in Repayments, vault' = AfterRepayment(vault, r.amount, r.interest)
      PROVE  Fair
  <2> DEFINE fee == FeeOn(vault, r.interest)
  <2>1. r.amount \in Nat /\ r.interest \in Nat
        BY VaultAssumption
  <2>2. /\ fee \in Nat /\ vault'.balance = vault.balance + r.amount
        /\ vault'.totalBorrowed = Monus(vault.totalBorrowed, r.amount)
        /\ vault'.accumulatedFees = vault.accumulatedFees + fee
    <3>1. vault \in Books
          BY <1>1
    <3>2. \A v \in Books, x, i \in Nat :
             /\ FeeOn(v, i) \in Nat
             /\ AfterRepayment(v, x, i).balance = v.balance + x
             /\ AfterRepayment(v, x, i).totalBorrowed = Monus(v.totalBorrowed, x)
             /\ AfterRepayment(v, x, i).accumulatedFees = v.accumulatedFees + FeeOn(v, i)
          BY RepaymentBooks
    <3> QED
          BY <1>5, <2>1, <3>1, <3>2
  <2>3. Charged = fee
        BY <1>2, <2>2 DEF Charged, Monus
  <2>4. vault'.balance + vault'.totalBorrowed >= vault.balance + vault.totalBorrowed
        BY <1>2, <2>1, <2>2 DEF Monus
  <2> HIDE DEF fee
  <2>5. TotalAssets(vault') + Charged + Lost >= TotalAssets(vault)
        BY <1>2, <1>3, <2>2, <2>3, <2>4
  <2> QED
        BY <1>1, <2>5, FairWithoutShares
<1>6. CASE vault.accumulatedFees <= vault.balance /\ vault' = AfterCollectFees(vault)
  <2>1. /\ vault'.balance = vault.balance - vault.accumulatedFees
        /\ vault'.totalBorrowed = vault.totalBorrowed /\ vault'.accumulatedFees = 0
        BY <1>1, <1>6, FeesBooks
  <2>2. TotalAssets(vault') + Charged + Lost >= TotalAssets(vault)
        BY <1>2, <1>3, <2>1
  <2> QED
        BY <1>1, <2>2, FairWithoutShares
<1>7. ASSUME NEW loss \in Loans, vault' = AfterWriteDownLoss(vault, loss)
      PROVE  Fair
  <2>1. /\ vault'.balance = vault.balance
        /\ vault'.totalBorrowed = Monus(vault.totalBorrowed, loss)
        /\ vault'.accumulatedFees = vault.accumulatedFees /\ loss \in Nat
        BY <1>1, <1>7, LossBooks, VaultAssumption
  <2>2. Lost = vault.totalBorrowed - vault'.totalBorrowed
        BY <1>2, <2>1 DEF Lost, Monus
  <2>3. TotalAssets(vault') + Charged + Lost >= TotalAssets(vault)
        BY <1>2, <1>3, <2>1, <2>2
  <2> QED
        BY <1>1, <2>3, FairWithoutShares
<1> QED
    BY <1>1, <1>4, <1>5, <1>6, <1>7

\* No entry, exit, transfer, loan or fee collection takes value from those who hold
\* shares, for any amounts and however the conversions round; a repayment costs them
\* its fee at most and a write-down its loss.
THEOREM PricesAreFair == VaultSpec => NoDilution
<1>1. VaultInv /\ [VaultNext]_vaultVars => (Solvent(vault) => Fair)
  <2> SUFFICES ASSUME VaultInv, [VaultNext]_vaultVars, Solvent(vault) PROVE Fair
      OBVIOUS
  <2>1. TypeInv
        BY DEF VaultInv
  <2>2. ASSUME UNCHANGED <<vault, supply>> PROVE Fair
    <3>1. vault' \in Books /\ supply' = supply /\ TotalAssets(vault') = TotalAssets(vault)
          BY <2>1, <2>2 DEF TypeInv
    <3>2. /\ TotalAssets(vault) \in Nat /\ Charged \in Nat /\ Lost \in Nat
          BY <2>1, <3>1, Amounts, ChargedLost DEF TypeInv
    <3> QED
          BY <2>1, <3>1, <3>2, FairWithoutShares
  <2>3. CASE ContractNext
        BY <2>1, <2>3, FairContract
  <2>4. CASE Tick \/ UNCHANGED vaultVars
        BY <2>2, <2>4 DEF Tick, vaultVars
  <2>5. CASE BackerNext
    <3>1. PICK b \in Backers :
            \/ \E assets \in Assets : Deposit(b, assets)
            \/ \E n \in 1..MaxShares : Mint(b, n)
            \/ RequestWithdrawal(b)
            \/ \E assets \in Assets : Withdraw(b, assets)
            \/ \E n \in 1..MaxShares : Redeem(b, n)
            \/ \E a \in Backers, n \in 0..MaxShares : Transfer(a, b, n)
          BY <2>5 DEF BackerNext
    <3>2. RequestWithdrawal(b) => Fair
          BY <2>2 DEF RequestWithdrawal
    <3>3. \A a \in Backers, n \in 0..MaxShares : Transfer(a, b, n) => Fair
          BY <2>2 DEF Transfer
    <3> QED
          BY <2>1, <3>1, <3>2, <3>3, Entries, Exits, FairEntry, FairExit
  <2> QED
        BY <2>3, <2>4, <2>5 DEF VaultNext
<1>2. VaultInv /\ [VaultNext]_vaultVars =>
        (Solvent(vault) =>
          LET charged == Monus(vault'.accumulatedFees, vault.accumulatedFees)
              lost    == IF vault'.balance = vault.balance
                            THEN Monus(vault.totalBorrowed, vault'.totalBorrowed) ELSE 0
          IN  (TotalAssets(vault') + charged + lost + 1) * (supply + 1)
                  >= (TotalAssets(vault) + 1) * (supply' + 1))
      BY <1>1 DEF Fair, Charged, Lost
<1> QED
    BY <1>2, VaultInvariant, PTL DEF VaultSpec, NoDilution
=============================================================================
