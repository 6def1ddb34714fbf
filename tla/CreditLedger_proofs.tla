------------------------- MODULE CreditLedger_proofs -------------------------
(***************************************************************************)
(* Theorems about CreditLedger, for any number of draws and requests, any  *)
(* amounts, tenors and scores: the rows keep their types, what is settled  *)
(* stays settled, and the line follows the debts.                          *)
(*                                                                         *)
(* The last one is about sums over all draws.  The first section proves    *)
(* what it needs of them, by induction in the form of the least number     *)
(* principle: a set of naturals that is not empty has a least member.      *)
(***************************************************************************)
EXTENDS CreditLedger, FiniteSetTheorems, WellFoundedInduction, TLAPS

-----------------------------------------------------------------------------
(* The inductive invariant. *)

AmountsDrawn == Total([d \in Draws |-> draws[d].amount])

\* A row that was inserted has an amount and is not repaid beyond what is due.
RowOK(row) ==
    IF row.status = "none" THEN row.amount = 0 /\ row.due = 0 /\ row.repaid = 0
    ELSE row.amount > 0 /\ row.due > 0 /\ row.repaid <= row.due

RowsOK == \A d \in Draws : RowOK(draws[d])

\* A row of credit_lines that was read: it was below the highest line, and used by
\* draws that are still there.
LineSeen(l) == l.used <= past.high /\ l.used <= AmountsDrawn

\* What a request has read of its draw holds still, but for what was repaid.
DrawSeen(c) ==
    /\ draws[c.draw].status # "none"
    /\ c.row.due = draws[c.draw].due /\ c.row.amount = draws[c.draw].amount
    /\ c.row.repaid + c.amount <= c.row.due

CallOK(c) ==
    /\ c.at = "scoring" /\ line = NoLine => c.line = NoLine
    /\ c.at \in {"drawing", "repaying", "releasing"} => line # NoLine
    /\ c.at = "drawing" =>
         c.line.used + c.amount <= c.line.max /\ c.line.max <= past.high /\ LineSeen(c.line)
    /\ c.at \in {"repaying", "releasing"} => DrawSeen(c)
    /\ c.at = "releasing" => LineSeen(c.line)

\* The worker marks only rows that there are, and those after its second query.
SweepOK ==
    /\ sweep.marked \subseteq sweep.todo
    /\ sweep.at = "late" => sweep.marked = {}
    /\ \A d \in sweep.todo : draws[d].status # "none"

LineOK ==
    /\ line # NoLine => line.max <= past.high /\ LineSeen(line)
    /\ line = NoLine => past.releases = 0 /\ \A d \in Draws : draws[d].status = "none"

BooksInv ==
    /\ LedgerTypeOK /\ RowsOK /\ LineOK /\ SweepOK
    /\ \A r \in Requests : CallOK(call[r])

\* By how much the line may differ from the exact principal that is open, per draw:
\* half a unit for each of the k releases of its principal.  low and high are whole.
Bounds(row, k, low, high) ==
    /\ k >= 0 /\ high >= 0
    /\ row.status = "none" => k = 0 /\ low = 0 /\ high = 0
    /\ 2 * (row.due * high) <= 2 * (row.amount * Remaining(row)) + k * row.due
    /\ 2 * (row.due * low) >= 2 * (row.amount * Remaining(row)) - k * row.due

\* The line is between such bounds, for some split of the releases.
Split(k, low, high) ==
    /\ \A d \in Draws : Bounds(draws[d], k[d], low[d], high[d])
    /\ Total(k) = past.releases
    /\ line # NoLine => Total(low) <= line.used /\ line.used <= Total(high)

ReleasesInv ==
    ~past.lost => \E k, low, high \in [Draws -> Int] : Split(k, low, high)

-----------------------------------------------------------------------------
(* Sums over the draws. *)

\* The least number principle.
LEMMA LeastNumber ==
    ASSUME NEW S \in SUBSET Nat, S # {}
    PROVE  \E x \in S : \A y \in S : x <= y
<1>1. \E x \in S : \A y \in S : ~(<<y, x>> \in OpToRel(<, Nat))
  BY NatLessThanWellFounded, WFMin
<1>2. \A x \in S, y \in S : <<y, x>> \notin OpToRel(<, Nat) => x <= y
  BY DEF OpToRel
<1>3. QED BY <1>1, <1>2

\* Induction on the draws: what holds of none, and of n if of n - 1, holds of all.
LEMMA DrawByDraw ==
    ASSUME NEW S \in SUBSET (0..MaxDraws), 0 \in S, \A n \in Draws : n - 1 \in S => n \in S
    PROVE  MaxDraws \in S
<1> USE LedgerAssumption DEF Draws
<1> DEFINE rest == (0..MaxDraws) \ S
<1> SUFFICES ASSUME rest # {} PROVE FALSE
  OBVIOUS
<1>1. rest \in SUBSET Nat
  OBVIOUS
<1>2. PICK x \in rest : \A y \in rest : x <= y
  <2> HIDE DEF rest
  <2> QED BY <1>1, LeastNumber
<1>3. x \in Draws /\ x - 1 \in 0..MaxDraws
  BY <1>2
<1>4. x - 1 \in S
  BY <1>2, <1>3
<1>5. QED BY <1>2, <1>3, <1>4

\* s is the sum of a column up to each draw.
PartialSums(s, column) ==
    s[0] = 0 /\ \A n \in Draws : s[n] = s[n - 1] + column[n]

\* Partial sums up to any draw can be continued.
LEMMA PartialSumsExist ==
    ASSUME NEW column \in [Draws -> Int]
    PROVE  \E s \in [0..MaxDraws -> Int] : PartialSums(s, column)
<1> USE LedgerAssumption DEF Draws
<1> DEFINE UpTo(s, m) == s[0] = 0 /\ \A n \in 1..m : s[n] = s[n - 1] + column[n]
           S == {m \in 0..MaxDraws : \E s \in [0..MaxDraws -> Int] : UpTo(s, m)}
<1>1. 0 \in S
  <2> DEFINE zero == [n \in 0..MaxDraws |-> 0]
  <2>1. zero \in [0..MaxDraws -> Int] /\ UpTo(zero, 0) /\ 0 \in 0..MaxDraws
    OBVIOUS
  <2> HIDE DEF zero, UpTo
  <2>2. QED BY <2>1
<1>2. ASSUME NEW m \in Draws, m - 1 \in S PROVE m \in S
  <2>1. PICK s \in [0..MaxDraws -> Int] : UpTo(s, m - 1)
    BY <1>2
  <2> DEFINE t == [s EXCEPT ![m] = s[m - 1] + column[m]]
  <2>2. /\ t \in [0..MaxDraws -> Int] /\ t[m] = s[m - 1] + column[m]
        /\ \A n \in 0..MaxDraws : n # m => t[n] = s[n]
    OBVIOUS
  <2> HIDE DEF t
  <2>3. t[0] = 0
    BY <2>1, <2>2
  <2>4. ASSUME NEW n \in 1..m PROVE t[n] = t[n - 1] + column[n]
    <3>1. CASE n = m
      BY <2>2, <3>1
    <3>2. CASE n # m
      <4>1. n \in 1..(m - 1) /\ n - 1 # m /\ n - 1 \in 0..MaxDraws /\ n \in 0..MaxDraws
        BY <3>2
      <4>2. s[n] = s[n - 1] + column[n]
        BY <2>1, <4>1
      <4>3. QED BY <2>2, <3>2, <4>1, <4>2
    <3>3. QED BY <3>1, <3>2
  <2>5. UpTo(t, m) /\ m \in 0..MaxDraws
    BY <2>3, <2>4
  <2> HIDE DEF UpTo
  <2>6. QED BY <2>2, <2>5
<1>3. S \in SUBSET (0..MaxDraws)
  OBVIOUS
<1>4. MaxDraws \in S
  <2> HIDE DEF S
  <2> QED BY <1>1, <1>2, <1>3, DrawByDraw
<1>5. QED BY <1>4 DEF PartialSums

\* Total is the last of the partial sums.
LEMMA TotalSums ==
    ASSUME NEW column \in [Draws -> Int]
    PROVE  \E s \in [0..MaxDraws -> Int] : PartialSums(s, column) /\ Total(column) = s[MaxDraws]
<1> USE LedgerAssumption DEF Draws
<1> DEFINE Sums(s) == s = [n \in 0..MaxDraws |-> IF n = 0 THEN 0 ELSE s[n - 1] + column[n]]
           sum == CHOOSE s : Sums(s)
<1>1. \E s : Sums(s)
  <2>1. PICK s \in [0..MaxDraws -> Int] : PartialSums(s, column)
    BY PartialSumsExist
  <2>2. s = [n \in 0..MaxDraws |-> s[n]]
    OBVIOUS
  <2>3. \A n \in 0..MaxDraws : s[n] = IF n = 0 THEN 0 ELSE s[n - 1] + column[n]
    BY <2>1 DEF PartialSums
  <2>4. Sums(s)
    BY <2>2, <2>3
  <2> HIDE DEF Sums
  <2>5. QED BY <2>4
<1>2. Sums(sum)
  BY <1>1
<1>3. Total(column) = sum[MaxDraws]
  BY DEF Total
<1>4. PICK s \in [0..MaxDraws -> Int] : PartialSums(s, column)
  BY PartialSumsExist
<1>5. \A n \in 0..MaxDraws : sum[n] = IF n = 0 THEN 0 ELSE sum[n - 1] + column[n]
  BY <1>2
<1> HIDE DEF sum
<1> DEFINE S == {n \in 0..MaxDraws : sum[n] = s[n]}
<1>6. 0 \in S
  BY <1>4, <1>5 DEF PartialSums
<1>7. ASSUME NEW n \in Draws, n - 1 \in S PROVE n \in S
  BY <1>4, <1>5, <1>7 DEF PartialSums
<1>8. MaxDraws \in S
  <2>1. S \in SUBSET (0..MaxDraws)
    OBVIOUS
  <2> HIDE DEF S
  <2>2. QED BY <1>6, <1>7, <2>1, DrawByDraw
<1>9. QED BY <1>3, <1>4, <1>8

LEMMA TotalType == ASSUME NEW f \in [Draws -> Int] PROVE Total(f) \in Int
  BY TotalSums, LedgerAssumption

\* One entry changes.
LEMMA TotalChange ==
    ASSUME NEW f \in [Draws -> Int], NEW d \in Draws, NEW v \in Int
    PROVE  Total([f EXCEPT ![d] = v]) = Total(f) - f[d] + v
<1> USE LedgerAssumption DEF Draws
<1> DEFINE g == [f EXCEPT ![d] = v]
<1>1. g \in [Draws -> Int] /\ g[d] = v /\ \A n \in Draws : n # d => g[n] = f[n]
  OBVIOUS
<1> HIDE DEF g
<1>2. PICK s \in [0..MaxDraws -> Int] : PartialSums(s, f) /\ Total(f) = s[MaxDraws]
  BY TotalSums
<1>3. PICK t \in [0..MaxDraws -> Int] : PartialSums(t, g) /\ Total(g) = t[MaxDraws]
  BY <1>1, TotalSums
<1> DEFINE S == {n \in 0..MaxDraws : t[n] = IF n < d THEN s[n] ELSE s[n] - f[d] + v}
<1>4. 0 \in S
  BY <1>2, <1>3 DEF PartialSums
<1>5. ASSUME NEW n \in Draws, n - 1 \in S PROVE n \in S
  <2>1. s[n] = s[n - 1] + f[n] /\ t[n] = t[n - 1] + g[n]
    BY <1>2, <1>3 DEF PartialSums
  <2>2. s[n - 1] \in Int /\ f[n] \in Int /\ f[d] \in Int
    OBVIOUS
  <2>3. CASE n = d
    BY <1>1, <1>5, <2>1, <2>2, <2>3
  <2>4. CASE n < d
    <3>1. t[n - 1] = s[n - 1] /\ g[n] = f[n]
      BY <1>1, <1>5, <2>4
    <3>2. QED BY <2>1, <2>4, <3>1
  <2>5. CASE n > d
    <3>1. t[n - 1] = s[n - 1] - f[d] + v /\ g[n] = f[n]
      BY <1>1, <1>5, <2>5
    <3>2. t[n] = s[n] - f[d] + v
      <4>1. t[n] = t[n - 1] + g[n] /\ s[n] = s[n - 1] + f[n]
        BY <2>1
      <4>2. PICK x, y, z \in Int : x = s[n - 1] /\ y = f[d] /\ z = f[n]
        BY <2>2, Zenon
      <4>3. t[n] = (x - y + v) + z /\ s[n] = x + z
        BY <3>1, <4>1, <4>2, Zenon
      <4>4. (x - y + v) + z = (x + z) - y + v
        OBVIOUS
      <4>5. QED BY <4>2, <4>3, <4>4, Zenon
    <3>3. QED BY <2>5, <3>2
  <2>6. QED BY <2>3, <2>4, <2>5
<1>6. MaxDraws \in S
  <2>1. S \in SUBSET (0..MaxDraws)
    OBVIOUS
  <2> HIDE DEF S
  <2>2. QED BY <1>4, <1>5, <2>1, DrawByDraw
<1>7. QED BY <1>2, <1>3, <1>6 DEF g

\* The same for two columns that differ in one entry.
LEMMA TotalMoves ==
    ASSUME NEW f \in [Draws -> Int], NEW g \in [Draws -> Int], NEW d \in Draws,
           \A e \in Draws \ {d} : g[e] = f[e]
    PROVE  Total(g) = Total(f) - f[d] + g[d]
<1>1. g = [f EXCEPT ![d] = g[d]] /\ g[d] \in Int
  OBVIOUS
<1>2. Total([f EXCEPT ![d] = g[d]]) = Total(f) - f[d] + g[d]
  BY <1>1, TotalChange
<1>3. QED BY <1>1, <1>2

\* g is the column f but for the entry of d, and so is its sum.
Moved(f, g, d, v) ==
    /\ g[d] = v /\ \A e \in Draws \ {d} : g[e] = f[e]
    /\ Total(g) = Total(f) - f[d] + v

LEMMA Changed ==
    ASSUME NEW f \in [Draws -> Int], NEW d \in Draws, NEW v \in Int
    PROVE  \E g \in [Draws -> Int] : Moved(f, g, d, v)
<1> DEFINE g == [f EXCEPT ![d] = v]
<1>1. g \in [Draws -> Int] /\ g[d] = v /\ \A e \in Draws \ {d} : g[e] = f[e]
  OBVIOUS
<1> HIDE DEF g
<1>2. Total(g) = Total(f) - f[d] + v
  BY <1>1, TotalMoves
<1>3. QED BY <1>1, <1>2 DEF Moved

\* A column that is nowhere more sums up to no more.
LEMMA TotalAtMost ==
    ASSUME NEW f \in [Draws -> Int], NEW g \in [Draws -> Int], \A d \in Draws : f[d] <= g[d]
    PROVE  Total(f) <= Total(g)
<1> USE LedgerAssumption DEF Draws
<1>1. PICK s \in [0..MaxDraws -> Int] : PartialSums(s, f) /\ Total(f) = s[MaxDraws]
  BY TotalSums
<1>2. PICK t \in [0..MaxDraws -> Int] : PartialSums(t, g) /\ Total(g) = t[MaxDraws]
  BY TotalSums
<1> DEFINE S == {n \in 0..MaxDraws : s[n] <= t[n]}
<1>3. 0 \in S
  BY <1>1, <1>2 DEF PartialSums
<1>4. ASSUME NEW n \in Draws, n - 1 \in S PROVE n \in S
  <2>1. s[n] = s[n - 1] + f[n] /\ t[n] = t[n - 1] + g[n]
    BY <1>1, <1>2 DEF PartialSums
  <2>2. s[n - 1] <= t[n - 1] /\ n \in 0..MaxDraws /\ n - 1 \in 0..MaxDraws
    BY <1>4
  <2>3. /\ s[n] \in Int /\ t[n] \in Int /\ s[n - 1] \in Int /\ t[n - 1] \in Int
        /\ f[n] \in Int /\ g[n] \in Int
    BY <2>2
  <2>4. f[n] <= g[n]
    OBVIOUS
  <2>5. s[n - 1] + f[n] <= t[n - 1] + g[n]
    BY ONLY <2>2, <2>3, <2>4
  <2>6. s[n] <= t[n]
    BY ONLY <2>1, <2>5
  <2>7. QED BY <2>2, <2>6
<1>5. MaxDraws \in S
  <2>1. S \in SUBSET (0..MaxDraws)
    OBVIOUS
  <2> HIDE DEF S
  <2>2. QED BY <1>3, <1>4, <2>1, DrawByDraw
<1>6. QED BY <1>1, <1>2, <1>5

\* Columns are added entry by entry.
LEMMA TotalAdds ==
    ASSUME NEW f \in [Draws -> Int], NEW g \in [Draws -> Int]
    PROVE  Total([d \in Draws |-> f[d] + g[d]]) = Total(f) + Total(g)
<1> USE LedgerAssumption DEF Draws
<1> DEFINE h == [d \in Draws |-> f[d] + g[d]]
<1>1. h \in [Draws -> Int] /\ \A d \in Draws : h[d] = f[d] + g[d]
  OBVIOUS
<1> HIDE DEF h
<1>2. PICK s \in [0..MaxDraws -> Int] : PartialSums(s, f) /\ Total(f) = s[MaxDraws]
  BY TotalSums
<1>3. PICK t \in [0..MaxDraws -> Int] : PartialSums(t, g) /\ Total(g) = t[MaxDraws]
  BY TotalSums
<1>4. PICK u \in [0..MaxDraws -> Int] : PartialSums(u, h) /\ Total(h) = u[MaxDraws]
  BY <1>1, TotalSums
<1> DEFINE S == {n \in 0..MaxDraws : u[n] = s[n] + t[n]}
<1>5. 0 \in S
  BY <1>2, <1>3, <1>4 DEF PartialSums
<1>6. ASSUME NEW n \in Draws, n - 1 \in S PROVE n \in S
  <2>1. s[n] = s[n - 1] + f[n] /\ t[n] = t[n - 1] + g[n] /\ u[n] = u[n - 1] + h[n]
    BY <1>2, <1>3, <1>4 DEF PartialSums
  <2>2. u[n - 1] = s[n - 1] + t[n - 1] /\ h[n] = f[n] + g[n]
        /\ n \in 0..MaxDraws /\ n - 1 \in 0..MaxDraws
    BY <1>1, <1>6
  <2>3. /\ s[n - 1] \in Int /\ t[n - 1] \in Int /\ f[n] \in Int /\ g[n] \in Int
    BY <2>2
  <2>4. u[n] = s[n] + t[n]
    BY ONLY <2>1, <2>2, <2>3
  <2>5. QED BY <2>2, <2>4
<1>7. MaxDraws \in S
  <2>1. S \in SUBSET (0..MaxDraws)
    OBVIOUS
  <2> HIDE DEF S
  <2>2. QED BY <1>5, <1>6, <2>1, DrawByDraw
<1>8. QED BY <1>2, <1>3, <1>4, <1>7 DEF h

\* Counting is summing ones.
LEMMA TotalCounts ==
    ASSUME NEW P \in SUBSET Draws
    PROVE  Total([d \in Draws |-> IF d \in P THEN 1 ELSE 0]) = Cardinality(P)
<1> USE LedgerAssumption DEF Draws
<1> DEFINE f == [d \in Draws |-> IF d \in P THEN 1 ELSE 0]
<1>1. f \in [Draws -> Int] /\ \A d \in Draws : f[d] = IF d \in P THEN 1 ELSE 0
  OBVIOUS
<1> HIDE DEF f
<1>2. PICK s \in [0..MaxDraws -> Int] : PartialSums(s, f) /\ Total(f) = s[MaxDraws]
  BY <1>1, TotalSums
<1> DEFINE Q(n) == P \cap 1..n
           S == {n \in 0..MaxDraws : IsFiniteSet(Q(n)) /\ s[n] = Cardinality(Q(n))}
<1>3. 0 \in S
  <2>1. Q(0) = {} /\ 0 \in 0..MaxDraws
    OBVIOUS
  <2> HIDE DEF Q
  <2>2. QED BY <1>2, <2>1, FS_EmptySet DEF PartialSums
<1>4. ASSUME NEW n \in Draws, n - 1 \in S PROVE n \in S
  <2>1. Q(n) = IF n \in P THEN Q(n - 1) \cup {n} ELSE Q(n - 1)
    OBVIOUS
  <2>2. n \notin Q(n - 1) /\ n \in 0..MaxDraws
    OBVIOUS
  <2>3. s[n] = s[n - 1] + f[n]
    BY <1>2 DEF PartialSums
  <2>4. IsFiniteSet(Q(n - 1)) /\ s[n - 1] = Cardinality(Q(n - 1)) /\ s[n - 1] \in Int
    BY <1>4
  <2> HIDE DEF Q
  <2>5. CASE n \in P
    <3>1. IsFiniteSet(Q(n)) /\ Cardinality(Q(n)) = Cardinality(Q(n - 1)) + 1
      <4>1. Q(n) = Q(n - 1) \cup {n}
        BY <2>1, <2>5
      <4>2. \A T : IsFiniteSet(T) /\ n \notin T =>
               /\ IsFiniteSet(T \cup {n})
               /\ Cardinality(T \cup {n}) = Cardinality(T) + 1
        <5>1. TAKE T
        <5>2. HAVE IsFiniteSet(T) /\ n \notin T
        <5>3. IsFiniteSet(T \cup {n}) /\ (Cardinality(T \cup {n})
                = IF n \in T THEN Cardinality(T) ELSE Cardinality(T) + 1)
          BY <5>2, FS_AddElement
        <5>4. QED BY <5>2, <5>3
      <4>3. QED BY <2>2, <2>4, <4>1, <4>2
    <3>2. QED BY <1>1, <2>2, <2>3, <2>4, <2>5, <3>1
  <2>6. CASE n \notin P
    BY <1>1, <2>1, <2>2, <2>3, <2>4, <2>6
  <2>7. QED BY <2>5, <2>6
<1>5. MaxDraws \in S
  <2>1. S \in SUBSET (0..MaxDraws)
    OBVIOUS
  <2> HIDE DEF S
  <2>2. QED BY <1>3, <1>4, <2>1, DrawByDraw
<1>6. Q(MaxDraws) = P
  OBVIOUS
<1>7. QED BY <1>2, <1>5, <1>6 DEF f

\* A column of zeros.
LEMMA TotalZero == ASSUME NEW f \in [Draws -> Int], \A d \in Draws : f[d] = 0 PROVE Total(f) = 0
<1>1. \A d \in Draws : f[d] + f[d] = f[d]
  OBVIOUS
<1>2. [d \in Draws |-> f[d] + f[d]] = f
  BY <1>1
<1>3. QED BY <1>2, TotalAdds, TotalType

-----------------------------------------------------------------------------
(* Rounding. *)

\* Products distribute over sums.
LEMMA Distributes ==
    ASSUME NEW a \in Int, NEW b \in Int, NEW c \in Int
    PROVE  /\ a * (b + c) = a * b + a * c /\ a * (b - c) = a * b - a * c /\ a * b = b * a
           /\ a * b \in Int
  OBVIOUS

LEMMA MaxOfTwo ==
    ASSUME NEW a \in Int, NEW b \in Int
    PROVE  Max({a, b}) = IF a <= b THEN b ELSE a
<1> DEFINE m == IF a <= b THEN b ELSE a
           P(x) == x \in {a, b} /\ \A y \in {a, b} : x >= y
<1>1. P(m)
  OBVIOUS
<1>2. \A x : P(x) => x = m
  OBVIOUS
<1>3. Max({a, b}) = CHOOSE x \in {a, b} : \A y \in {a, b} : x >= y
  BY DEF Max
<1>4. QED BY <1>1, <1>2, <1>3

\* quantize errs by half a unit at most, and not at all on a multiple.
LEMMA QuantizedBounds ==
    ASSUME NEW a \in Nat, NEW b \in Nat \ {0}
    PROVE  /\ Quantized(a, b) \in Nat
           /\ 2 * (b * Quantized(a, b)) <= 2 * a + b
           /\ 2 * (b * Quantized(a, b)) >= 2 * a - b
<1> DEFINE q == a \div b
           r == a % b
<1>1. q \in Nat /\ r \in 0..(b - 1) /\ a = b * q + r
  OBVIOUS
<1>2. Quantized(a, b) = IF 2 * r > b \/ (2 * r = b /\ q % 2 = 1) THEN q + 1 ELSE q
  BY DEF Quantized
<1> HIDE DEF q, r
<1>3. b * (q + 1) = b * q + b /\ b * q \in Nat
  BY <1>1
<1> DEFINE p == b * q
           z == Quantized(a, b)
<1>4. CASE z = q
  <2>1. 2 * r <= b
    BY <1>1, <1>2, <1>4
  <2>2. b * z = p /\ a = p + r
    BY <1>1, <1>4
  <2>3. p \in Nat
    BY <1>3
  <2> HIDE DEF p, z
  <2>4. QED BY <1>1, <1>4, <2>1, <2>2, <2>3 DEF z
<1>5. CASE z = q + 1
  <2>1. 2 * r >= b
    BY <1>1, <1>2, <1>5
  <2>2. b * z = p + b /\ a = p + r
    BY <1>1, <1>3, <1>5
  <2>3. p \in Nat
    BY <1>3
  <2> HIDE DEF p, z
  <2>4. QED BY <1>1, <1>5, <2>1, <2>2, <2>3 DEF z
<1>6. QED BY <1>2, <1>4, <1>5

LEMMA QuantizedExact ==
    ASSUME NEW a \in Nat, NEW b \in Nat \ {0}
    PROVE  Quantized(a * b, b) = a
<1>1. (a * b) \div b = a /\ (a * b) % b = 0
  <2> DEFINE p == a * b
             q == p \div b
             r == p % b
  <2>1. p \in Nat
    OBVIOUS
  <2>2. q \in Nat /\ r \in 0..(b - 1) /\ p = b * q + r
    BY <2>1
  <2> HIDE DEF q, r
  <2>3. b * (a - q) = r
    BY <2>2
  <2>4. a - q = 0
    <3>1. CASE a - q > 0
      <4>1. b * (a - q) >= b
        <5> DEFINE e == a - q - 1
        <5>1. e \in Nat /\ a - q = e + 1
          BY <2>2, <3>1
        <5> HIDE DEF e
        <5>2. b * (e + 1) = b * e + b /\ b * e >= 0
          BY <5>1
        <5>3. QED BY <5>1, <5>2
      <4>2. QED BY <2>2, <2>3, <4>1
    <3>2. CASE a - q < 0
      <4>1. b * (a - q) < 0
        BY <2>2, <3>2
      <4>2. QED BY <2>2, <2>3, <4>1
    <3>3. QED BY <2>2, <3>1, <3>2
  <2>5. QED BY <2>2, <2>3, <2>4 DEF q, r
<1> DEFINE p == a * b
<1>2. p \in Nat
  OBVIOUS
<1> HIDE DEF p
<1>3. p \div b = a /\ p % b = 0
  BY <1>1 DEF p
<1>4. Quantized(p, b) = a
  BY <1>3 DEF Quantized
<1>5. QED BY <1>4 DEF p

-----------------------------------------------------------------------------
(* The rows keep their types. *)

Statuses == {"none", "ACTIVE", "REPAID", "DEFAULTED"}
Pasts == [left : [days : Nat, faults : Nat, scores : Nat, draws : Nat, repays : Nat],
          high : Nat, lost : BOOLEAN, releases : Nat]
Sweeps == [at : {"sleep", "late", "marking"}, day : Nat, late : SUBSET Draws,
           todo : SUBSET Draws, marked : SUBSET Draws]

\* What a request has read, by where it stands.
LEMMA CallFields ==
    ASSUME NEW c \in Calls
    PROVE  /\ c.at \in {"idle", "scoring", "drawing", "repaying", "releasing"}
           /\ c.at = "scoring" => c.score \in Scores /\ c.line \in Lines \cup {NoLine}
           /\ c.at = "drawing" => c.amount \in Amounts /\ c.tenor \in Tenors /\ c.line \in Lines
           /\ c.at \in {"repaying", "releasing"} =>
                c.draw \in Draws /\ c.amount \in Amounts /\ c.row \in Rows
           /\ c.at = "releasing" => c.line \in Lines
  BY DEF Calls, Idle

LEMMA LineFields ==
    ASSUME NEW l \in Lines
    PROVE  l.max \in Nat /\ l.used \in Nat /\ l.rate \in Nat /\ l # NoLine
  BY LedgerAssumption DEF Lines

LEMMA RowFields ==
    ASSUME NEW row \in Rows
    PROVE  /\ row.status \in Statuses
           /\ row.amount \in Nat /\ row.due \in Nat /\ row.repaid \in Nat /\ row.dueAt \in Nat
  BY DEF Rows, Statuses

LEMMA PastFields ==
    ASSUME NEW p \in Pasts
    PROVE  p.high \in Nat /\ p.lost \in BOOLEAN /\ p.releases \in Nat
  BY DEF Pasts

\* What is spent of the bounds changes no history.
LEMMA Spending ==
    ASSUME past \in Pasts, NEW kind \in {"days", "faults", "scores", "draws", "repays"},
           Spend(kind)
    PROVE  /\ past' \in Pasts
           /\ past'.high = past.high /\ past'.lost = past.lost /\ past'.releases = past.releases
<1> DEFINE l == [past.left EXCEPT ![kind] = past.left[kind] - 1]
           L == [days : Nat, faults : Nat, scores : Nat, draws : Nat, repays : Nat]
<1>1. past' = [past EXCEPT !.left = l] /\ past.left[kind] > 0
  BY DEF Spend, Pasts
<1>2. past.left \in L
  BY DEF Pasts
<1>3. l \in L
  BY <1>1, <1>2
<1> HIDE DEF l, L
<1>4. QED BY <1>1, <1>3 DEF Pasts, L

\* A request ends.
LEMMA Ending ==
    ASSUME call \in [Requests -> Calls], NEW r \in Requests, Ends(r)
    PROVE  /\ call' \in [Requests -> Calls] /\ call'[r] = Idle
           /\ \A q \in Requests \ {r} : call'[q] = call[q]
<1>1. Idle \in Calls
  BY DEF Calls
<1>2. QED BY <1>1 DEF Ends

\* A request goes on.
LEMMA GoingOn ==
    ASSUME call \in [Requests -> Calls], NEW r \in Requests, NEW c \in Calls,
           call' = [call EXCEPT ![r] = c]
    PROVE  /\ call' \in [Requests -> Calls] /\ call'[r] = c
           /\ \A q \in Requests \ {r} : call'[q] = call[q]
  OBVIOUS

-----------------------------------------------------------------------------
(* What a step keeps of what the requests have read. *)

AmountColumn == [d \in Draws |-> draws[d].amount]

\* The rows that are there keep what they owe; none is taken away.
RowsKept ==
    \A d \in Draws : draws[d].status # "none" =>
        /\ draws'[d].status # "none"
        /\ draws'[d].due = draws[d].due /\ draws'[d].amount = draws[d].amount

LEMMA AmountsTyped ==
    ASSUME draws \in [Draws -> Rows]
    PROVE  /\ AmountColumn \in [Draws -> Int] /\ AmountsDrawn \in Int
           /\ AmountsDrawn = Total(AmountColumn)
<1>1. AmountColumn \in [Draws -> Int]
  BY RowFields DEF AmountColumn
<1>2. AmountsDrawn = Total(AmountColumn)
  BY DEF AmountsDrawn, AmountColumn
<1>3. QED BY <1>1, <1>2, TotalType

LEMMA AmountsSame ==
    ASSUME \A d \in Draws : draws'[d].amount = draws[d].amount
    PROVE  AmountsDrawn' = AmountsDrawn
<1>1. [d \in Draws |-> draws'[d].amount] = [d \in Draws |-> draws[d].amount]
  OBVIOUS
<1>2. AmountsDrawn' = Total([d \in Draws |-> draws'[d].amount])
  BY DEF AmountsDrawn
<1>3. QED BY <1>1, <1>2 DEF AmountsDrawn

\* A draw is inserted.
LEMMA AmountsGrow ==
    ASSUME draws \in [Draws -> Rows], NEW d \in Draws, draws[d].amount = 0, NEW row \in Rows,
           draws' = [draws EXCEPT ![d] = row]
    PROVE  AmountsDrawn' = AmountsDrawn + row.amount
<1> DEFINE now == [e \in Draws |-> draws'[e].amount]
<1>1. row.amount \in Int
  BY RowFields
<1>2. now = [AmountColumn EXCEPT ![d] = row.amount]
  BY DEF AmountColumn
<1>3. AmountsDrawn' = Total(now)
  BY DEF AmountsDrawn
<1>4. AmountColumn[d] = 0
  BY DEF AmountColumn
<1> HIDE DEF now
<1>5. Total(now) = Total(AmountColumn) - 0 + row.amount
  <2>1. AmountColumn \in [Draws -> Int]
    BY AmountsTyped
  <2>2. Total([AmountColumn EXCEPT ![d] = row.amount])
          = Total(AmountColumn) - AmountColumn[d] + row.amount
    BY <1>1, <2>1, TotalChange
  <2>3. QED BY <1>2, <1>4, <2>2
<1>6. QED BY <1>1, <1>3, <1>5, AmountsTyped

\* A snapshot that was good stays good.
LEMMA SnapshotsStand ==
    ASSUME BooksInv, LedgerTypeOK', RowsKept, line # NoLine => line' # NoLine,
           past'.high >= past.high, AmountsDrawn' >= AmountsDrawn
    PROVE  /\ \A l \in Lines : LineSeen(l) => LineSeen(l)'
           /\ \A r \in Requests : call'[r] = call[r] => CallOK(call[r])'
<1>1. \A l \in Lines : LineSeen(l) => LineSeen(l)'
  <2>1. /\ past.high \in Nat /\ past'.high \in Nat
        /\ AmountsDrawn \in Int /\ AmountsDrawn' \in Int
    <3>1. draws \in [Draws -> Rows] /\ draws' \in [Draws -> Rows]
      BY DEF BooksInv, LedgerTypeOK
    <3>2. [d \in Draws |-> draws'[d].amount] \in [Draws -> Int]
      BY <3>1, RowFields
    <3>3. AmountsDrawn' \in Int
      BY <3>2, TotalType DEF AmountsDrawn
    <3>4. past \in Pasts /\ past' \in Pasts
      BY DEF BooksInv, LedgerTypeOK, Pasts
    <3>5. past.high \in Nat /\ past'.high \in Nat
      BY <3>4, PastFields
    <3>6. QED BY <3>1, <3>3, <3>5, AmountsTyped
  <2>2. ASSUME NEW l \in Lines, l.used <= past.high, l.used <= AmountsDrawn
        PROVE  l.used <= past'.high /\ l.used <= AmountsDrawn'
    BY <2>1, <2>2, LineFields
  <2>3. QED BY <2>2 DEF LineSeen
<1>2. ASSUME NEW r \in Requests
      PROVE  CallOK(call[r]) /\ call[r] \in Calls
  BY DEF BooksInv, LedgerTypeOK
<1>3. ASSUME NEW c \in Calls, CallOK(c)
      PROVE  /\ c.at = "scoring" /\ line' = NoLine => c.line = NoLine
             /\ c.at \in {"drawing", "repaying", "releasing"} => line' # NoLine
             /\ c.at = "drawing" =>
                  /\ c.line.used + c.amount <= c.line.max /\ c.line.max <= past'.high
                  /\ LineSeen(c.line)'
             /\ c.at \in {"repaying", "releasing"} => DrawSeen(c)'
             /\ c.at = "releasing" => LineSeen(c.line)'
  <2>1. CASE c.at \in {"idle", "scoring"}
    BY <1>3, <2>1 DEF CallOK
  <2>2. CASE c.at = "drawing"
    <3>1. c.line \in Lines /\ c.line.max \in Nat
      BY <2>2, CallFields, LineFields
    <3>2. past.high \in Nat /\ past'.high \in Nat
      BY PastFields DEF BooksInv, LedgerTypeOK, Pasts
    <3>3. c.line.max <= past'.high
      BY <1>3, <2>2, <3>1, <3>2 DEF CallOK
    <3>4. LineSeen(c.line)'
      BY <1>1, <1>3, <2>2, <3>1 DEF CallOK
    <3>5. QED BY <1>3, <2>2, <3>3, <3>4 DEF CallOK
  <2>3. CASE c.at \in {"repaying", "releasing"}
    <3>1. DrawSeen(c)'
      <4>1. DrawSeen(c) /\ c.draw \in Draws
        BY <1>3, <2>3, CallFields DEF CallOK
      <4>2. QED BY <4>1 DEF DrawSeen, RowsKept
    <3>2. c.at = "releasing" => LineSeen(c.line)'
      BY <1>1, <1>3, <2>3, CallFields DEF CallOK
    <3>3. QED BY <1>3, <2>3, <3>1, <3>2 DEF CallOK
  <2>4. QED BY <2>1, <2>2, <2>3, CallFields
<1>4. ASSUME NEW r \in Requests, call'[r] = call[r] PROVE CallOK(call[r])'
  <2> DEFINE c == call[r]
  <2>1. c \in Calls /\ CallOK(c) /\ c' = c
    BY <1>2, <1>4
  <2> HIDE DEF c
  <2>2. CallOK(c)'
    BY <1>3, <2>1 DEF CallOK
  <2>3. QED BY <2>2 DEF c
<1>5. QED BY <1>1, <1>4

\* A step that writes no row of the books.
LEMMA ReadingKeeps ==
    ASSUME BooksInv, LedgerTypeOK', UNCHANGED <<line, draws>>, past'.high = past.high,
           past'.releases = past.releases, SweepOK',
           \A r \in Requests : call'[r] = call[r] \/ CallOK(call[r])'
    PROVE  BooksInv'
<1>1. AmountsDrawn' = AmountsDrawn
  BY AmountsSame
<1>2. past.high \in Nat /\ AmountsDrawn \in Int
  BY PastFields, AmountsTyped DEF BooksInv, LedgerTypeOK, Pasts
<1>3. RowsKept
  BY DEF RowsKept
<1>4. past'.high >= past.high /\ AmountsDrawn' >= AmountsDrawn
  BY <1>1, <1>2
<1>5. \A r \in Requests : CallOK(call[r])'
  BY <1>3, <1>4, SnapshotsStand
<1>6. RowsOK'
  BY DEF BooksInv, RowsOK, RowOK
<1>7. LineOK'
  BY <1>1 DEF BooksInv, LineOK, LineSeen
<1>8. QED BY <1>5, <1>6, <1>7 DEF BooksInv

\* The books at the start.
LEMMA BooksStart == LedgerInit => BooksInv
<1> SUFFICES ASSUME LedgerInit PROVE BooksInv
  OBVIOUS
<1>1. past \in Pasts
  <2>1. PICK left \in Budgets : past = [left |-> left, high |-> 0, lost |-> FALSE, releases |-> 0]
    BY DEF LedgerInit
  <2>2. left \in [days : Nat, faults : Nat, scores : Nat, draws : Nat, repays : Nat]
    <3>1. left \in [days : Nat, faults : Nat, scores : Nat, draws : 0..MaxDraws, repays : Nat]
      BY LedgerAssumption
    <3>2. 0..MaxDraws \subseteq Nat
      BY LedgerAssumption
    <3>3. QED BY <3>1, <3>2
  <2>3. QED BY <2>1, <2>2 DEF Pasts
<1>2. \A r \in Requests : call[r] = Idle
  BY DEF LedgerInit
<1>3. LedgerTypeOK
  <2>1. call \in [Requests -> Calls]
    BY DEF LedgerInit, Calls
  <2>2. draws \in [Draws -> Rows]
    BY DEF LedgerInit, Rows
  <2>3. sweep \in Sweeps
    BY DEF LedgerInit, Resting, Sweeps
  <2>4. day \in Nat /\ line \in Lines \cup {NoLine} /\ agent = "ACTIVE" /\ alerts = {}
    BY DEF LedgerInit
  <2>5. QED BY <1>1, <2>1, <2>2, <2>3, <2>4 DEF LedgerTypeOK, Pasts, Sweeps
<1>4. RowsOK /\ SweepOK
  BY DEF LedgerInit, RowsOK, RowOK, SweepOK, Resting
<1>5. LineOK
  BY DEF LedgerInit, LineOK
<1>6. \A r \in Requests : CallOK(call[r])
  BY <1>2 DEF CallOK, Idle
<1>7. QED BY <1>3, <1>4, <1>5, <1>6 DEF BooksInv

LEMMA ScoreReadsKeeps ==
    ASSUME BooksInv, NEW r \in Requests, ScoreReads(r) PROVE BooksInv'
<1>1. past \in Pasts /\ call \in [Requests -> Calls] /\ line \in Lines \cup {NoLine}
  BY DEF BooksInv, LedgerTypeOK, Pasts
<1>2. past' \in Pasts /\ past'.high = past.high /\ past'.releases = past.releases
  BY <1>1, Spending DEF ScoreReads
<1>3. PICK score \in Scores :
        call' = [call EXCEPT ![r] = [at |-> "scoring", score |-> score, line |-> line]]
  BY DEF ScoreReads
<1> DEFINE c == [at |-> "scoring", score |-> score, line |-> line]
<1>4. c \in Calls
  BY <1>1 DEF Calls
<1>5. call' \in [Requests -> Calls] /\ call'[r] = c /\ \A q \in Requests \ {r} : call'[q] = call[q]
  BY <1>1, <1>3, <1>4, GoingOn
<1>6. LedgerTypeOK'
  BY <1>2, <1>5 DEF BooksInv, LedgerTypeOK, ScoreReads, Pasts
<1>7. CallOK(call[r])'
  BY <1>5 DEF CallOK, ScoreReads
<1>8. SweepOK'
  BY DEF BooksInv, SweepOK, ScoreReads
<1>9. QED BY <1>2, <1>5, <1>6, <1>7, <1>8, ReadingKeeps DEF ScoreReads

LEMMA DrawReadsKeeps ==
    ASSUME BooksInv, NEW r \in Requests, DrawReads(r) PROVE BooksInv'
<1>1. past \in Pasts /\ call \in [Requests -> Calls] /\ line \in Lines
  BY DEF BooksInv, LedgerTypeOK, Pasts, DrawReads
<1>2. past' \in Pasts /\ past'.high = past.high /\ past'.releases = past.releases
  BY <1>1, Spending DEF DrawReads
<1>3. PICK amount \in Amounts, tenor \in Tenors :
        /\ amount <= Available(line)
        /\ call' = [call EXCEPT ![r] = [at |-> "drawing", amount |-> amount,
                                        tenor |-> tenor, line |-> line]]
  BY DEF DrawReads
<1> DEFINE c == [at |-> "drawing", amount |-> amount, tenor |-> tenor, line |-> line]
<1>4. c \in Calls
  BY <1>1 DEF Calls
<1>5. call' \in [Requests -> Calls] /\ call'[r] = c /\ \A q \in Requests \ {r} : call'[q] = call[q]
  BY <1>1, <1>3, <1>4, GoingOn
<1>6. LedgerTypeOK'
  BY <1>2, <1>5 DEF BooksInv, LedgerTypeOK, DrawReads, Pasts
<1>7. CallOK(call[r])'
  <2>1. line.used + amount <= line.max
    BY <1>1, <1>3, LineFields, LedgerAssumption DEF Available
  <2>2. line.max <= past'.high /\ LineSeen(line)'
    <3>1. AmountsDrawn' = AmountsDrawn
      BY AmountsSame DEF DrawReads
    <3>2. QED BY <1>2, <3>1 DEF BooksInv, LineOK, LineSeen, DrawReads
  <2>3. line' = line /\ line # NoLine
    BY DEF DrawReads
  <2>4. LineSeen(c.line)'
    BY <2>2, <2>3 DEF LineSeen
  <2>5. QED BY <1>5, <2>1, <2>2, <2>3, <2>4 DEF CallOK, LineSeen
<1>8. SweepOK'
  BY DEF BooksInv, SweepOK, DrawReads
<1>9. QED BY <1>2, <1>5, <1>6, <1>7, <1>8, ReadingKeeps DEF DrawReads

LEMMA RepayReadsKeeps ==
    ASSUME BooksInv, NEW r \in Requests, RepayReads(r) PROVE BooksInv'
<1>1. past \in Pasts /\ call \in [Requests -> Calls] /\ draws \in [Draws -> Rows]
  BY DEF BooksInv, LedgerTypeOK, Pasts
<1>2. past' \in Pasts /\ past'.high = past.high /\ past'.releases = past.releases
  BY <1>1, Spending DEF RepayReads
<1>3. PICK d \in Draws, amount \in Amounts :
        /\ draws[d].status = "ACTIVE"
        /\ amount <= Remaining(draws[d])
        /\ call' = [call EXCEPT ![r] = [at |-> "repaying", draw |-> d, amount |-> amount,
                                        row |-> draws[d]]]
  BY DEF RepayReads
<1> DEFINE c == [at |-> "repaying", draw |-> d, amount |-> amount, row |-> draws[d]]
<1>4. c \in Calls
  BY <1>1 DEF Calls
<1>5. call' \in [Requests -> Calls] /\ call'[r] = c /\ \A q \in Requests \ {r} : call'[q] = call[q]
  BY <1>1, <1>3, <1>4, GoingOn
<1>6. LedgerTypeOK'
  BY <1>2, <1>5 DEF BooksInv, LedgerTypeOK, RepayReads, Pasts
<1>7. CallOK(call[r])'
  <2>1. draws[d].repaid + amount <= draws[d].due
    BY <1>1, <1>3, RowFields, LedgerAssumption DEF Remaining
  <2>2. line # NoLine /\ line' = line /\ draws' = draws
    BY <1>3 DEF BooksInv, LineOK, RepayReads
  <2>3. DrawSeen(c)'
    BY <1>3, <2>1, <2>2 DEF DrawSeen
  <2>4. QED BY <1>5, <2>2, <2>3 DEF CallOK
<1>8. SweepOK'
  BY DEF BooksInv, SweepOK, RepayReads
<1>9. QED BY <1>2, <1>5, <1>6, <1>7, <1>8, ReadingKeeps DEF RepayReads

LEMMA RepayFlushesKeeps ==
    ASSUME BooksInv, NEW r \in Requests, RepayFlushes(r) PROVE BooksInv'
<1> PICK b : b = call[r]
  OBVIOUS
<1> PICK c : c = [at |-> "releasing", draw |-> b.draw, amount |-> b.amount, row |-> b.row,
                  line |-> line]
  OBVIOUS
<1>1. /\ call \in [Requests -> Calls] /\ b \in Calls /\ CallOK(b) /\ b.at = "repaying"
      /\ line \in Lines \cup {NoLine}
  BY DEF BooksInv, LedgerTypeOK, RepayFlushes
<1>2. b.draw \in Draws /\ b.amount \in Amounts /\ b.row \in Rows
  BY <1>1, CallFields
<1>3. line \in Lines /\ line # NoLine /\ DrawSeen(b)
  BY <1>1 DEF CallOK
<1>4. c \in Calls /\ call' = [call EXCEPT ![r] = c]
  BY <1>2, <1>3 DEF Calls, RepayFlushes
<1>5. call' \in [Requests -> Calls] /\ call'[r] = c /\ \A q \in Requests \ {r} : call'[q] = call[q]
  BY <1>1, <1>4, GoingOn
<1>6. LedgerTypeOK'
  BY <1>5 DEF BooksInv, LedgerTypeOK, RepayFlushes
<1>7. CallOK(call[r])'
  <2>1. LineSeen(line) /\ line' = line /\ draws' = draws /\ past' = past
    BY <1>3 DEF BooksInv, LineOK, RepayFlushes
  <2>2. AmountsDrawn' = AmountsDrawn
    BY <2>1, AmountsSame
  <2>3. LineSeen(c.line)'
    BY <2>1, <2>2 DEF LineSeen
  <2>4. DrawSeen(c)'
    BY <1>3, <2>1 DEF DrawSeen
  <2>5. c.at = "releasing" /\ line' # NoLine
    BY <1>3, <2>1
  <2>6. CallOK(c)'
    BY <2>3, <2>4, <2>5 DEF CallOK
  <2>7. QED BY <1>5, <2>6 DEF CallOK, LineSeen, DrawSeen
<1>8. SweepOK'
  BY DEF BooksInv, SweepOK, RepayFlushes
<1>9. QED BY <1>5, <1>6, <1>7, <1>8, ReadingKeeps DEF RepayFlushes

LEMMA RequestFailsKeeps ==
    ASSUME BooksInv, NEW r \in Requests, RequestFails(r) PROVE BooksInv'
<1>1. past \in Pasts /\ call \in [Requests -> Calls]
  BY DEF BooksInv, LedgerTypeOK, Pasts
<1>2. past' \in Pasts /\ past'.high = past.high /\ past'.releases = past.releases
  BY <1>1, Spending DEF RequestFails
<1>3. /\ call' \in [Requests -> Calls] /\ call'[r] = Idle
      /\ \A q \in Requests \ {r} : call'[q] = call[q]
  BY <1>1, Ending DEF RequestFails
<1>4. LedgerTypeOK'
  BY <1>2, <1>3 DEF BooksInv, LedgerTypeOK, RequestFails, Pasts
<1>5. CallOK(call[r])'
  BY <1>3 DEF CallOK, Idle
<1>6. SweepOK'
  BY DEF BooksInv, SweepOK, RequestFails
<1>7. QED BY <1>2, <1>3, <1>4, <1>5, <1>6, ReadingKeeps DEF RequestFails

\* A score leaves what is used, and the highest line is no lower than the line.
LEMMA Scoring ==
    ASSUME BooksInv, NEW r \in Requests, ScoreWrites(r)
    PROVE  /\ line' \in Lines /\ past'.high \in Nat /\ past'.high >= past.high
           /\ past' = [past EXCEPT !.high = past'.high]
           /\ line'.max <= past'.high
           /\ line # NoLine => line'.used = line.used
           /\ line = NoLine => line'.used = 0
<1> PICK c : c = call[r]
  OBVIOUS
<1>1. /\ c \in Calls /\ c.at = "scoring" /\ CallOK(c) /\ past \in Pasts
      /\ line \in Lines \cup {NoLine}
  BY DEF BooksInv, LedgerTypeOK, ScoreWrites, Pasts
<1>2. c.score \in Scores /\ c.line \in Lines \cup {NoLine} /\ past.high \in Nat
  BY <1>1, CallFields, PastFields
<1>3. c.score.max \in Nat /\ c.score.rate \in Nat
  BY <1>2, LedgerAssumption
<1>4. line' = LineScored(c.line, c.score)
  BY DEF ScoreWrites
<1>5. /\ line' \in Lines
      /\ line # NoLine => line'.used = line.used
      /\ line = NoLine => line'.used = 0
  <2>1. CASE line = NoLine
    <3>1. c.line = NoLine
      BY <1>1, <2>1 DEF CallOK
    <3>2. line' = [max |-> c.score.max, used |-> 0, rate |-> c.score.rate]
      BY <1>4, <2>1, <3>1 DEF LineScored
    <3>3. QED BY <1>3, <2>1, <3>2 DEF Lines
  <2>2. CASE line # NoLine
    <3>1. CASE c.line = NoLine
      BY <1>1, <1>4, <2>2, <3>1 DEF LineScored
    <3>2. CASE c.line # NoLine
      <4> DEFINE m == Column(line.max, c.line.max, c.score.max)
                 n == Column(line.rate, c.line.rate, c.score.rate)
      <4>1. m \in Nat /\ n \in Nat
        BY <1>1, <1>3, <2>2, LineFields DEF Column
      <4>2. line' = [line EXCEPT !.max = m, !.rate = n]
        BY <1>4, <3>2 DEF LineScored
      <4> HIDE DEF m, n
      <4>3. QED BY <1>1, <2>2, <4>1, <4>2 DEF Lines
    <3>3. QED BY <3>1, <3>2
  <2>3. QED BY <2>1, <2>2
<1>6. line'.max \in Nat
  BY <1>5, LineFields
<1>7. Max({past.high, line'.max}) = IF past.high <= line'.max THEN line'.max ELSE past.high
  BY <1>2, <1>6, MaxOfTwo
<1>8. past' = [past EXCEPT !.high = Max({past.high, line'.max})]
  BY DEF ScoreWrites
<1>9. past'.high = Max({past.high, line'.max}) /\ past' = [past EXCEPT !.high = past'.high]
  BY <1>1, <1>8 DEF Pasts
<1>10. QED BY <1>2, <1>5, <1>6, <1>7, <1>9

LEMMA ScoreWritesKeeps ==
    ASSUME BooksInv, NEW r \in Requests, ScoreWrites(r) PROVE BooksInv'
<1>1. past \in Pasts /\ call \in [Requests -> Calls] /\ draws \in [Draws -> Rows]
  BY DEF BooksInv, LedgerTypeOK, Pasts
<1>2. /\ call' \in [Requests -> Calls] /\ call'[r] = Idle
      /\ \A q \in Requests \ {r} : call'[q] = call[q]
  BY <1>1, Ending DEF ScoreWrites
<1>3. past' \in Pasts /\ past'.releases = past.releases
  BY <1>1, Scoring DEF Pasts
<1>4. LedgerTypeOK'
  BY <1>2, <1>3, Scoring DEF BooksInv, LedgerTypeOK, ScoreWrites, Pasts
<1>5. AmountsDrawn' = AmountsDrawn /\ AmountsDrawn \in Int /\ RowsKept
  BY <1>1, AmountsSame, AmountsTyped DEF ScoreWrites, RowsKept
<1>6. line' # NoLine /\ AmountsDrawn' >= AmountsDrawn
  BY <1>5, Scoring, LineFields
<1>7. CallOK(call[r])'
  BY <1>2 DEF CallOK, Idle
<1>8. \A q \in Requests : CallOK(call[q])'
  BY <1>2, <1>4, <1>5, <1>6, <1>7, Scoring, SnapshotsStand
<1>9. LineOK'
  <2>1. CASE line = NoLine
    <3>1. AmountsDrawn = 0
      <4>1. \A d \in Draws : draws[d].amount = 0
        BY <2>1 DEF BooksInv, LineOK, RowsOK, RowOK
      <4>2. QED BY <1>1, <4>1, AmountsTyped, TotalZero DEF AmountColumn
    <3>2. line'.used = 0 /\ past'.high >= 0
      BY <2>1, Scoring
    <3>3. QED BY <1>5, <1>6, <3>1, <3>2, Scoring DEF LineOK, LineSeen
  <2>2. CASE line # NoLine
    <3>1. /\ line'.used = line.used /\ line.used <= past.high /\ line.used <= AmountsDrawn
          /\ line.used \in Nat /\ past.high \in Nat
      BY <1>1, <2>2, Scoring, LineFields, PastFields
         DEF BooksInv, LedgerTypeOK, LineOK, LineSeen
    <3>2. QED BY <1>5, <1>6, <3>1, Scoring DEF LineOK, LineSeen
  <2>3. QED BY <2>1, <2>2
<1>10. RowsOK' /\ SweepOK'
  BY DEF BooksInv, RowsOK, RowOK, SweepOK, ScoreWrites
<1>11. QED BY <1>4, <1>8, <1>9, <1>10 DEF BooksInv

\* The row that a draw inserts, and what the line shows then.
LEMMA Drawing ==
    ASSUME BooksInv, NEW r \in Requests, DrawWrites(r)
    PROVE  \E c \in Calls, d \in Draws :
             /\ c = call[r] /\ c.amount \in Nat \ {0} /\ c.line \in Lines /\ line \in Lines
             /\ draws[d].status = "none" /\ draws' = [draws EXCEPT ![d] = NewDraw(c)]
             /\ NewDraw(c) \in Rows /\ NewDraw(c).due > 0 /\ NewDraw(c).status = "ACTIVE"
             /\ NewDraw(c).amount = c.amount /\ NewDraw(c).repaid = 0
             /\ line' \in Lines /\ line'.used = c.line.used + c.amount /\ line'.max = line.max
             /\ past' \in Pasts /\ past'.high = past.high /\ past'.releases = past.releases
             /\ past'.lost = (past.lost \/ line.used # c.line.used)
             /\ c.line.used + c.amount <= c.line.max /\ c.line.max <= past.high
             /\ LineSeen(c.line)
<1> PICK c : c = call[r]
  OBVIOUS
<1>1. /\ c \in Calls /\ c.at = "drawing" /\ CallOK(c) /\ past \in Pasts /\ day \in Nat
      /\ line \in Lines \cup {NoLine}
  BY DEF BooksInv, LedgerTypeOK, DrawWrites, Pasts
<1>2. /\ c.amount \in Nat \ {0} /\ c.tenor \in Nat /\ c.line \in Lines /\ line \in Lines
      /\ c.line.used + c.amount <= c.line.max /\ c.line.max <= past.high
      /\ LineSeen(c.line)
  BY <1>1, CallFields, LedgerAssumption DEF CallOK
<1>3. PICK d \in Draws :
          draws[d].status = "none" /\ draws' = [draws EXCEPT ![d] = NewDraw(c)]
  BY DEF DrawWrites
<1>4. /\ NewDraw(c) \in Rows /\ NewDraw(c).due > 0 /\ NewDraw(c).status = "ACTIVE"
      /\ NewDraw(c).amount = c.amount /\ NewDraw(c).repaid = 0
  <2> DEFINE n == c.amount * c.line.rate * c.tenor
             q == Quantized(n, RatePeriod)
  <2>1. n \in Nat
    <3>1. c.amount \in Nat /\ c.line.rate \in Nat /\ c.tenor \in Nat
      BY <1>2, LineFields
    <3>2. \A x, y \in Nat : x * y \in Nat
      OBVIOUS
    <3>3. QED BY <3>1, <3>2
  <2> HIDE DEF n
  <2>2. q \in Nat
    BY <2>1, QuantizedBounds, LedgerAssumption
  <2> HIDE DEF q
  <2>3. NewDraw(c) = [status |-> "ACTIVE", amount |-> c.amount, due |-> c.amount + q,
                      repaid |-> 0, dueAt |-> day + c.tenor]
    BY DEF NewDraw, q, n
  <2>4. c.amount + q \in Nat /\ c.amount + q > 0 /\ day + c.tenor \in Nat
    BY <1>1, <1>2, <2>2
  <2>5. QED BY <1>2, <2>3, <2>4 DEF Rows
<1>5. line' \in Lines /\ line'.used = c.line.used + c.amount /\ line'.max = line.max
  <2>1. c.line.used + c.amount \in Nat
    BY <1>2, LineFields
  <2>2. line' = [line EXCEPT !.used = c.line.used + c.amount]
    BY DEF DrawWrites, UsedAfterDraw
  <2>3. QED BY <1>2, <2>1, <2>2 DEF Lines
<1>6. /\ past' \in Pasts /\ past'.high = past.high /\ past'.releases = past.releases
      /\ past'.lost = (past.lost \/ line.used # c.line.used)
  <2> DEFINE lost == past.lost \/ line.used # c.line.used
  <2>1. past' = [past EXCEPT !.lost = lost] /\ lost \in BOOLEAN
    BY DEF DrawWrites
  <2> HIDE DEF lost
  <2>2. /\ past' \in Pasts /\ past'.high = past.high /\ past'.releases = past.releases
        /\ past'.lost = lost
    BY <1>1, <2>1 DEF Pasts
  <2>3. QED BY <2>2 DEF lost
<1>7. QED BY <1>1, <1>2, <1>3, <1>4, <1>5, <1>6

LEMMA DrawWritesKeeps ==
    ASSUME BooksInv, NEW r \in Requests, DrawWrites(r) PROVE BooksInv'
<1>1. past \in Pasts /\ call \in [Requests -> Calls] /\ draws \in [Draws -> Rows]
  BY DEF BooksInv, LedgerTypeOK, Pasts
<1>2. /\ call' \in [Requests -> Calls] /\ call'[r] = Idle
      /\ \A q \in Requests \ {r} : call'[q] = call[q]
  BY <1>1, Ending DEF DrawWrites
<1>3. PICK c \in Calls, d \in Draws :
             /\ c = call[r] /\ c.amount \in Nat \ {0} /\ c.line \in Lines /\ line \in Lines
             /\ draws[d].status = "none" /\ draws' = [draws EXCEPT ![d] = NewDraw(c)]
             /\ NewDraw(c) \in Rows /\ NewDraw(c).due > 0 /\ NewDraw(c).status = "ACTIVE"
             /\ NewDraw(c).amount = c.amount /\ NewDraw(c).repaid = 0
             /\ line' \in Lines /\ line'.used = c.line.used + c.amount /\ line'.max = line.max
             /\ past' \in Pasts /\ past'.high = past.high /\ past'.releases = past.releases
             /\ past'.lost = (past.lost \/ line.used # c.line.used)
             /\ c.line.used + c.amount <= c.line.max /\ c.line.max <= past.high
             /\ LineSeen(c.line)
  BY Drawing
<1> PICK row : row = NewDraw(c)
  OBVIOUS
<1>4. /\ row \in Rows /\ row.due > 0 /\ row.status = "ACTIVE" /\ row.amount = c.amount
      /\ row.repaid = 0 /\ draws' = [draws EXCEPT ![d] = row]
  BY <1>3
<1>5. draws' \in [Draws -> Rows] /\ draws'[d] = row /\ \A e \in Draws \ {d} : draws'[e] = draws[e]
  BY <1>1, <1>4
<1>6. LedgerTypeOK'
  BY <1>2, <1>3, <1>5 DEF BooksInv, LedgerTypeOK, DrawWrites, Pasts
<1>7. AmountsDrawn' = AmountsDrawn + c.amount /\ AmountsDrawn \in Int
  <2>1. draws[d].amount = 0
    BY <1>3 DEF BooksInv, RowsOK, RowOK
  <2>2. QED BY <1>1, <1>4, <2>1, AmountsGrow, AmountsTyped
<1>8. RowsKept
  BY <1>3, <1>5 DEF RowsKept
<1>9. /\ AmountsDrawn' >= AmountsDrawn /\ past'.high >= past.high /\ line' # NoLine
      /\ past.high \in Nat
  BY <1>1, <1>3, <1>7, LineFields, PastFields
<1>10. CallOK(call[r])'
  BY <1>2 DEF CallOK, Idle
<1>11. \A q \in Requests : CallOK(call[q])'
  BY <1>2, <1>6, <1>8, <1>9, <1>10, SnapshotsStand
<1>12. RowsOK'
  <2>1. RowOK(row)
    BY <1>3, <1>4, RowFields DEF RowOK
  <2>2. RowOK(draws'[d]) /\ \A e \in Draws \ {d} : RowOK(draws'[e])
    BY <1>5, <2>1 DEF BooksInv, RowsOK
  <2>3. QED BY <2>2 DEF RowsOK, RowOK
<1>13. LineOK'
  <2>1. /\ line.max <= past.high /\ c.line.used <= AmountsDrawn /\ c.line.used \in Nat
        /\ c.line.max \in Nat
    BY <1>3, LineFields DEF BooksInv, LineOK, LineSeen
  <2>2. line'.max <= past'.high /\ line'.used <= past'.high /\ line'.used <= AmountsDrawn'
    BY <1>3, <1>7, <1>9, <2>1
  <2>3. QED BY <1>9, <2>2 DEF LineOK, LineSeen
<1>14. SweepOK'
  BY <1>8 DEF BooksInv, SweepOK, DrawWrites, RowsKept, LedgerTypeOK
<1>15. QED BY <1>6, <1>11, <1>12, <1>13, <1>14 DEF BooksInv

\* What the line shows less after a repayment.
Released(c) == Quantized(c.amount * c.row.amount, c.row.due)

\* The row and the line after a repayment.
LEMMA Repaying ==
    ASSUME BooksInv, NEW r \in Requests, RepayWrites(r)
    PROVE  \E c \in Calls :
             /\ c = call[r] /\ c.draw \in Draws /\ c.amount \in Nat \ {0}
             /\ c.row \in Rows /\ c.line \in Lines /\ line \in Lines
             /\ DrawSeen(c) /\ LineSeen(c.line)
             /\ c.row.due > 0 /\ Released(c) \in Nat
             /\ draws' = [draws EXCEPT ![c.draw] = Repaid(draws[c.draw], c)]
             /\ Repaid(draws[c.draw], c) \in Rows
             /\ Repaid(draws[c.draw], c).repaid = c.row.repaid + c.amount
             /\ Repaid(draws[c.draw], c).due = draws[c.draw].due
             /\ Repaid(draws[c.draw], c).amount = draws[c.draw].amount
             /\ Repaid(draws[c.draw], c).status =
                  IF c.row.repaid + c.amount >= c.row.due THEN "REPAID" ELSE draws[c.draw].status
             /\ line' \in Lines /\ line'.max = line.max
             /\ line'.used = line.used \/ line'.used <= c.line.used
             /\ line.used = c.line.used =>
                  line'.used = IF 0 <= line.used - Released(c) THEN line.used - Released(c) ELSE 0
             /\ past' \in Pasts /\ past'.high = past.high
             /\ past'.lost =
                  (past.lost \/ draws[c.draw].repaid # c.row.repaid \/ line.used # c.line.used)
             /\ past'.releases = IF past'.lost THEN 0 ELSE past.releases + 1
<1> PICK c : c = call[r]
  OBVIOUS
<1>1. /\ c \in Calls /\ c.at = "releasing" /\ CallOK(c) /\ past \in Pasts
      /\ line \in Lines \cup {NoLine} /\ draws \in [Draws -> Rows]
  BY DEF BooksInv, LedgerTypeOK, RepayWrites, Pasts
<1>2. /\ c.draw \in Draws /\ c.amount \in Nat \ {0} /\ c.row \in Rows /\ c.line \in Lines
      /\ line \in Lines /\ DrawSeen(c) /\ LineSeen(c.line)
  BY <1>1, CallFields, LedgerAssumption DEF CallOK
<1>3. c.row.due > 0 /\ draws[c.draw] \in Rows
  BY <1>1, <1>2 DEF DrawSeen, BooksInv, RowsOK, RowOK
<1>4. Released(c) \in Nat
  <2>1. \A x, y \in Nat : x * y \in Nat
    OBVIOUS
  <2>2. c.amount * c.row.amount \in Nat /\ c.row.due \in Nat \ {0}
    BY <1>2, <1>3, <2>1, RowFields
  <2>3. QED BY <2>2, QuantizedBounds DEF Released
<1>5. draws' = [draws EXCEPT ![c.draw] = Repaid(draws[c.draw], c)]
  BY DEF RepayWrites
<1>6. /\ Repaid(draws[c.draw], c) \in Rows
      /\ Repaid(draws[c.draw], c).repaid = c.row.repaid + c.amount
      /\ Repaid(draws[c.draw], c).due = draws[c.draw].due
      /\ Repaid(draws[c.draw], c).amount = draws[c.draw].amount
      /\ Repaid(draws[c.draw], c).status =
           IF c.row.repaid + c.amount >= c.row.due THEN "REPAID" ELSE draws[c.draw].status
  <2> DEFINE n == c.row.repaid + c.amount
             t == IF n >= c.row.due THEN "REPAID" ELSE draws[c.draw].status
  <2>1. n \in Nat /\ t \in Statuses
    BY <1>2, <1>3, RowFields DEF Statuses
  <2>2. Repaid(draws[c.draw], c) = [draws[c.draw] EXCEPT !.repaid = n, !.status = t]
    BY DEF Repaid
  <2>3. t = IF n >= c.row.due THEN "REPAID" ELSE draws[c.draw].status
    OBVIOUS
  <2> HIDE DEF t
  <2>4. /\ Repaid(draws[c.draw], c) \in Rows
        /\ Repaid(draws[c.draw], c).repaid = n
        /\ Repaid(draws[c.draw], c).due = draws[c.draw].due
        /\ Repaid(draws[c.draw], c).amount = draws[c.draw].amount
        /\ Repaid(draws[c.draw], c).status = t
    BY <1>3, <2>1, <2>2 DEF Rows, Statuses
  <2>5. QED BY <2>3, <2>4
<1>7. /\ line' \in Lines /\ line'.max = line.max
      /\ line'.used = line.used \/ line'.used <= c.line.used
      /\ line.used = c.line.used =>
           line'.used = IF 0 <= line.used - Released(c) THEN line.used - Released(c) ELSE 0
  <2> DEFINE u == UsedAfterRelease(c)
             n == Column(line.used, c.line.used, u)
  <2>1. u = IF 0 <= c.line.used - Released(c) THEN c.line.used - Released(c) ELSE 0
    <3>1. c.line.used - Released(c) \in Int
      BY <1>2, <1>4, LineFields
    <3>2. QED BY <3>1, MaxOfTwo DEF UsedAfterRelease, Released
  <2>2. u \in Nat /\ u <= c.line.used
    BY <1>2, <1>4, <2>1, LineFields
  <2>3. n \in Nat /\ (n = line.used \/ n = u) /\ (line.used = c.line.used => n = u)
    BY <1>2, <2>2, LineFields DEF Column
  <2>4. line' = [line EXCEPT !.used = n]
    BY DEF RepayWrites
  <2> HIDE DEF u, n
  <2>5. line' \in Lines /\ line'.max = line.max /\ line'.used = n
    BY <1>2, <2>3, <2>4 DEF Lines
  <2>6. QED BY <2>1, <2>2, <2>3, <2>5
<1>8. /\ past' \in Pasts /\ past'.high = past.high
      /\ past'.lost =
           (past.lost \/ draws[c.draw].repaid # c.row.repaid \/ line.used # c.line.used)
      /\ past'.releases = IF past'.lost THEN 0 ELSE past.releases + 1
  <2> DEFINE lost == past.lost \/ draws[c.draw].repaid # c.row.repaid \/ line.used # c.line.used
             n == IF lost THEN 0 ELSE past.releases + 1
  <2>1. lost \in BOOLEAN /\ n \in Nat
    BY <1>1, PastFields
  <2>2. past' = [past EXCEPT !.lost = lost, !.releases = n]
    BY DEF RepayWrites
  <2>3. n = IF lost THEN 0 ELSE past.releases + 1
    OBVIOUS
  <2> HIDE DEF lost, n
  <2>4. past' \in Pasts /\ past'.high = past.high /\ past'.lost = lost /\ past'.releases = n
    BY <1>1, <2>1, <2>2 DEF Pasts
  <2>5. QED BY <2>3, <2>4 DEF lost
<1>9. QED BY <1>1, <1>2, <1>3, <1>4, <1>5, <1>6, <1>7, <1>8

LEMMA RepayWritesKeeps ==
    ASSUME BooksInv, NEW r \in Requests, RepayWrites(r) PROVE BooksInv'
<1>1. past \in Pasts /\ call \in [Requests -> Calls] /\ draws \in [Draws -> Rows]
  BY DEF BooksInv, LedgerTypeOK, Pasts
<1>2. /\ call' \in [Requests -> Calls] /\ call'[r] = Idle
      /\ \A q \in Requests \ {r} : call'[q] = call[q]
  BY <1>1, Ending DEF RepayWrites
<1>3. PICK c \in Calls :
             /\ c = call[r] /\ c.draw \in Draws /\ c.amount \in Nat \ {0}
             /\ c.row \in Rows /\ c.line \in Lines /\ line \in Lines
             /\ DrawSeen(c) /\ LineSeen(c.line)
             /\ c.row.due > 0 /\ Released(c) \in Nat
             /\ draws' = [draws EXCEPT ![c.draw] = Repaid(draws[c.draw], c)]
             /\ Repaid(draws[c.draw], c) \in Rows
             /\ Repaid(draws[c.draw], c).repaid = c.row.repaid + c.amount
             /\ Repaid(draws[c.draw], c).due = draws[c.draw].due
             /\ Repaid(draws[c.draw], c).amount = draws[c.draw].amount
             /\ Repaid(draws[c.draw], c).status =
                  IF c.row.repaid + c.amount >= c.row.due THEN "REPAID" ELSE draws[c.draw].status
             /\ line' \in Lines /\ line'.max = line.max
             /\ line'.used = line.used \/ line'.used <= c.line.used
             /\ line.used = c.line.used =>
                  line'.used = IF 0 <= line.used - Released(c) THEN line.used - Released(c) ELSE 0
             /\ past' \in Pasts /\ past'.high = past.high
             /\ past'.lost =
                  (past.lost \/ draws[c.draw].repaid # c.row.repaid \/ line.used # c.line.used)
             /\ past'.releases = IF past'.lost THEN 0 ELSE past.releases + 1
  BY Repaying
<1> PICK row : row = Repaid(draws[c.draw], c)
  OBVIOUS
<1> PICK d : d = c.draw
  OBVIOUS
<1>4. /\ d \in Draws /\ row \in Rows /\ draws' = [draws EXCEPT ![d] = row]
      /\ row.repaid <= row.due /\ row.due = draws[d].due /\ row.amount = draws[d].amount
      /\ row.status # "none" /\ draws[d].status # "none"
  BY <1>3 DEF DrawSeen
<1>5. draws' \in [Draws -> Rows] /\ draws'[d] = row /\ \A e \in Draws \ {d} : draws'[e] = draws[e]
  BY <1>1, <1>4
<1>6. LedgerTypeOK'
  BY <1>2, <1>3, <1>5 DEF BooksInv, LedgerTypeOK, RepayWrites, Pasts
<1>7. AmountsDrawn' = AmountsDrawn /\ AmountsDrawn \in Int
  BY <1>1, <1>4, <1>5, AmountsSame, AmountsTyped
<1>8. RowsKept
  BY <1>4, <1>5 DEF RowsKept
<1>9. /\ AmountsDrawn' >= AmountsDrawn /\ past'.high >= past.high /\ line' # NoLine
      /\ past.high \in Nat
  BY <1>1, <1>3, <1>7, LineFields, PastFields
<1>10. CallOK(call[r])'
  BY <1>2 DEF CallOK, Idle
<1>11. \A q \in Requests : CallOK(call[q])'
  BY <1>2, <1>6, <1>8, <1>9, <1>10, SnapshotsStand
<1>12. RowsOK'
  <2>1. RowOK(draws[d])
    BY <1>4 DEF BooksInv, RowsOK
  <2>2. RowOK(row)
    BY <1>4, <2>1 DEF RowOK
  <2>3. RowOK(draws'[d]) /\ \A e \in Draws \ {d} : RowOK(draws'[e])
    BY <1>5, <2>2 DEF BooksInv, RowsOK
  <2>4. QED BY <2>3 DEF RowsOK, RowOK
<1>13. LineOK'
  <2>1. /\ line.max <= past.high /\ line.used <= past.high /\ line.used <= AmountsDrawn
        /\ c.line.used <= past.high /\ c.line.used <= AmountsDrawn
        /\ line.used \in Nat /\ c.line.used \in Nat /\ line'.used \in Nat
    BY <1>3, LineFields DEF BooksInv, LineOK, LineSeen
  <2>2. line'.max <= past'.high /\ line'.used <= past'.high /\ line'.used <= AmountsDrawn'
    BY <1>3, <1>7, <1>9, <2>1
  <2>3. QED BY <1>9, <2>2 DEF LineOK, LineSeen
<1>14. SweepOK'
  BY <1>8 DEF BooksInv, SweepOK, RepayWrites, RowsKept, LedgerTypeOK
<1>15. QED BY <1>6, <1>11, <1>12, <1>13, <1>14 DEF BooksInv

LEMMA SweepFindsLateKeeps ==
    ASSUME BooksInv, SweepFindsLate PROVE BooksInv'
<1>1. day \in Nat
  BY DEF BooksInv, LedgerTypeOK
<1>2. sweep' \in Sweeps /\ sweep'.todo = {} /\ sweep'.marked = {}
  BY <1>1 DEF SweepFindsLate, Resting, Sweeps
<1>3. LedgerTypeOK'
  BY <1>2 DEF BooksInv, LedgerTypeOK, SweepFindsLate, Sweeps
<1>4. SweepOK'
  BY <1>2 DEF SweepOK
<1>5. QED BY <1>3, <1>4, ReadingKeeps DEF SweepFindsLate

LEMMA SweepFindsDefaultsKeeps ==
    ASSUME BooksInv, SweepFindsDefaults PROVE BooksInv'
<1> DEFINE found == {d \in Draws : DefaultedBy(d, sweep.day)}
<1>1. sweep \in Sweeps
  BY DEF BooksInv, LedgerTypeOK, Sweeps
<1>2. sweep' = [sweep EXCEPT !.at = "marking", !.todo = found] /\ found \in SUBSET Draws
  BY DEF SweepFindsDefaults
<1>3. \A d \in found : draws[d].status # "none"
  BY DEF DefaultedBy
<1> HIDE DEF found
<1>4. /\ sweep' \in Sweeps /\ sweep'.at = "marking"
      /\ sweep'.todo = found /\ sweep'.marked = sweep.marked
  BY <1>1, <1>2 DEF Sweeps
<1>5. LedgerTypeOK'
  BY <1>4 DEF BooksInv, LedgerTypeOK, SweepFindsDefaults, Sweeps
<1>6. SweepOK'
  BY <1>3, <1>4 DEF BooksInv, SweepOK, SweepFindsDefaults
<1>7. QED BY <1>5, <1>6, ReadingKeeps DEF SweepFindsDefaults

LEMMA SweepMarksKeeps ==
    ASSUME BooksInv, NEW d \in Draws, SweepMarks(d) PROVE BooksInv'
<1>1. sweep \in Sweeps
  BY DEF BooksInv, LedgerTypeOK, Sweeps
<1>2. sweep' = [sweep EXCEPT !.marked = sweep.marked \cup {d}]
  BY DEF SweepMarks
<1>3. sweep.marked \cup {d} \in SUBSET Draws
  BY <1>1 DEF Sweeps
<1>4. /\ sweep' \in Sweeps /\ sweep'.at = sweep.at
      /\ sweep'.todo = sweep.todo /\ sweep'.marked = sweep.marked \cup {d}
  BY <1>1, <1>2, <1>3 DEF Sweeps
<1>5. LedgerTypeOK'
  BY <1>4 DEF BooksInv, LedgerTypeOK, SweepMarks, Sweeps
<1>6. SweepOK'
  BY <1>4 DEF BooksInv, SweepOK, SweepMarks
<1>7. QED BY <1>5, <1>6, ReadingKeeps DEF SweepMarks

LEMMA RestingTyped == Resting \in Sweeps /\ Resting.todo = {} /\ Resting.marked = {}
  BY DEF Resting, Sweeps

LEMMA SweepFailsKeeps ==
    ASSUME BooksInv, SweepFails PROVE BooksInv'
<1>1. past \in Pasts
  BY DEF BooksInv, LedgerTypeOK, Pasts
<1>2. past' \in Pasts /\ past'.high = past.high /\ past'.releases = past.releases
  BY <1>1, Spending DEF SweepFails
<1>3. sweep' \in Sweeps /\ sweep'.todo = {} /\ sweep'.marked = {}
  BY RestingTyped DEF SweepFails, AfterFailure
<1>4. LedgerTypeOK'
  BY <1>2, <1>3 DEF BooksInv, LedgerTypeOK, SweepFails, Sweeps, Pasts
<1>5. SweepOK'
  BY <1>3 DEF SweepOK
<1>6. QED BY <1>2, <1>4, <1>5, ReadingKeeps DEF SweepFails

\* A sweep that commits changes the status of rows that are there, and nothing they owe.
LEMMA Marking ==
    ASSUME BooksInv, SweepCommits
    PROVE  /\ draws' \in [Draws -> Rows]
           /\ \A d \in Draws :
                /\ draws'[d].due = draws[d].due /\ draws'[d].amount = draws[d].amount
                /\ draws'[d].repaid = draws[d].repaid
                /\ draws'[d].status = draws[d].status
                   \/ (draws'[d].status = "DEFAULTED" /\ draws[d].status # "none")
           /\ RowsKept
<1>1. draws \in [Draws -> Rows] /\ \A d \in sweep.marked : draws[d].status # "none"
  BY DEF BooksInv, LedgerTypeOK, SweepOK
<1>2. ASSUME NEW d \in Draws
      PROVE  /\ draws'[d] \in Rows
             /\ draws'[d].due = draws[d].due /\ draws'[d].amount = draws[d].amount
             /\ draws'[d].repaid = draws[d].repaid
             /\ draws'[d].status = draws[d].status
                \/ (draws'[d].status = "DEFAULTED" /\ draws[d].status # "none")
  <2>1. CASE d \in sweep.marked
    <3>1. draws'[d] = [draws[d] EXCEPT !.status = "DEFAULTED"] /\ draws[d] \in Rows
      BY <1>1, <2>1 DEF SweepCommits
    <3>2. QED BY <1>1, <2>1, <3>1 DEF Rows
  <2>2. CASE d \notin sweep.marked
    BY <1>1, <2>2 DEF SweepCommits
  <2>3. QED BY <2>1, <2>2
<1>3. draws' \in [Draws -> Rows]
  <2>1. draws' = [d \in Draws |-> draws'[d]]
    BY DEF SweepCommits
  <2>2. QED BY <1>2, <2>1
<1>4. RowsKept
  BY <1>2 DEF RowsKept
<1>5. QED BY <1>2, <1>3, <1>4

LEMMA SweepCommitsKeeps ==
    ASSUME BooksInv, SweepCommits PROVE BooksInv'
<1>1. sweep' \in Sweeps /\ sweep'.todo = {} /\ sweep'.marked = {}
  BY RestingTyped DEF SweepCommits
<1>2. agent' \in {"ACTIVE", "DELINQUENT", "DEFAULTED"}
      /\ alerts' \subseteq {"Payment overdue", "Credit default"}
  BY DEF BooksInv, LedgerTypeOK, SweepCommits, AgentAfterSweep
<1>3. LedgerTypeOK'
  BY <1>1, <1>2, Marking DEF BooksInv, LedgerTypeOK, SweepCommits, Sweeps
<1>4. AmountsDrawn' = AmountsDrawn /\ AmountsDrawn \in Int /\ past.high \in Nat
  BY Marking, AmountsSame, AmountsTyped, PastFields DEF BooksInv, LedgerTypeOK, Pasts
<1>5. line' = line /\ past' = past /\ call' = call
  BY DEF SweepCommits
<1>6. AmountsDrawn' >= AmountsDrawn /\ past'.high >= past.high
  BY <1>4, <1>5
<1>7. \A r \in Requests : CallOK(call[r])'
  BY <1>3, <1>5, <1>6, Marking, SnapshotsStand
<1>8. RowsOK'
  <2>1. \A d \in Draws : RowOK(draws[d])
    BY DEF BooksInv, RowsOK
  <2>2. \A d \in Draws : RowOK(draws'[d])
    BY <2>1, Marking DEF RowOK
  <2>3. QED BY <2>2 DEF RowsOK, RowOK
<1>9. LineOK'
  <2>1. line # NoLine => line'.max <= past'.high /\ line'.used <= past'.high
                         /\ line'.used <= AmountsDrawn'
    BY <1>4, <1>5 DEF BooksInv, LineOK, LineSeen
  <2>2. line = NoLine => past'.releases = 0 /\ \A d \in Draws : draws'[d].status = "none"
    BY <1>5, Marking DEF BooksInv, LineOK
  <2>3. QED BY <1>5, <2>1, <2>2 DEF LineOK, LineSeen
<1>10. SweepOK'
  BY <1>1 DEF SweepOK
<1>11. QED BY <1>3, <1>7, <1>8, <1>9, <1>10 DEF BooksInv

LEMMA TickKeeps ==
    ASSUME BooksInv, Tick PROVE BooksInv'
<1>1. past \in Pasts
  BY DEF BooksInv, LedgerTypeOK, Pasts
<1>2. past' \in Pasts /\ past'.high = past.high /\ past'.releases = past.releases
  BY <1>1, Spending DEF Tick
<1>3. LedgerTypeOK'
  <2>1. day' \in Nat
    <3>1. day \in Nat
      BY DEF BooksInv, LedgerTypeOK
    <3>2. day' = day + 1
      BY DEF Tick
    <3>3. QED BY <3>1, <3>2
  <2>2. QED BY <1>2, <2>1 DEF BooksInv, LedgerTypeOK, Tick, Pasts
<1>4. SweepOK'
  BY DEF BooksInv, SweepOK, Tick
<1>5. QED BY <1>2, <1>3, <1>4, ReadingKeeps DEF Tick

\* Nothing happens.
LEMMA BooksStand ==
    ASSUME BooksInv, UNCHANGED ledgerVars PROVE BooksInv'
<1>1. LedgerTypeOK' /\ SweepOK'
  BY DEF BooksInv, LedgerTypeOK, SweepOK, ledgerVars
<1>2. QED BY <1>1, ReadingKeeps DEF ledgerVars

\* Every step keeps the books.
LEMMA BooksStep == BooksInv /\ [LedgerNext]_ledgerVars => BooksInv'
<1> SUFFICES ASSUME BooksInv, [LedgerNext]_ledgerVars PROVE BooksInv'
  OBVIOUS
<1>1. ASSUME NEW r \in Requests, Request(r) PROVE BooksInv'
  BY <1>1, ScoreReadsKeeps, DrawReadsKeeps, RepayReadsKeeps DEF Request
<1>2. ASSUME NEW r \in Requests, Serving(r) PROVE BooksInv'
  BY <1>2, ScoreWritesKeeps, DrawWritesKeeps, RepayFlushesKeeps, RepayWritesKeeps DEF Serving
<1>3. ASSUME NEW r \in Requests, RequestFails(r) PROVE BooksInv'
  BY <1>3, RequestFailsKeeps
<1>4. CASE Sweeping
  BY <1>4, SweepFindsLateKeeps, SweepFindsDefaultsKeeps, SweepCommitsKeeps, SweepMarksKeeps
     DEF Sweeping
<1>5. CASE SweepFails
  BY <1>5, SweepFailsKeeps
<1>6. CASE Tick
  BY <1>6, TickKeeps
<1>7. CASE UNCHANGED ledgerVars
  BY <1>7, BooksStand
<1>8. QED BY <1>1, <1>2, <1>3, <1>4, <1>5, <1>6, <1>7 DEF LedgerNext

\* The invariant of the books holds in every behaviour.
THEOREM BooksAlways == LedgerSpec => []BooksInv
  BY BooksStart, BooksStep, PTL DEF LedgerSpec

\* The rows, and what every request and sweep has read of them, keep their types: an
\* update computed from a snapshot never writes a negative sum, and a score that finds
\* no line when it reads finds the columns of one when it writes.
THEOREM LedgerTyped == LedgerSpec => []LedgerTypeOK
<1>1. BooksInv => LedgerTypeOK
  BY DEF BooksInv
<1>2. QED BY <1>1, BooksAlways, PTL

\* A draw that was repaid or defaulted is never active again, and becomes REPAID only with
\* all that is due, whatever repayments and sweeps overlap (repay_credit's status test,
\* _check_defaults); an agent's standing only falls.
THEOREM Settled == LedgerSpec => SettledStaysSettled
<1> DEFINE SettledDraw(d) ==
             /\ draws[d].status \in {"REPAID", "DEFAULTED"} =>
                    draws'[d].status \in {"REPAID", "DEFAULTED"}
             /\ draws'[d].status = "REPAID" /\ draws[d].status # "REPAID" =>
                    draws'[d].repaid = draws'[d].due
           Settles == Falls(agent, agent') /\ \A d \in Draws : SettledDraw(d)
<1>1. ASSUME draws' = draws, agent' = agent PROVE Settles
  BY <1>1 DEF Falls
<1>2. ASSUME BooksInv, NEW r \in Requests, DrawWrites(r) PROVE Settles
  <2>1. PICK d \in Draws :
          draws[d].status = "none" /\ draws' = [draws EXCEPT ![d] = NewDraw(call[r])]
    BY <1>2 DEF DrawWrites
  <2>2. draws \in [Draws -> Rows] /\ NewDraw(call[r]).status = "ACTIVE"
    BY <1>2 DEF BooksInv, LedgerTypeOK, NewDraw
  <2>3. \A e \in Draws : SettledDraw(e)
    BY <2>1, <2>2
  <2>4. Falls(agent, agent')
    BY <1>2 DEF DrawWrites, Falls
  <2>5. QED BY <2>3, <2>4
<1>3. ASSUME BooksInv, NEW r \in Requests, RepayWrites(r) PROVE Settles
  <2>1. PICK c \in Calls :
          /\ c.draw \in Draws /\ c.amount \in Nat /\ c.row \in Rows /\ DrawSeen(c)
          /\ draws' = [draws EXCEPT ![c.draw] = Repaid(draws[c.draw], c)]
          /\ Repaid(draws[c.draw], c).repaid = c.row.repaid + c.amount
          /\ Repaid(draws[c.draw], c).due = draws[c.draw].due
          /\ Repaid(draws[c.draw], c).status =
               IF c.row.repaid + c.amount >= c.row.due THEN "REPAID" ELSE draws[c.draw].status
    BY <1>3, Repaying
  <2> PICK row : row = Repaid(draws[c.draw], c)
    OBVIOUS
  <2>2. /\ row.repaid = c.row.repaid + c.amount /\ row.due = draws[c.draw].due
        /\ row.status =
             IF c.row.repaid + c.amount >= c.row.due THEN "REPAID" ELSE draws[c.draw].status
        /\ draws \in [Draws -> Rows] /\ draws' = [draws EXCEPT ![c.draw] = row]
    BY <1>3, <2>1 DEF BooksInv, LedgerTypeOK
  <2>3. draws'[c.draw] = row /\ \A e \in Draws \ {c.draw} : draws'[e] = draws[e]
    BY <2>1, <2>2
  <2>4. SettledDraw(c.draw)
    <3>1. c.row.repaid + c.amount <= c.row.due /\ c.row.due = draws[c.draw].due
      BY <2>1 DEF DrawSeen
    <3>2. c.row.repaid \in Nat /\ c.row.due \in Nat /\ c.amount \in Nat
      BY <2>1, RowFields
    <3>3. row.status = "REPAID" /\ draws[c.draw].status # "REPAID" => row.repaid = row.due
      BY <2>2, <3>1, <3>2
    <3>4. QED BY <2>2, <2>3, <3>3
  <2>5. Falls(agent, agent')
    BY <1>3 DEF RepayWrites, Falls
  <2>6. QED BY <2>3, <2>4, <2>5
<1>4. ASSUME BooksInv, SweepCommits PROVE Settles
  <2>1. \A d \in Draws : SettledDraw(d)
    BY <1>4, Marking
  <2>2. Falls(agent, agent')
    BY <1>4 DEF BooksInv, LedgerTypeOK, SweepCommits, AgentAfterSweep, Falls
  <2>3. QED BY <2>1, <2>2
<1>5. BooksInv /\ [LedgerNext]_ledgerVars => Settles
  <2> SUFFICES ASSUME BooksInv, [LedgerNext]_ledgerVars PROVE Settles
    OBVIOUS
  <2> HIDE DEF Settles
  <2>1. \/ \E r \in Requests : DrawWrites(r) \/ RepayWrites(r)
        \/ SweepCommits
        \/ draws' = draws /\ agent' = agent
    BY DEF LedgerNext, Request, Serving, Sweeping, ScoreReads, DrawReads, RepayReads, ScoreWrites,
           RepayFlushes, RequestFails, SweepFindsLate, SweepFindsDefaults, SweepMarks, SweepFails,
           Tick, ledgerVars
  <2>2. QED BY <1>1, <1>2, <1>3, <1>4, <2>1
<1>6. BooksInv /\ [LedgerNext]_ledgerVars => [Settles]_ledgerVars
  BY <1>5
<1>7. QED BY <1>6, BooksAlways, PTL DEF LedgerSpec, SettledStaysSettled

-----------------------------------------------------------------------------
(* The line follows the debts. *)

\* Products of naturals.
LEMMA NaturalProduct ==
    ASSUME NEW a \in Nat, NEW b \in Nat PROVE a * b \in Nat /\ a * 1 = a
<1>1. a * b \in Nat
  OBVIOUS
<1>2. a * 1 = a
  OBVIOUS
<1>3. QED BY <1>1, <1>2

\* A product over a difference of four.
LEMMA DistributesOver ==
    ASSUME NEW D \in Int, NEW a \in Int, NEW b \in Int, NEW c \in Int, NEW e \in Int
    PROVE  D * (a - b - c - e) = D * a - D * b - D * c - D * e
<1>1. D * (a - b - c - e) = D * (a - b - c) - D * e
  <2>1. \A x \in Int : D * (x - e) = D * x - D * e
    BY Distributes
  <2>2. a - b - c \in Int
    OBVIOUS
  <2>3. QED BY <2>1, <2>2
<1>2. D * (a - b - c) = D * (a - b) - D * c
  <2>1. \A x \in Int : D * (x - c) = D * x - D * c
    BY Distributes
  <2>2. a - b \in Int
    OBVIOUS
  <2>3. QED BY <2>1, <2>2
<1>3. D * (a - b) = D * a - D * b
  BY Distributes
<1>4. QED BY <1>1, <1>2, <1>3

\* Factors of a product that is not positive.
LEMMA Cancels ==
    ASSUME NEW D \in Nat \ {0}, NEW z \in Int, D * z <= 0
    PROVE  z <= 0
<1> SUFFICES ASSUME z > 0 PROVE FALSE
  OBVIOUS
<1> PICK y \in Nat : z = y + 1
  <2>1. z - 1 \in Nat /\ z = (z - 1) + 1
    OBVIOUS
  <2>2. QED BY <2>1
<1>1. D * (y + 1) = D * y + D * 1
  BY Distributes
<1>2. D * y \in Nat /\ D * 1 = D
  BY NaturalProduct
<1>3. D * z >= D
  <2> PICK m \in Nat : m = D * y
    BY <1>2
  <2>1. D * z = m + D
    BY <1>1, <1>2
  <2>2. QED BY <2>1
<1>4. QED BY <1>3

\* A part x of what is due is repaid, and q of the principal released: the row's bounds
\* move by q, and may be off by half a unit more.
LEMMA BoundsAfterRelease ==
    ASSUME NEW row \in Rows, NEW new \in Rows, NEW x \in Nat, NEW q \in Nat,
           NEW k \in Int, NEW low \in Int, NEW high \in Int, Bounds(row, k, low, high),
           new.status # "none", new.due = row.due, new.amount = row.amount,
           new.repaid = row.repaid + x, new.repaid <= new.due,
           2 * (row.due * q) <= 2 * (x * row.amount) + row.due,
           2 * (row.due * q) >= 2 * (x * row.amount) - row.due
    PROVE  Bounds(new, k + 1, low - q, IF high - q >= 0 THEN high - q ELSE 0)
<1>D. PICK D \in Nat : D = row.due
  BY RowFields
<1>A. PICK A \in Nat : A = row.amount
  BY RowFields
<1>R. PICK R \in Int : R = Remaining(row)
  BY RowFields DEF Remaining
<1>1. Remaining(new) = R - x /\ R - x >= 0 /\ new.due = D /\ new.amount = A
  BY <1>D, <1>A, <1>R, RowFields DEF Remaining
<1>m. PICK m \in Int : m = A * R
  OBVIOUS
<1>n. PICK n \in Int : n = x * A
  OBVIOUS
<1>h. PICK h \in Int : h = D * high
  OBVIOUS
<1>l. PICK l \in Int : l = D * low
  OBVIOUS
<1>s. PICK s \in Int : s = D * q
  OBVIOUS
<1>e. PICK e \in Int : e = k * D
  OBVIOUS
<1>2. /\ k >= 0 /\ high >= 0
      /\ 2 * h <= 2 * m + e /\ 2 * l >= 2 * m - e
      /\ 2 * s <= 2 * n + D /\ 2 * s >= 2 * n - D
  BY <1>D, <1>A, <1>R, <1>m, <1>n, <1>h, <1>l, <1>s, <1>e DEF Bounds
<1>3. A * (R - x) = m - n
  <2>1. A * (R - x) = A * R - A * x
    BY Distributes
  <2>2. A * x = x * A
    BY Distributes
  <2>3. QED BY <1>m, <1>n, <2>1, <2>2
<1>4. A * (R - x) >= 0 /\ e >= 0
  <2>1. R - x \in Nat /\ k \in Nat
    BY <1>1, <1>2
  <2>2. A * (R - x) \in Nat /\ k * D \in Nat
    BY <2>1, NaturalProduct
  <2>3. QED BY <1>e, <2>2
<1>5. D * (high - q) = h - s /\ D * (low - q) = l - s
  <2>1. D * (high - q) = D * high - D * q /\ D * (low - q) = D * low - D * q
    BY Distributes
  <2>2. QED BY <1>h, <1>l, <1>s, <2>1
<1>6. (k + 1) * D = e + D
  <2>1. D * (k + 1) = D * k + D * 1
    BY Distributes
  <2>2. D * (k + 1) = (k + 1) * D /\ D * k = k * D /\ D * 1 = D
    BY Distributes, NaturalProduct
  <2>3. QED BY <1>e, <2>1, <2>2
<1>7. 2 * (h - s) <= 2 * (m - n) + (e + D) /\ 2 * (l - s) >= 2 * (m - n) - (e + D)
  BY <1>2
<1> DEFINE top == IF high - q >= 0 THEN high - q ELSE 0
<1>8. top \in Int /\ top >= 0 /\ k + 1 >= 0 /\ low - q \in Int
  BY <1>2
<1>9. 2 * (D * top) <= 2 * (m - n) + (e + D)
  <2>1. CASE high - q >= 0
    BY <1>5, <1>7, <2>1
  <2>2. CASE ~(high - q >= 0)
    <3>1. D * top = 0 /\ m - n >= 0
      <4>1. top = 0
        BY <2>2
      <4>2. QED BY <1>3, <1>4, <4>1
    <3>2. QED BY <1>4, <3>1
  <2>3. QED BY <2>1, <2>2
<1> HIDE DEF top
<1>10. Bounds(new, k + 1, low - q, top)
  <2>1. /\ 2 * (new.due * top) <= 2 * (new.amount * Remaining(new)) + (k + 1) * new.due
        /\ 2 * (new.due * (low - q)) >= 2 * (new.amount * Remaining(new)) - (k + 1) * new.due
    BY <1>1, <1>3, <1>5, <1>6, <1>7, <1>9
  <2>2. QED BY <1>8, <2>1 DEF Bounds
<1>11. QED BY <1>10 DEF top

\* A row's bounds are as close to its open principal as its releases allow, and half a
\* unit if it is partly repaid.
LEMMA BoundsAreClose ==
    ASSUME NEW d \in Draws, draws[d] \in Rows, RowOK(draws[d]),
           NEW k \in Int, NEW low \in Int, NEW high \in Int, Bounds(draws[d], k, low, high),
           NEW p \in {0, 1}, p = IF draws[d].repaid \in 1..(draws[d].due - 1) THEN 1 ELSE 0
    PROVE  /\ OpenPrincipal(d) \in Int
           /\ high + high <= OpenPrincipal(d) + OpenPrincipal(d) + (p + k)
           /\ OpenPrincipal(d) + OpenPrincipal(d) <= low + low + (p + k)
<1>1. CASE draws[d].status = "none"
  <2>1. OpenPrincipal(d) = 0 /\ p = 0 /\ k = 0 /\ low = 0 /\ high = 0
    BY <1>1 DEF OpenPrincipal, RowOK, Bounds
  <2>2. QED BY <2>1
<1>2. CASE draws[d].status # "none"
  <2>D. PICK D \in Nat : D = draws[d].due
    BY RowFields
  <2>A. PICK A \in Nat : A = draws[d].amount
    BY RowFields
  <2>P. PICK P \in Nat : P = draws[d].repaid
    BY RowFields
  <2>R. PICK R \in Int : R = D - P
    OBVIOUS
  <2>1. /\ D > 0 /\ D \in Nat \ {0} /\ P <= D /\ Remaining(draws[d]) = R
        /\ p = IF P \in 1..(D - 1) THEN 1 ELSE 0
    BY <1>2, <2>D, <2>P, <2>R DEF RowOK, Remaining
  <2>2. R \in Nat
    BY <2>1, <2>R
  <2>m. PICK m \in Nat : m = A * R
    BY <2>2, NaturalProduct
  <2>O. PICK O : O = Quantized(m, D)
    OBVIOUS
  <2>3. OpenPrincipal(d) = O
    BY <1>2, <2>D, <2>A, <2>1, <2>m, <2>O DEF OpenPrincipal
  <2>4. O \in Nat /\ 2 * (D * O) <= 2 * m + D /\ 2 * (D * O) >= 2 * m - D
    BY <2>1, <2>O, QuantizedBounds
  <2>o. PICK o \in Int : o = D * O
    BY <2>4
  <2>5. p = 0 => o = m
    <3>1. CASE P = 0
      <4>1. R = D /\ O = A
        BY <2>1, <2>R, <2>O, <2>m, <3>1, QuantizedExact
      <4>2. D * A = A * D
        BY Distributes
      <4>3. QED BY <2>o, <2>m, <4>1, <4>2
    <3>2. CASE P = D
      <4>1. R = 0
        BY <2>R, <3>2
      <4>2. m = 0 /\ 0 * D = 0
        BY <2>m, <4>1
      <4>3. O = 0
        BY <2>1, <2>O, <4>2, QuantizedExact
      <4>4. QED BY <2>o, <4>2, <4>3
    <3>3. CASE P \in 1..(D - 1)
      BY <2>1, <3>3
    <3>4. QED BY <2>1, <3>1, <3>2, <3>3
  <2>h. PICK h \in Int : h = D * high
    OBVIOUS
  <2>l. PICK l \in Int : l = D * low
    OBVIOUS
  <2>e. PICK e \in Int : e = k * D
    OBVIOUS
  <2>f. PICK f \in Int : f = D * p
    OBVIOUS
  <2>6. f = IF p = 0 THEN 0 ELSE D
    BY <2>f
  <2>7. 2 * h <= 2 * m + e /\ 2 * l >= 2 * m - e
    BY <2>D, <2>A, <2>1, <2>m, <2>h, <2>l, <2>e DEF Bounds
  <2>8. 2 * o <= 2 * m + D /\ 2 * o >= 2 * m - D
    BY <2>4, <2>o
  <2>9. 2 * h - 2 * o - f - e <= 0 /\ 2 * o - 2 * l - f - e <= 0
    BY <2>5, <2>6, <2>7, <2>8
  <2>10. /\ 2 * high - 2 * O - p - k \in Int /\ 2 * O - 2 * low - p - k \in Int
         /\ 2 * high \in Int /\ 2 * O \in Int /\ 2 * low \in Int /\ p \in Int
    BY <2>4
  <2>11. /\ D * (2 * high - 2 * O - p - k) = 2 * h - 2 * o - f - e
         /\ D * (2 * O - 2 * low - p - k) = 2 * o - 2 * l - f - e
    <3>1. /\ D * (2 * high - 2 * O - p - k) = D * (2 * high) - D * (2 * O) - D * p - D * k
          /\ D * (2 * O - 2 * low - p - k) = D * (2 * O) - D * (2 * low) - D * p - D * k
      <4>1. \A a, b \in Int : D * (a - b - p - k) = D * a - D * b - D * p - D * k
        BY <2>10, DistributesOver
      <4>2. 2 * high \in Int /\ 2 * O \in Int /\ 2 * low \in Int
        BY <2>10, Zenon
      <4>3. D * (2 * high - 2 * O - p - k) = D * (2 * high) - D * (2 * O) - D * p - D * k
        BY ONLY <4>1, <4>2, Zenon
      <4>4. D * (2 * O - 2 * low - p - k) = D * (2 * O) - D * (2 * low) - D * p - D * k
        BY ONLY <4>1, <4>2, Zenon
      <4>5. QED BY <4>3, <4>4, Zenon
    <3>2. D * k = e
      BY <2>e, Distributes
    <3>3. D * (2 * high) = 2 * h /\ D * (2 * O) = 2 * o /\ D * (2 * low) = 2 * l
      BY <2>4, <2>h, <2>o, <2>l
    <3>4. QED BY <2>f, <3>1, <3>2, <3>3
  <2>12. 2 * high - 2 * O - p - k <= 0 /\ 2 * O - 2 * low - p - k <= 0
    <3>1. /\ D * (2 * high - 2 * O - p - k) <= 0
          /\ D * (2 * O - 2 * low - p - k) <= 0
      BY <2>9, <2>11
    <3>2. QED BY <2>1, <2>10, <3>1, Cancels
  <2>13. QED BY <2>3, <2>4, <2>12
<1>3. QED BY <1>1, <1>2

LEMMA ReleasesStart == LedgerInit => ReleasesInv
<1> SUFFICES ASSUME LedgerInit PROVE ReleasesInv
  OBVIOUS
<1> DEFINE zero == [d \in Draws |-> 0]
<1>1. zero \in [Draws -> Int] /\ \A d \in Draws : zero[d] = 0
  OBVIOUS
<1>2. past.releases = 0 /\ line = NoLine
  BY DEF LedgerInit
<1>3. \A d \in Draws : Bounds(draws[d], 0, 0, 0)
  BY DEF LedgerInit, Bounds, Remaining
<1> HIDE DEF zero
<1>4. Total(zero) = 0
  BY <1>1, TotalZero
<1>5. Split(zero, zero, zero)
  BY <1>1, <1>2, <1>3, <1>4 DEF Split
<1>6. QED BY <1>1, <1>5 DEF ReleasesInv

\* A step that writes no amount of a row keeps its bounds.
LEMMA BoundsStand ==
    ASSUME NEW row \in Rows, NEW new \in Rows,
           new.due = row.due, new.amount = row.amount, new.repaid = row.repaid,
           new.status = "none" => row.status = "none",
           NEW k \in Int, NEW low \in Int, NEW high \in Int, Bounds(row, k, low, high)
    PROVE  Bounds(new, k, low, high)
<1>1. Remaining(new) = Remaining(row)
  BY DEF Remaining
<1>2. QED BY <1>1 DEF Bounds

\* A step that leaves the amounts and what is used.
LEMMA SplitStands ==
    ASSUME BooksInv, BooksInv', ReleasesInv, past'.lost = past.lost,
           past'.releases = past.releases,
           line' # NoLine => (line # NoLine /\ line'.used = line.used)
                             \/ (line = NoLine /\ line'.used = 0),
           \A d \in Draws : /\ draws'[d].due = draws[d].due /\ draws'[d].amount = draws[d].amount
                            /\ draws'[d].repaid = draws[d].repaid
                            /\ draws'[d].status = "none" => draws[d].status = "none"
    PROVE  ReleasesInv'
<1> SUFFICES ASSUME ~past.lost PROVE (\E k, low, high \in [Draws -> Int] : Split(k, low, high))'
  BY DEF ReleasesInv
<1>1. PICK k \in [Draws -> Int], low \in [Draws -> Int], high \in [Draws -> Int] :
        Split(k, low, high)
  BY DEF ReleasesInv
<1>2. draws \in [Draws -> Rows] /\ draws' \in [Draws -> Rows]
  BY DEF BooksInv, LedgerTypeOK
<1>3. \A d \in Draws : Bounds(draws'[d], k[d], low[d], high[d])
  <2>1. ASSUME NEW d \in Draws PROVE Bounds(draws'[d], k[d], low[d], high[d])
    <3>1. /\ k[d] \in Int /\ low[d] \in Int /\ high[d] \in Int
          /\ draws[d] \in Rows /\ draws'[d] \in Rows
      BY <1>2
    <3>2. Bounds(draws[d], k[d], low[d], high[d])
      BY <1>1 DEF Split
    <3>3. QED BY <3>1, <3>2, BoundsStand
  <2>2. QED BY <2>1
<1>4. line' # NoLine => Total(low) <= line'.used /\ line'.used <= Total(high)
  <2>1. CASE line # NoLine
    BY <1>1, <2>1 DEF Split
  <2>2. CASE line = NoLine
    <3>1. \A d \in Draws : low[d] = 0 /\ high[d] = 0
      BY <1>1, <2>2 DEF Split, Bounds, BooksInv, LineOK
    <3>2. Total(low) = 0 /\ Total(high) = 0
      BY <3>1, TotalZero
    <3>3. QED BY <2>2, <3>2
  <2>3. QED BY <2>1, <2>2
<1>5. Total(k) = past'.releases
  BY <1>1 DEF Split
<1>6. Split(k, low, high)'
  BY <1>3, <1>4, <1>5 DEF Split, Bounds, Remaining
<1>7. QED BY <1>6

\* A draw is inserted: it is whole on the line.
LEMMA DrawWritesSplits ==
    ASSUME BooksInv, BooksInv', ReleasesInv, NEW r \in Requests, DrawWrites(r)
    PROVE  ReleasesInv'
<1> SUFFICES ASSUME ~past'.lost PROVE (\E k, low, high \in [Draws -> Int] : Split(k, low, high))'
  BY DEF ReleasesInv
<1>1. PICK c \in Calls, d \in Draws :
        /\ c.amount \in Nat \ {0} /\ line \in Lines
        /\ draws[d].status = "none" /\ draws' = [draws EXCEPT ![d] = NewDraw(c)]
        /\ NewDraw(c) \in Rows /\ NewDraw(c).status = "ACTIVE"
        /\ NewDraw(c).amount = c.amount /\ NewDraw(c).repaid = 0
        /\ line' \in Lines /\ line'.used = c.line.used + c.amount
        /\ past'.releases = past.releases
        /\ past'.lost = (past.lost \/ line.used # c.line.used)
  BY Drawing
<1>2. PICK row : row = NewDraw(c)
  OBVIOUS
<1>3. /\ row \in Rows /\ row.status = "ACTIVE" /\ row.amount = c.amount /\ row.repaid = 0
      /\ draws' = [draws EXCEPT ![d] = row] /\ draws \in [Draws -> Rows]
      /\ ~past.lost /\ line.used = c.line.used /\ line.used \in Nat /\ line # NoLine
  BY <1>1, <1>2, LineFields DEF BooksInv, LedgerTypeOK
<1>4. PICK k \in [Draws -> Int], low \in [Draws -> Int], high \in [Draws -> Int] :
        Split(k, low, high)
  BY <1>3 DEF ReleasesInv
<1>5. k[d] = 0 /\ low[d] = 0 /\ high[d] = 0
  BY <1>1, <1>4 DEF Split, Bounds
<1>6. PICK a \in Int : a = c.amount /\ a > 0
  BY <1>1
<1>7. PICK newLow \in [Draws -> Int] : Moved(low, newLow, d, a)
  BY <1>6, Changed
<1>8. PICK newHigh \in [Draws -> Int] : Moved(high, newHigh, d, a)
  BY <1>6, Changed
<1>9. Total(newLow) = Total(low) + a /\ Total(newHigh) = Total(high) + a
  <2>1. Total(low) \in Int /\ Total(high) \in Int
    BY TotalType
  <2>2. QED BY <1>5, <1>7, <1>8, <2>1 DEF Moved
<1>10. Bounds(row, 0, a, a)
  <2>1. Remaining(row) = row.due /\ row.due \in Nat /\ row.amount = a
    BY <1>3, <1>6, RowFields DEF Remaining
  <2>2. row.due * a = a * row.due /\ 0 * row.due = 0 /\ a * row.due \in Int
    BY <2>1, Distributes
  <2>3. QED BY <1>3, <1>6, <2>1, <2>2 DEF Bounds
<1>11. \A e \in Draws : Bounds(draws'[e], k[e], newLow[e], newHigh[e])
  <2>1. ASSUME NEW e \in Draws, e # d PROVE Bounds(draws'[e], k[e], newLow[e], newHigh[e])
    <3>1. draws'[e] = draws[e] /\ newLow[e] = low[e] /\ newHigh[e] = high[e]
      BY <1>3, <1>7, <1>8, <2>1 DEF Moved
    <3>2. QED BY <1>4, <3>1 DEF Split
  <2>2. draws'[d] = row /\ newLow[d] = a /\ newHigh[d] = a
    BY <1>3, <1>7, <1>8 DEF Moved
  <2>3. QED BY <1>5, <1>10, <2>1, <2>2
<1>12. Total(newLow) <= line'.used /\ line'.used <= Total(newHigh)
  <2>1. Total(low) <= line.used /\ line.used <= Total(high)
    BY <1>3, <1>4 DEF Split
  <2>2. line'.used = line.used + a
    BY <1>1, <1>3, <1>6
  <2>3. QED BY <1>3, <1>9, <2>1, <2>2, TotalType
<1>13. Split(k, newLow, newHigh)'
  <2>1. Total(k) = past'.releases
    BY <1>1, <1>4 DEF Split
  <2>2. QED BY <1>11, <1>12, <2>1 DEF Split, Bounds, Remaining
<1>14. QED BY <1>13

\* A repayment releases its part of the principal, half a unit more or less; what is used
\* stops at zero, and so do the bounds.
LEMMA RepayWritesSplits ==
    ASSUME BooksInv, BooksInv', ReleasesInv, NEW r \in Requests, RepayWrites(r)
    PROVE  ReleasesInv'
<1> SUFFICES ASSUME ~past'.lost PROVE (\E k, low, high \in [Draws -> Int] : Split(k, low, high))'
  BY DEF ReleasesInv
<1>1. PICK c \in Calls :
        /\ c.draw \in Draws /\ c.amount \in Nat \ {0}
        /\ c.row \in Rows /\ line \in Lines /\ DrawSeen(c)
        /\ c.row.due > 0 /\ Released(c) \in Nat
        /\ draws' = [draws EXCEPT ![c.draw] = Repaid(draws[c.draw], c)]
        /\ Repaid(draws[c.draw], c) \in Rows
        /\ Repaid(draws[c.draw], c).repaid = c.row.repaid + c.amount
        /\ Repaid(draws[c.draw], c).due = draws[c.draw].due
        /\ Repaid(draws[c.draw], c).amount = draws[c.draw].amount
        /\ Repaid(draws[c.draw], c).status =
             IF c.row.repaid + c.amount >= c.row.due THEN "REPAID" ELSE draws[c.draw].status
        /\ line' \in Lines
        /\ line.used = c.line.used =>
             line'.used = IF 0 <= line.used - Released(c) THEN line.used - Released(c) ELSE 0
        /\ past'.lost =
             (past.lost \/ draws[c.draw].repaid # c.row.repaid \/ line.used # c.line.used)
        /\ past'.releases = IF past'.lost THEN 0 ELSE past.releases + 1
  BY Repaying
<1>2. PICK row : row = Repaid(draws[c.draw], c)
  OBVIOUS
<1>3. PICK d \in Draws : d = c.draw
  BY <1>1
<1>4. PICK x \in Nat : x = c.amount
  BY <1>1
<1>5. PICK q \in Nat : q = Released(c)
  BY <1>1
<1>6. /\ draws \in [Draws -> Rows] /\ draws' = [draws EXCEPT ![d] = row]
      /\ ~past.lost /\ past'.releases = past.releases + 1
      /\ draws[d] \in Rows /\ row \in Rows
      /\ draws[d].repaid = c.row.repaid /\ draws[d].due = c.row.due
      /\ draws[d].amount = c.row.amount
      /\ row.repaid = draws[d].repaid + x /\ row.due = draws[d].due
      /\ row.amount = draws[d].amount /\ row.status # "none"
      /\ row.repaid <= row.due
  <2>1. draws \in [Draws -> Rows] /\ ~past.lost /\ past'.releases = past.releases + 1
    BY <1>1 DEF BooksInv, LedgerTypeOK
  <2>2. draws[d].repaid = c.row.repaid /\ draws[d].due = c.row.due /\ draws[d].amount = c.row.amount
        /\ draws[d].status # "none"
    BY <1>1, <1>3 DEF DrawSeen
  <2>3. /\ draws' = [draws EXCEPT ![d] = row] /\ row \in Rows
        /\ row.repaid = c.row.repaid + x /\ row.due = draws[d].due /\ row.amount = draws[d].amount
        /\ row.status = IF c.row.repaid + c.amount >= c.row.due THEN "REPAID" ELSE draws[d].status
    BY <1>1, <1>2, <1>3, <1>4
  <2>4. c.row.repaid + x <= c.row.due
    BY <1>1, <1>4 DEF DrawSeen
  <2>5. row.status # "none" /\ row.repaid <= row.due
    BY <2>2, <2>3, <2>4
  <2>6. draws[d] \in Rows
    BY <2>1
  <2>7. QED BY <2>1, <2>2, <2>3, <2>5, <2>6
<1>7. /\ line # NoLine /\ line.used \in Nat
      /\ line'.used = IF 0 <= line.used - q THEN line.used - q ELSE 0
  BY <1>1, <1>5, LineFields
<1>8. /\ 2 * (draws[d].due * q) <= 2 * (x * draws[d].amount) + draws[d].due
      /\ 2 * (draws[d].due * q) >= 2 * (x * draws[d].amount) - draws[d].due
  <2>1. draws[d].amount \in Nat /\ draws[d].due \in Nat \ {0}
    BY <1>1, <1>6, RowFields
  <2>2. PICK n \in Nat : n = x * draws[d].amount
    BY <2>1, NaturalProduct
  <2>3. q = Quantized(n, draws[d].due)
    BY <1>4, <1>5, <1>6, <2>2 DEF Released
  <2>4. QED BY <2>1, <2>2, <2>3, QuantizedBounds
<1>9. PICK k \in [Draws -> Int], low \in [Draws -> Int], high \in [Draws -> Int] :
        Split(k, low, high)
  BY <1>6 DEF ReleasesInv
<1>10. PICK top \in Int : top = IF high[d] - q >= 0 THEN high[d] - q ELSE 0
  OBVIOUS
<1>11. Bounds(row, k[d] + 1, low[d] - q, top)
  <2>1. Bounds(draws[d], k[d], low[d], high[d])
    BY <1>9 DEF Split
  <2>2. k[d] \in Int /\ low[d] \in Int /\ high[d] \in Int
    OBVIOUS
  <2>3. QED BY <1>6, <1>8, <1>10, <2>1, <2>2, BoundsAfterRelease
<1>12. k[d] + 1 \in Int /\ low[d] - q \in Int
  OBVIOUS
<1>13. PICK newK \in [Draws -> Int] : Moved(k, newK, d, k[d] + 1)
  BY <1>12, Changed
<1>14. PICK newLow \in [Draws -> Int] : Moved(low, newLow, d, low[d] - q)
  BY <1>12, Changed
<1>15. PICK newHigh \in [Draws -> Int] : Moved(high, newHigh, d, top)
  BY Changed
<1>16. \A e \in Draws : Bounds(draws'[e], newK[e], newLow[e], newHigh[e])
  <2>1. ASSUME NEW e \in Draws, e # d PROVE Bounds(draws'[e], newK[e], newLow[e], newHigh[e])
    <3>1. /\ draws'[e] = draws[e] /\ newK[e] = k[e] /\ newLow[e] = low[e]
          /\ newHigh[e] = high[e]
      BY <1>6, <1>13, <1>14, <1>15, <2>1 DEF Moved
    <3>2. QED BY <1>9, <3>1 DEF Split
  <2>2. /\ draws'[d] = row /\ newK[d] = k[d] + 1 /\ newLow[d] = low[d] - q
        /\ newHigh[d] = top
    BY <1>6, <1>13, <1>14, <1>15 DEF Moved
  <2>3. QED BY <1>11, <2>1, <2>2
<1>17. Total(newHigh) >= 0
  <2> DEFINE zero == [e \in Draws |-> 0]
  <2>1. zero \in [Draws -> Int] /\ \A e \in Draws : zero[e] = 0
    OBVIOUS
  <2> HIDE DEF zero
  <2>2. \A e \in Draws : zero[e] <= newHigh[e]
    BY <1>16, <2>1 DEF Bounds
  <2>3. Total(zero) = 0 /\ Total(zero) <= Total(newHigh)
    BY <2>1, <2>2, TotalZero, TotalAtMost
  <2>4. QED BY <2>3, TotalType
<1>18. Total(newLow) <= line'.used /\ line'.used <= Total(newHigh)
  <2>1. Total(low) <= line.used /\ line.used <= Total(high)
    BY <1>7, <1>9 DEF Split
  <2>2. /\ Total(low) \in Int /\ Total(high) \in Int /\ Total(newHigh) \in Int
        /\ high[d] \in Int /\ low[d] \in Int
    BY TotalType
  <2>3. Total(newHigh) >= Total(high) - q /\ Total(newLow) = Total(low) - q
    BY <1>10, <1>14, <1>15, <2>2 DEF Moved
  <2>4. QED BY <1>7, <1>17, <2>1, <2>2, <2>3
<1>19. Split(newK, newLow, newHigh)'
  <2>1. Total(newK) = past'.releases
    <3>1. Total(k) \in Int /\ k[d] \in Int
      BY TotalType
    <3>2. QED BY <1>6, <1>9, <1>13, <3>1 DEF Split, Moved
  <2>2. QED BY <1>16, <1>18, <2>1 DEF Split, Bounds, Remaining
<1>20. QED BY <1>19


LEMMA ReleasesStep ==
    BooksInv /\ BooksInv' /\ ReleasesInv /\ [LedgerNext]_ledgerVars => ReleasesInv'
<1> SUFFICES ASSUME BooksInv, BooksInv', ReleasesInv, [LedgerNext]_ledgerVars
             PROVE  ReleasesInv'
  OBVIOUS
<1>1. past \in Pasts /\ draws \in [Draws -> Rows]
  BY DEF BooksInv, LedgerTypeOK, Pasts
<1>2. ASSUME line' = line, draws' = draws, past'.lost = past.lost,
             past'.releases = past.releases
      PROVE  ReleasesInv'
  <2>1. \A d \in Draws : /\ draws'[d].due = draws[d].due /\ draws'[d].amount = draws[d].amount
                         /\ draws'[d].repaid = draws[d].repaid
                         /\ draws'[d].status = "none" => draws[d].status = "none"
    BY <1>2
  <2>2. QED BY <1>2, <2>1, SplitStands
<1>3. ASSUME NEW r \in Requests, ScoreWrites(r) PROVE ReleasesInv'
  <2>1. /\ past'.lost = past.lost /\ past'.releases = past.releases
        /\ line # NoLine => line'.used = line.used
        /\ line = NoLine => line'.used = 0
    BY <1>1, <1>3, Scoring DEF Pasts
  <2>2. \A d \in Draws : /\ draws'[d].due = draws[d].due /\ draws'[d].amount = draws[d].amount
                         /\ draws'[d].repaid = draws[d].repaid
                         /\ draws'[d].status = "none" => draws[d].status = "none"
    BY <1>3 DEF ScoreWrites
  <2>3. QED BY <2>1, <2>2, SplitStands
<1>4. ASSUME SweepCommits PROVE ReleasesInv'
  <2>1. \A d \in Draws : /\ draws'[d].due = draws[d].due /\ draws'[d].amount = draws[d].amount
                         /\ draws'[d].repaid = draws[d].repaid
                         /\ draws'[d].status = "none" => draws[d].status = "none"
    BY <1>4, Marking
  <2>2. line' = line /\ past' = past
    BY <1>4 DEF SweepCommits
  <2>3. QED BY <2>1, <2>2, SplitStands
<1>5. ASSUME NEW kind \in {"days", "faults", "scores", "draws", "repays"}, Spend(kind)
      PROVE  past'.lost = past.lost /\ past'.releases = past.releases
  BY <1>1, <1>5, Spending
<1>6. ASSUME NEW r \in Requests, Request(r) \/ RequestFails(r) PROVE ReleasesInv'
  <2>1. line' = line /\ draws' = draws
    BY <1>6 DEF Request, ScoreReads, DrawReads, RepayReads, RequestFails
  <2>2. past'.lost = past.lost /\ past'.releases = past.releases
    BY <1>5, <1>6 DEF Request, ScoreReads, DrawReads, RepayReads, RequestFails
  <2>3. QED BY <1>2, <2>1, <2>2
<1>7. ASSUME NEW r \in Requests, Serving(r) PROVE ReleasesInv'
  <2>1. CASE RepayFlushes(r)
    BY <1>2, <2>1 DEF RepayFlushes
  <2>2. QED BY <1>3, <1>7, <2>1, DrawWritesSplits, RepayWritesSplits DEF Serving
<1>8. CASE Sweeping
  <2>1. CASE SweepFindsLate \/ SweepFindsDefaults \/ \E d \in Draws : SweepMarks(d)
    BY <1>2, <2>1 DEF SweepFindsLate, SweepFindsDefaults, SweepMarks
  <2>2. QED BY <1>4, <1>8, <2>1 DEF Sweeping
<1>9. CASE SweepFails \/ Tick
  <2>1. line' = line /\ draws' = draws
    BY <1>9 DEF SweepFails, Tick
  <2>2. past'.lost = past.lost /\ past'.releases = past.releases
    BY <1>5, <1>9 DEF SweepFails, Tick
  <2>3. QED BY <1>2, <2>1, <2>2
<1>10. CASE UNCHANGED ledgerVars
  BY <1>2, <1>10 DEF ledgerVars
<1>11. QED BY <1>6, <1>7, <1>8, <1>9, <1>10 DEF LedgerNext

\* The bounds of all rows, summed up.
LEMMA LineIsClose ==
    ASSUME BooksInv, NEW k \in [Draws -> Int], NEW low \in [Draws -> Int],
           NEW high \in [Draws -> Int], Split(k, low, high), line # NoLine,
           NEW partly, partly = {d \in Draws : draws[d].repaid \in 1..(draws[d].due - 1)}
    PROVE  2 * Abs(line.used - Total([d \in Draws |-> OpenPrincipal(d)]))
               <= past.releases + Cardinality(partly)
<1>1. /\ draws \in [Draws -> Rows] /\ line \in Lines /\ partly \in SUBSET Draws
      /\ \A d \in Draws : RowOK(draws[d])
  BY DEF BooksInv, LedgerTypeOK, RowsOK
<1>2. PICK p : p = [d \in Draws |-> IF d \in partly THEN 1 ELSE 0]
  OBVIOUS
<1>3. p \in [Draws -> Int] /\ \A d \in Draws : p[d] \in {0, 1}
  BY <1>2
<1>4. \A d \in Draws : p[d] = IF draws[d].repaid \in 1..(draws[d].due - 1) THEN 1 ELSE 0
  BY <1>2
<1>5. PICK o : o = [d \in Draws |-> OpenPrincipal(d)]
  OBVIOUS
<1>6. \A d \in Draws : o[d] = OpenPrincipal(d)
  BY <1>5
<1>7. ASSUME NEW d \in Draws
      PROVE  /\ OpenPrincipal(d) \in Int
             /\ high[d] + high[d] <= o[d] + o[d] + (p[d] + k[d])
             /\ o[d] + o[d] <= low[d] + low[d] + (p[d] + k[d])
  <2>1. Bounds(draws[d], k[d], low[d], high[d])
    BY DEF Split
  <2>2. k[d] \in Int /\ low[d] \in Int /\ high[d] \in Int /\ draws[d] \in Rows
    BY <1>1
  <2>3. QED BY <1>1, <1>3, <1>4, <1>6, <2>1, <2>2, BoundsAreClose
<1>8. o \in [Draws -> Int]
  BY <1>5, <1>7
<1>9. \A f, g \in [Draws -> Int] :
        \E s \in [Draws -> Int] :
            /\ \A d \in Draws : s[d] = f[d] + g[d]
            /\ Total(s) = Total(f) + Total(g)
  <2> SUFFICES ASSUME NEW f \in [Draws -> Int], NEW g \in [Draws -> Int]
               PROVE  \E s \in [Draws -> Int] : /\ \A d \in Draws : s[d] = f[d] + g[d]
                                                /\ Total(s) = Total(f) + Total(g)
    OBVIOUS
  <2> DEFINE s == [d \in Draws |-> f[d] + g[d]]
  <2>1. s \in [Draws -> Int] /\ \A d \in Draws : s[d] = f[d] + g[d]
    OBVIOUS
  <2>2. Total(s) = Total(f) + Total(g)
    BY TotalAdds
  <2> HIDE DEF s
  <2>3. QED BY <2>1, <2>2
<1>10. /\ Total(high) + Total(high) <= Total(o) + Total(o) + (Total(p) + Total(k))
       /\ Total(o) + Total(o) <= Total(low) + Total(low) + (Total(p) + Total(k))
  <2>1. PICK pk \in [Draws -> Int] : /\ \A d \in Draws : pk[d] = p[d] + k[d]
                                    /\ Total(pk) = Total(p) + Total(k)
    BY <1>3, <1>9
  <2>2. PICK hh \in [Draws -> Int] : /\ \A d \in Draws : hh[d] = high[d] + high[d]
                                    /\ Total(hh) = Total(high) + Total(high)
    BY <1>9
  <2>3. PICK ll \in [Draws -> Int] : /\ \A d \in Draws : ll[d] = low[d] + low[d]
                                    /\ Total(ll) = Total(low) + Total(low)
    BY <1>9
  <2>4. PICK oo \in [Draws -> Int] : /\ \A d \in Draws : oo[d] = o[d] + o[d]
                                    /\ Total(oo) = Total(o) + Total(o)
    BY <1>8, <1>9
  <2>5. PICK oopk \in [Draws -> Int] : /\ \A d \in Draws : oopk[d] = oo[d] + pk[d]
                                      /\ Total(oopk) = Total(oo) + Total(pk)
    BY <1>9
  <2>6. PICK llpk \in [Draws -> Int] : /\ \A d \in Draws : llpk[d] = ll[d] + pk[d]
                                      /\ Total(llpk) = Total(ll) + Total(pk)
    BY <1>9
  <2>7. \A d \in Draws : hh[d] <= oopk[d]
    BY <1>7, <2>1, <2>2, <2>4, <2>5
  <2>8. \A d \in Draws : oo[d] <= llpk[d]
    BY <1>7, <2>1, <2>3, <2>4, <2>6
  <2>9. Total(hh) <= Total(oopk) /\ Total(oo) <= Total(llpk)
    BY <2>7, <2>8, TotalAtMost
  <2>10. QED BY <2>1, <2>2, <2>3, <2>4, <2>5, <2>6, <2>9
<1>11. Total(p) = Cardinality(partly)
  BY <1>1, <1>2, TotalCounts
<1>12. Total(k) = past.releases /\ Total(low) <= line.used /\ line.used <= Total(high)
  BY DEF Split
<1>13. /\ Total(o) \in Int /\ Total(p) \in Int /\ Total(k) \in Int /\ Total(low) \in Int
       /\ Total(high) \in Int /\ line.used \in Int
  BY <1>1, <1>3, <1>8, TotalType, LineFields
<1>14. /\ 2 * (line.used - Total(o)) <= Total(p) + Total(k)
       /\ 2 * (Total(o) - line.used) <= Total(p) + Total(k)
  BY <1>10, <1>12, <1>13
<1>15. 2 * Abs(line.used - Total(o)) <= Total(k) + Total(p)
  BY <1>13, <1>14 DEF Abs
<1>16. QED BY <1>5, <1>11, <1>12, <1>15

\* However requests overlap, no draw is booked as repaid beyond what is due, and what the
\* line shows as used never passes the highest line the agent had, nor what its draws
\* amount to; and while no update was computed from a row that had changed, it is the
\* principal that is open, up to half a unit for each repayment (draw_credit and
\* repay_credit, and what quantize rounds).
THEOREM LineFollows == LedgerSpec => []LineFollowsDebts
<1>1. LedgerInit => BooksInv /\ ReleasesInv
  BY BooksStart, ReleasesStart
<1>2. (BooksInv /\ ReleasesInv) /\ [LedgerNext]_ledgerVars => (BooksInv /\ ReleasesInv)'
  BY BooksStep, ReleasesStep
<1>3. BooksInv /\ ReleasesInv => LineFollowsDebts
  <2> SUFFICES ASSUME BooksInv, ReleasesInv PROVE LineFollowsDebts
    OBVIOUS
  <2> DEFINE partly == {d \in Draws : draws[d].repaid \in 1..(draws[d].due - 1)}
  <2>1. \A d \in Draws : draws[d].repaid <= draws[d].due
    BY DEF BooksInv, RowsOK, RowOK
  <2>2. line # NoLine =>
          /\ line.used <= past.high
          /\ line.used <= Total([d \in Draws |-> draws[d].amount])
    BY DEF BooksInv, LineOK, LineSeen, AmountsDrawn
  <2>3. line # NoLine /\ ~past.lost =>
          2 * Abs(line.used - Total([d \in Draws |-> OpenPrincipal(d)]))
              <= past.releases + Cardinality(partly)
    BY LineIsClose DEF ReleasesInv
  <2>4. QED BY <2>1, <2>2, <2>3 DEF LineFollowsDebts
<1>4. QED BY <1>1, <1>2, <1>3, PTL DEF LedgerSpec

=============================================================================
