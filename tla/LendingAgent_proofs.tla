------------------------- MODULE LendingAgent_proofs -------------------------
(***************************************************************************)
(* Theorems about LendingAgent, for any agents, starts, grades, proposals  *)
(* and bounds: the types, that what a tool answers holds although it was   *)
(* read piecemeal, and that a counter-offer that is accepted at once is    *)
(* finalized.                                                              *)
(*                                                                         *)
(* The invariant says of the call in progress what each of its facts still *)
(* tells of the contracts that moved since it was read.                    *)
(***************************************************************************)
EXTENDS LendingAgent, FiniteSetTheorems, WellFoundedInduction, TLAPS

-----------------------------------------------------------------------------
(* The inductive invariant. *)

Terms == [limit : {n \in Nat : n >= MinDrawdown}, rate : MinRate..MaxRate]

Standings == [registered : BOOLEAN, status : Statuses, due : Statuses, frozen : BOOLEAN,
              liquidity : Nat, principal : Nat, borrowed : Nat, score : Nat, terms : Terms]

\* An agent's contracts: overdue ahead of the stored status, debts were borrowed.
StandingOK(s) == s \in Standings /\ s.status <= s.due /\ s.principal <= s.borrowed

ContractsOK ==
    /\ chain \in [Agents -> Standings] /\ \A a \in Agents : StandingOK(chain[a])
    /\ box \in Seq(Nat) /\ Len(box) > 0
    /\ purse \in Nat

Offers == [on : Agents, amount : Nat, rate : MinRate..MaxRate \cup {NaN},
           small : BOOLEAN, same : BOOLEAN]

\* The fields of a call.
IsCall(c) ==
    c = [tool |-> c.tool, a |-> c.a, b |-> c.b, amount |-> c.amount, rate |-> c.rate,
         seen |-> c.seen, failed |-> c.failed, base |-> c.base, old |-> c.old,
         able |-> c.able]

CallTyped(c) ==
    /\ IsCall(c)
    /\ c.a \in Agents /\ c.b \in Agents /\ c.amount \in Nat /\ c.rate \in Int
    /\ c.failed \subseteq Agents

Sees(c, fact, a) == <<fact, a>> \in DOMAIN c.seen
Seen(c, fact, a) == c.seen[<<fact, a>>]

\* What was seen is what the contracts can hold.
SeenTyped(c) ==
    \A a \in Agents :
        /\ Sees(c, "status", a) => Seen(c, "status", a) \in Statuses
        /\ Sees(c, "terms", a) => Seen(c, "terms", a) \in Terms
        /\ Sees(c, "score", a) => Seen(c, "score", a) \in Nat
        /\ Sees(c, "principal", a) => Seen(c, "principal", a) \in Nat
        /\ Sees(c, "borrowed", a) => Seen(c, "borrowed", a) \in Nat

\* track_repayment: what was repaid when the call began is no more than the total
\* borrowed, now or as it was read, less the principal that was read before.
RepaymentOK(c) ==
    c.tool = "track_repayment" =>
        /\ c.base \in Int /\ c.base <= chain[c.a].borrowed - chain[c.a].principal
        /\ Sees(c, "principal", c.a) =>
             c.base <= chain[c.a].borrowed - Seen(c, "principal", c.a)
        /\ Sees(c, "borrowed", c.a) =>
             /\ Sees(c, "principal", c.a)
             /\ c.base <= Seen(c, "borrowed", c.a) - Seen(c, "principal", c.a)

\* An epoch read again had no less revenue then than when the call began.
EpochSeen(c, i) ==
    /\ Seen(c, "again", i) \in Nat
    /\ i + 1 \in DOMAIN c.old => c.old[i + 1] <= Seen(c, "again", i)

\* alert_check: the k epochs it walked are the last ones of those it knows of, and
\* all but the last walked had no revenue.
WalkedDown(c, k) ==
    /\ k \in 0..c.seen[Epoch] + 1
    /\ \A i \in 0..c.seen[Epoch] :
         /\ Sees(c, "again", i) <=> i > c.seen[Epoch] - k
         /\ Sees(c, "again", i) =>
              /\ EpochSeen(c, i)
              /\ i # c.seen[Epoch] - k + 1 => Seen(c, "again", i) = 0

AlertOK(c) ==
    c.tool = "alert_check" =>
        /\ c.old \in Seq(Nat) /\ Len(c.old) <= Len(box)
        /\ \A i \in DOMAIN c.old : c.old[i] <= box[i]
        /\ Epoch \notin DOMAIN c.seen => \A i \in Nat : ~Sees(c, "again", i)
        /\ Epoch \in DOMAIN c.seen =>
             c.seen[Epoch] \in 0..Len(box) - 1 /\ \E k \in Nat : WalkedDown(c, k)

\* find_liquidity: the vaults that had liquidity ever since have it now and had it
\* whenever they were read.
ScanOK(c) ==
    c.tool = "find_liquidity" =>
        \A x \in c.able :
            /\ x \in Agents /\ Liquid(x)
            /\ Sees(c, "registered", x) => Seen(c, "registered", x)
            /\ Sees(c, "frozen", x) => ~Seen(c, "frozen", x)
            /\ Sees(c, "liquidity", x) => Seen(c, "liquidity", x) > 0

\* A counter-offer whose borrower is the same can be finalized, and its call of
\* finalize_terms sees what it was made from.
OfferOK ==
    /\ offer \in Offers
    /\ offer.amount > 0 /\ offer.same =>
         /\ chain[offer.on].status = 0
         /\ offer.amount <= chain[offer.on].terms.limit
         /\ ~offer.small => offer.amount >= MinDrawdown

FinalOK(c) ==
    c.tool = "finalize_terms" /\ offer.amount > 0 =>
        /\ c.a = offer.on /\ c.amount = offer.amount /\ c.rate = offer.rate
        /\ offer.same =>
             /\ Sees(c, "terms", c.a) => Seen(c, "terms", c.a) = chain[c.a].terms
             /\ Sees(c, "status", c.a) => Seen(c, "status", c.a) = chain[c.a].status

CallOK(c) ==
    CallTyped(c) /\ SeenTyped(c) /\ RepaymentOK(c) /\ AlertOK(c) /\ ScanOK(c) /\ FinalOK(c)

Ticks == [at : 0..Len(TickSteps), status : Statuses, owing : BOOLEAN, reported : BOOLEAN]

\* Before the think, a tick asks about the process's own agent.
TickOK == tick \in Ticks /\ (tick.at \in 1..Len(TickSteps) - 1 => call.a = Own)

LendingInv == ContractsOK /\ OfferOK /\ CallOK(call) /\ TickOK

-----------------------------------------------------------------------------
(* Calls. *)

\* The fields of a call that was just made.
LEMMA CallFields ==
    ASSUME NEW tool, NEW a, NEW b, NEW amount, NEW rate,
           NEW c, c = Call(tool, a, b, amount, rate)
    PROVE  /\ IsCall(c) /\ c.tool = tool /\ c.a = a /\ c.b = b
           /\ c.amount = amount /\ c.rate = rate /\ c.seen = <<>> /\ c.failed = {}
           /\ tool = "track_repayment" => c.base = chain[a].borrowed - chain[a].principal
           /\ tool = "alert_check" => c.old = box
           /\ tool = "find_liquidity" => c.able = {x \in Agents : Liquid(x)}
  BY DEF Call, IsCall

\* A call after one of its fields changed.
LEMMA SeenChanges ==
    ASSUME NEW c, IsCall(c), NEW new, NEW d, d = [c EXCEPT !.seen = new]
    PROVE  /\ IsCall(d) /\ d.seen = new
           /\ d.tool = c.tool /\ d.a = c.a /\ d.b = c.b /\ d.amount = c.amount
           /\ d.rate = c.rate /\ d.failed = c.failed /\ d.base = c.base
           /\ d.old = c.old /\ d.able = c.able
<1>1. d = [tool |-> c.tool, a |-> c.a, b |-> c.b, amount |-> c.amount, rate |-> c.rate,
           seen |-> new, failed |-> c.failed, base |-> c.base, old |-> c.old, able |->
           c.able]
  BY DEF IsCall
<1>2. QED BY <1>1 DEF IsCall

LEMMA FailedChanges ==
    ASSUME NEW c, IsCall(c), NEW new, NEW d, d = [c EXCEPT !.failed = new]
    PROVE  /\ IsCall(d) /\ d.failed = new
           /\ d.tool = c.tool /\ d.a = c.a /\ d.b = c.b /\ d.amount = c.amount
           /\ d.rate = c.rate /\ d.seen = c.seen /\ d.base = c.base
           /\ d.old = c.old /\ d.able = c.able
<1>1. d = [tool |-> c.tool, a |-> c.a, b |-> c.b, amount |-> c.amount, rate |-> c.rate,
           seen |-> c.seen, failed |-> new, base |-> c.base, old |-> c.old, able |->
           c.able]
  BY DEF IsCall
<1>2. QED BY <1>1 DEF IsCall

LEMMA AbleChanges ==
    ASSUME NEW c, IsCall(c), NEW new, NEW d, d = [c EXCEPT !.able = new]
    PROVE  /\ IsCall(d) /\ d.able = new
           /\ d.tool = c.tool /\ d.a = c.a /\ d.b = c.b /\ d.amount = c.amount
           /\ d.rate = c.rate /\ d.seen = c.seen /\ d.failed = c.failed
           /\ d.base = c.base /\ d.old = c.old
<1>1. d = [tool |-> c.tool, a |-> c.a, b |-> c.b, amount |-> c.amount, rate |-> c.rate,
           seen |-> c.seen, failed |-> c.failed, base |-> c.base, old |-> c.old, able |->
           new]
  BY DEF IsCall
<1>2. QED BY <1>1 DEF IsCall

\* A call that was just made has seen nothing.
LEMMA FreshCall ==
    ASSUME ContractsOK, NEW tool, NEW a \in Agents, NEW b \in Agents, NEW amount \in Nat,
           NEW rate \in Int
    PROVE  LET c == Call(tool, a, b, amount, rate) IN
           /\ CallTyped(c) /\ SeenTyped(c) /\ RepaymentOK(c) /\ AlertOK(c) /\ ScanOK(c)
           /\ offer.amount = 0 \/ tool # "finalize_terms"
              \/ (a = offer.on /\ amount = offer.amount /\ rate = offer.rate)
              => FinalOK(c)
<1> DEFINE c == Call(tool, a, b, amount, rate)
<1>1. /\ IsCall(c) /\ c.tool = tool /\ c.a = a /\ c.b = b
      /\ c.amount = amount /\ c.rate = rate /\ c.seen = <<>> /\ c.failed = {}
      /\ tool = "track_repayment" => c.base = chain[a].borrowed - chain[a].principal
      /\ tool = "alert_check" => c.old = box
      /\ tool = "find_liquidity" => c.able = {x \in Agents : Liquid(x)}
  BY CallFields
<1> HIDE DEF c
<1>2. \A f : f \notin DOMAIN c.seen
  BY <1>1
<1>3. CallTyped(c) /\ SeenTyped(c)
  BY <1>1, <1>2 DEF CallTyped, SeenTyped, Sees
<1>4. RepaymentOK(c)
  <2>1. chain[a].borrowed \in Nat /\ chain[a].principal \in Nat
    BY DEF ContractsOK, StandingOK, Standings
  <2>2. c.tool = "track_repayment" =>
          c.base \in Int /\ c.base <= chain[c.a].borrowed - chain[c.a].principal
    BY <1>1, <2>1
  <2>3. ~Sees(c, "principal", c.a) /\ ~Sees(c, "borrowed", c.a)
    BY <1>2 DEF Sees
  <2>4. QED BY <2>2, <2>3 DEF RepaymentOK
<1>5. AlertOK(c)
  BY <1>1, <1>2 DEF AlertOK, Sees, ContractsOK
<1>6. ScanOK(c)
  BY <1>1, <1>2 DEF ScanOK, Sees
<1>7. offer.amount = 0 \/ tool # "finalize_terms"
              \/ (a = offer.on /\ amount = offer.amount /\ rate = offer.rate)
              => FinalOK(c)
  BY <1>1, <1>2 DEF FinalOK, Sees
<1>8. QED BY <1>3, <1>4, <1>5, <1>6, <1>7 DEF c

-----------------------------------------------------------------------------
(* The contracts move. *)

\* What any event does to an agent's contracts.
Moved(old, new) ==
    /\ StandingOK(new) /\ new.registered = old.registered
    /\ new.borrowed >= old.borrowed
    /\ new.borrowed - new.principal >= old.borrowed - old.principal

LEMMA EventKeeps ==
    ASSUME LendingInv, NEW a \in Agents, NEW new, Event(a, new), Moved(chain[a], new)
    PROVE  LendingInv'
<1>c. /\ chain \in [Agents -> Standings] /\ \A x \in Agents : StandingOK(chain[x])
      /\ new \in Standings /\ IsCall(call)
  BY DEF LendingInv, ContractsOK, CallOK, CallTyped, Moved, StandingOK
<1>1. /\ chain' = [chain EXCEPT ![a] = new]
      /\ chain'[a] = new /\ \A x \in Agents : x # a => chain'[x] = chain[x]
      /\ chain' \in [Agents -> Standings]
      /\ UNCHANGED <<box, purse, tick>>
  BY <1>c DEF Event
<1> DEFINE able == {x \in call.able : x # a \/ (~new.frozen /\ new.liquidity > 0)}
<1>2. call' = [call EXCEPT !.able = able] /\ offer' = [offer EXCEPT !.same = @ /\ offer.on # a]
  BY DEF Event
<1>3. /\ IsCall(call') /\ call'.able = able /\ call'.tool = call.tool /\ call'.a = call.a
      /\ call'.b = call.b /\ call'.amount = call.amount /\ call'.rate = call.rate
      /\ call'.seen = call.seen /\ call'.failed = call.failed /\ call'.base = call.base
      /\ call'.old = call.old
  <2> HIDE DEF able
  <2> QED BY <1>c, <1>2, AbleChanges
<1>4. /\ offer'.on = offer.on /\ offer'.amount = offer.amount /\ offer'.rate = offer.rate
      /\ offer'.small = offer.small /\ offer'.same = (offer.same /\ offer.on # a)
      /\ offer' \in Offers
  BY <1>2 DEF LendingInv, OfferOK, Offers
<1> HIDE DEF able
<1>5. ContractsOK'
  BY <1>1 DEF LendingInv, ContractsOK, Moved
<1>6. OfferOK'
  BY <1>1, <1>4 DEF LendingInv, OfferOK, Offers
<1>7. CallTyped(call') /\ SeenTyped(call')
  BY <1>3 DEF LendingInv, CallOK, CallTyped, SeenTyped, Sees, Seen
<1>8. RepaymentOK(call)'
  <2> SUFFICES ASSUME call.tool = "track_repayment" PROVE RepaymentOK(call)'
    BY <1>3 DEF RepaymentOK
  <2>1. /\ chain'[call.a].borrowed >= chain[call.a].borrowed
        /\ chain'[call.a].borrowed - chain'[call.a].principal
             >= chain[call.a].borrowed - chain[call.a].principal
        /\ chain'[call.a].borrowed \in Nat /\ chain'[call.a].principal \in Nat
        /\ chain[call.a].borrowed \in Nat /\ chain[call.a].principal \in Nat
    <3>1. call.a \in Agents
      BY DEF LendingInv, CallOK, CallTyped
    <3>2. chain[call.a] \in Standings /\ chain'[call.a] \in Standings
      BY <1>c, <1>1, <3>1
    <3>3. CASE call.a = a
      BY <1>1, <3>2, <3>3 DEF Moved, Standings
    <3>4. CASE call.a # a
      BY <1>1, <3>1, <3>2, <3>4 DEF Standings
    <3>5. QED BY <3>3, <3>4
  <2>2. /\ call.a \in Agents /\ RepaymentOK(call)
        /\ Sees(call, "principal", call.a) => Seen(call, "principal", call.a) \in Nat
    BY DEF LendingInv, CallOK, CallTyped, SeenTyped
  <2>3. QED BY <1>3, <2>1, <2>2 DEF RepaymentOK, Sees, Seen
<1>9. AlertOK(call)'
  <2>1. AlertOK(call)
    BY DEF LendingInv, CallOK
  <2>2. QED
    BY <1>1, <1>3, <2>1 DEF AlertOK, WalkedDown, EpochSeen, Sees, Seen
<1>10. ScanOK(call)'
  <2> SUFFICES ASSUME call.tool = "find_liquidity", NEW x \in able
               PROVE  /\ x \in Agents /\ Liquid(x)'
                      /\ Sees(call, "registered", x) => Seen(call, "registered", x)
                      /\ Sees(call, "frozen", x) => ~Seen(call, "frozen", x)
                      /\ Sees(call, "liquidity", x) => Seen(call, "liquidity", x) > 0
    BY <1>3 DEF ScanOK, Sees, Seen
  <2>1. x \in call.able /\ (x # a \/ (~new.frozen /\ new.liquidity > 0))
    BY DEF able
  <2>2. /\ x \in Agents /\ Liquid(x)
        /\ Sees(call, "registered", x) => Seen(call, "registered", x)
        /\ Sees(call, "frozen", x) => ~Seen(call, "frozen", x)
        /\ Sees(call, "liquidity", x) => Seen(call, "liquidity", x) > 0
    BY <2>1 DEF LendingInv, CallOK, ScanOK
  <2>3. Liquid(x)'
    BY <1>1, <2>1, <2>2 DEF Liquid, Moved
  <2>4. QED BY <2>2, <2>3
<1>11. FinalOK(call)'
  <2>1. FinalOK(call)
    BY DEF LendingInv, CallOK
  <2>2. call.a \in Agents
    BY DEF LendingInv, CallOK, CallTyped
  <2>3. QED BY <1>1, <1>3, <1>4, <2>1, <2>2 DEF FinalOK, Sees, Seen
<1>12. TickOK'
  BY <1>1, <1>3 DEF LendingInv, TickOK
<1>13. QED
  BY <1>5, <1>6, <1>7, <1>8, <1>9, <1>10, <1>11, <1>12 DEF LendingInv, CallOK

\* The revenue of an epoch only grows, and epochs follow each other.
LEMMA BoxGrows ==
    ASSUME LendingInv, BoxMoves
    PROVE  /\ box' \in Seq(Nat) /\ Len(box') >= Len(box)
           /\ \A i \in DOMAIN box : i \in DOMAIN box' /\ box'[i] >= box[i]
<1> DEFINE n == Len(box)
<1>1. box \in Seq(Nat) /\ n \in Nat /\ n > 0 /\ n \in DOMAIN box
  BY DEF LendingInv, ContractsOK
<1>2. CASE box' = Append(box, 0)
  BY <1>1, <1>2
<1>3. CASE box' = [box EXCEPT ![n] = @ + 1]
  <2>1. box[n] \in Nat /\ box[n] + 1 \in Nat
    BY <1>1
  <2>2. /\ box' \in Seq(Nat) /\ Len(box') = n
        /\ \A i \in DOMAIN box : i \in DOMAIN box' /\ box[i] \in Nat
                                 /\ box'[i] = IF i = n THEN box[n] + 1 ELSE box[i]
    BY <1>1, <1>3, <2>1
  <2>3. ASSUME NEW i \in DOMAIN box PROVE i \in DOMAIN box' /\ box'[i] >= box[i]
    <3>1. CASE i = n
      BY <2>1, <2>2, <3>1
    <3>2. CASE i # n
      BY <2>2, <3>2
    <3>3. QED BY <3>1, <3>2
  <2>4. Len(box') >= Len(box)
    BY <1>1, <2>2
  <2>5. QED BY <2>2, <2>3, <2>4
<1>4. QED BY <1>2, <1>3 DEF BoxMoves

LEMMA BoxKeeps == LendingInv /\ BoxMoves => LendingInv'
<1> SUFFICES ASSUME LendingInv, BoxMoves PROVE LendingInv'
  OBVIOUS
<1>1. UNCHANGED <<chain, purse, tick, call, offer>>
  BY DEF BoxMoves
<1>2. /\ box' \in Seq(Nat) /\ Len(box') >= Len(box) /\ box \in Seq(Nat) /\ Len(box) > 0
      /\ \A i \in DOMAIN box : i \in DOMAIN box' /\ box'[i] >= box[i]
  BY BoxGrows DEF LendingInv, ContractsOK
<1>3. ContractsOK'
  BY <1>1, <1>2 DEF LendingInv, ContractsOK
<1>4. AlertOK(call)'
  <2> SUFFICES ASSUME call.tool = "alert_check" PROVE AlertOK(call)'
    BY <1>1 DEF AlertOK
  <2>1. /\ call.old \in Seq(Nat) /\ Len(call.old) <= Len(box)
        /\ \A i \in DOMAIN call.old : call.old[i] <= box[i]
        /\ Epoch \notin DOMAIN call.seen => \A i \in Nat : ~Sees(call, "again", i)
        /\ Epoch \in DOMAIN call.seen =>
             call.seen[Epoch] \in 0..Len(box) - 1 /\ \E k \in Nat : WalkedDown(call, k)
    BY DEF LendingInv, CallOK, AlertOK
  <2>2. \A i \in DOMAIN call.old : call.old[i] <= box'[i]
    <3> TAKE i \in DOMAIN call.old
    <3>1. i \in DOMAIN box /\ call.old[i] \in Nat /\ call.old[i] <= box[i]
      <4>1. /\ DOMAIN call.old = 1..Len(call.old) /\ Len(call.old) \in Nat
            /\ DOMAIN box = 1..Len(box) /\ Len(box) \in Nat
        <5>1. call.old \in Seq(Nat) /\ box \in Seq(Nat)
          BY <1>2, <2>1, Zenon
        <5>2. QED BY <5>1
      <4>2. i \in DOMAIN box
        BY <2>1, <4>1
      <4>3. call.old[i] \in Nat
        BY <2>1
      <4>4. QED BY <2>1, <4>2, <4>3
    <3>2. box[i] \in Nat /\ box'[i] \in Nat /\ box'[i] >= box[i]
      BY <1>2, <3>1
    <3>3. QED BY <3>1, <3>2
  <2>3. Epoch \in DOMAIN call.seen => call.seen[Epoch] \in 0..Len(box') - 1
    BY <1>2, <2>1
  <2>4. Len(call.old) <= Len(box')
    BY <1>2, <2>1
  <2>5. QED BY <1>1, <2>1, <2>2, <2>3, <2>4 DEF AlertOK, WalkedDown, EpochSeen, Sees, Seen
<1>5. OfferOK' /\ TickOK'
  BY <1>1 DEF LendingInv, OfferOK, TickOK
<1>6. CallTyped(call)' /\ SeenTyped(call)' /\ RepaymentOK(call)' /\ ScanOK(call)' /\ FinalOK(call)'
  BY <1>1 DEF LendingInv, CallOK, CallTyped, SeenTyped, RepaymentOK, ScanOK, FinalOK, Sees, Seen,
              Liquid
<1>7. QED BY <1>3, <1>4, <1>5, <1>6 DEF LendingInv, CallOK

\* The fields of an agent's contracts.
LEMMA StandingFields ==
    ASSUME NEW s, StandingOK(s)
    PROVE  /\ s = [registered |-> s.registered, status |-> s.status, due |-> s.due,
                   frozen |-> s.frozen, liquidity |-> s.liquidity, principal |-> s.principal,
                   borrowed |-> s.borrowed, score |-> s.score, terms |-> s.terms]
           /\ s.registered \in BOOLEAN /\ s.status \in Statuses /\ s.due \in Statuses
           /\ s.frozen \in BOOLEAN /\ s.liquidity \in Nat /\ s.principal \in Nat
           /\ s.borrowed \in Nat /\ s.score \in Nat /\ s.terms \in Terms
           /\ s.status <= s.due /\ s.principal <= s.borrowed
  BY DEF StandingOK, Standings

LEMMA ChainKeeps == LendingInv /\ ChainMoves => LendingInv'
<1> SUFFICES ASSUME LendingInv, ChainMoves PROVE LendingInv'
  OBVIOUS
<1>1. CASE BoxMoves
  BY <1>1, BoxKeeps
<1>2. ASSUME NEW a \in Agents,
             \/ PaymentOverdue(a) \/ UpdateStatus(a) \/ Drawdown(a) \/ Repayment(a)
             \/ \E g \in Grades : Reassessed(a, g)
             \/ BackersMove(a) \/ OwnerFreezes(a)
      PROVE  LendingInv'
  <2> DEFINE s == chain[a]
  <2>1. /\ StandingOK(s)
        /\ s = [registered |-> s.registered, status |-> s.status, due |-> s.due,
                frozen |-> s.frozen, liquidity |-> s.liquidity, principal |-> s.principal,
                borrowed |-> s.borrowed, score |-> s.score, terms |-> s.terms]
        /\ s.registered \in BOOLEAN /\ s.status \in Statuses /\ s.due \in Statuses
        /\ s.frozen \in BOOLEAN /\ s.liquidity \in Nat /\ s.principal \in Nat
        /\ s.borrowed \in Nat /\ s.score \in Nat /\ s.terms \in Terms
        /\ s.status <= s.due /\ s.principal <= s.borrowed
    <3>1. StandingOK(s)
      BY DEF LendingInv, ContractsOK
    <3> HIDE DEF s
    <3>2. QED BY <3>1, StandingFields
  <2> HIDE DEF s
  <2>2. CASE PaymentOverdue(a)
    <3> DEFINE new == [s EXCEPT !.due = @ + 1]
    <3>1. Event(a, new)
      BY <2>2 DEF PaymentOverdue, s
    <3>2. s.due + 1 \in Statuses /\ s.status <= s.due + 1
      BY <2>1, <2>2 DEF PaymentOverdue, Statuses, s
    <3>3. new = [registered |-> s.registered, status |-> s.status, due |-> s.due + 1,
                        frozen |-> s.frozen, liquidity |-> s.liquidity, principal |-> s.principal,
                        borrowed |-> s.borrowed, score |-> s.score, terms |-> s.terms]
      BY <2>1
    <3> HIDE DEF new
    <3>4. Moved(s, new)
      <4>1. new \in Standings
        BY <2>1, <3>2, <3>3 DEF Standings
      <4>2. /\ new.registered = s.registered
            /\ new.status = s.status /\ new.due = s.due + 1
            /\ new.principal = s.principal /\ new.borrowed = s.borrowed
        BY <3>3
      <4>3. QED BY <2>1, <3>2, <4>1, <4>2 DEF Moved, StandingOK
    <3>5. QED BY <3>1, <3>4, EventKeeps DEF s
  <2>3. CASE UpdateStatus(a)
    <3> DEFINE frozen == s.frozen \/ s.due = 2
               new == [s EXCEPT !.status = s.due, !.frozen = frozen]
    <3>1. Event(a, new)
      BY <2>3 DEF UpdateStatus, s
    <3>2. frozen \in BOOLEAN /\ s.due <= s.due
      BY <2>1, <2>3 DEF Statuses
    <3> HIDE DEF frozen
    <3>3. new = [registered |-> s.registered, status |-> s.due, due |-> s.due,
                 frozen |-> frozen, liquidity |-> s.liquidity,
                 principal |-> s.principal, borrowed |-> s.borrowed,
                 score |-> s.score, terms |-> s.terms]
      <4> DEFINE s1 == [s EXCEPT !.status = s.due]
      <4>1. new = [s1 EXCEPT !.frozen = frozen]
        OBVIOUS
      <4> HIDE DEF new
      <4>2. s1 = [registered |-> s.registered, status |-> s.due, due |-> s.due,
                  frozen |-> s.frozen, liquidity |-> s.liquidity,
                  principal |-> s.principal, borrowed |-> s.borrowed,
                  score |-> s.score, terms |-> s.terms]
        BY <2>1
      <4> HIDE DEF s1
      <4>3. QED BY <4>1, <4>2
    <3> HIDE DEF new
    <3>4. Moved(s, new)
      <4>1. new \in Standings
        BY <2>1, <3>2, <3>3 DEF Standings
      <4>2. /\ new.registered = s.registered
            /\ new.status = s.due /\ new.due = s.due
            /\ new.principal = s.principal /\ new.borrowed = s.borrowed
        BY <3>3
      <4>3. QED BY <2>1, <3>2, <4>1, <4>2 DEF Moved, StandingOK
    <3>5. QED BY <3>1, <3>4, EventKeeps DEF s
  <2>4. CASE Drawdown(a)
    <3> DEFINE new == [s EXCEPT !.principal = @ + 1, !.borrowed = @ + 1, !.liquidity = @ - 1]
    <3>1. Event(a, new)
      BY <2>4 DEF Drawdown, s
    <3>2. /\ s.liquidity - 1 \in Nat /\ s.principal + 1 \in Nat /\ s.borrowed + 1 \in Nat
          /\ s.principal + 1 <= s.borrowed + 1 /\ s.borrowed + 1 >= s.borrowed
          /\ s.borrowed + 1 - (s.principal + 1) >= s.borrowed - s.principal
      BY <2>1, <2>4 DEF Drawdown, s
    <3>3. new = [registered |-> s.registered, status |-> s.status, due |-> s.due,
                 frozen |-> s.frozen, liquidity |-> s.liquidity - 1,
                 principal |-> s.principal + 1, borrowed |-> s.borrowed + 1,
                 score |-> s.score, terms |-> s.terms]
      <4> DEFINE s1 == [s EXCEPT !.principal = s.principal + 1]
                 s2 == [s1 EXCEPT !.borrowed = s.borrowed + 1]
      <4>1. new = [s2 EXCEPT !.liquidity = s.liquidity - 1]
        OBVIOUS
      <4> HIDE DEF new
      <4>2. s1 = [registered |-> s.registered, status |-> s.status, due |-> s.due,
                  frozen |-> s.frozen, liquidity |-> s.liquidity,
                  principal |-> s.principal + 1, borrowed |-> s.borrowed,
                  score |-> s.score, terms |-> s.terms]
        BY <2>1
      <4> HIDE DEF s1
      <4>3. s2 = [registered |-> s.registered, status |-> s.status, due |-> s.due,
                  frozen |-> s.frozen, liquidity |-> s.liquidity,
                  principal |-> s.principal + 1, borrowed |-> s.borrowed + 1,
                  score |-> s.score, terms |-> s.terms]
        BY <4>2
      <4> HIDE DEF s2
      <4>4. QED BY <4>1, <4>3
    <3> HIDE DEF new
    <3>4. Moved(s, new)
      <4>1. new \in Standings
        BY <2>1, <3>2, <3>3 DEF Standings
      <4>2. /\ new.registered = s.registered
            /\ new.status = s.status /\ new.due = s.due
            /\ new.principal = s.principal + 1 /\ new.borrowed = s.borrowed + 1
        BY <3>3
      <4>3. QED BY <2>1, <3>2, <4>1, <4>2 DEF Moved, StandingOK
    <3>5. QED BY <3>1, <3>4, EventKeeps DEF s
  <2>5. CASE Repayment(a)
    <3> DEFINE cured == IF s.status = 2 THEN 2 ELSE 0
               new == [s EXCEPT !.principal = @ - 1, !.liquidity = @ + 1,
                                !.status = cured, !.due = cured]
    <3>1. Event(a, new)
      BY <2>5 DEF Repayment, s
    <3>2. /\ cured \in Statuses /\ cured <= cured
          /\ s.principal - 1 \in Nat /\ s.liquidity + 1 \in Nat
          /\ s.principal - 1 <= s.borrowed /\ s.borrowed >= s.borrowed
          /\ s.borrowed - (s.principal - 1) >= s.borrowed - s.principal
      BY <2>1, <2>5 DEF Repayment, Statuses, s
    <3> HIDE DEF cured
    <3>3. new = [registered |-> s.registered, status |-> cured, due |-> cured,
                 frozen |-> s.frozen, liquidity |-> s.liquidity + 1,
                 principal |-> s.principal - 1, borrowed |-> s.borrowed,
                 score |-> s.score, terms |-> s.terms]
      <4> DEFINE s1 == [s EXCEPT !.principal = s.principal - 1]
                 s2 == [s1 EXCEPT !.liquidity = s.liquidity + 1]
                 s3 == [s2 EXCEPT !.status = cured]
      <4>1. new = [s3 EXCEPT !.due = cured]
        OBVIOUS
      <4> HIDE DEF new
      <4>2. s1 = [registered |-> s.registered, status |-> s.status, due |-> s.due,
                  frozen |-> s.frozen, liquidity |-> s.liquidity,
                  principal |-> s.principal - 1, borrowed |-> s.borrowed,
                  score |-> s.score, terms |-> s.terms]
        BY <2>1
      <4> HIDE DEF s1
      <4>3. s2 = [registered |-> s.registered, status |-> s.status, due |-> s.due,
                  frozen |-> s.frozen, liquidity |-> s.liquidity + 1,
                  principal |-> s.principal - 1, borrowed |-> s.borrowed,
                  score |-> s.score, terms |-> s.terms]
        BY <4>2
      <4> HIDE DEF s2
      <4>4. s3 = [registered |-> s.registered, status |-> cured, due |-> s.due,
                  frozen |-> s.frozen, liquidity |-> s.liquidity + 1,
                  principal |-> s.principal - 1, borrowed |-> s.borrowed,
                  score |-> s.score, terms |-> s.terms]
        BY <4>3
      <4> HIDE DEF s3
      <4>5. QED BY <4>1, <4>4
    <3> HIDE DEF new
    <3>4. Moved(s, new)
      <4>1. new \in Standings
        BY <2>1, <3>2, <3>3 DEF Standings
      <4>2. /\ new.registered = s.registered
            /\ new.status = cured /\ new.due = cured
            /\ new.principal = s.principal - 1 /\ new.borrowed = s.borrowed
        BY <3>3
      <4>3. QED BY <2>1, <3>2, <4>1, <4>2 DEF Moved, StandingOK
    <3>5. QED BY <3>1, <3>4, EventKeeps DEF s
  <2>6. ASSUME NEW g \in Grades, Reassessed(a, g) PROVE LendingInv'
    <3> DEFINE terms == [limit |-> g.limit, rate |-> g.rate]
               new == [s EXCEPT !.score = g.score, !.terms = terms]
    <3>1. Event(a, new)
      BY <2>6 DEF Reassessed, s
    <3>2. g.score \in Nat /\ terms \in Terms
      BY <2>1, <2>6, LendingAssumption DEF Terms
    <3> HIDE DEF terms
    <3>3. new = [registered |-> s.registered, status |-> s.status, due |-> s.due,
                 frozen |-> s.frozen, liquidity |-> s.liquidity,
                 principal |-> s.principal, borrowed |-> s.borrowed,
                 score |-> g.score, terms |-> terms]
      <4> DEFINE s1 == [s EXCEPT !.score = g.score]
      <4>1. new = [s1 EXCEPT !.terms = terms]
        OBVIOUS
      <4> HIDE DEF new
      <4>2. s1 = [registered |-> s.registered, status |-> s.status, due |-> s.due,
                  frozen |-> s.frozen, liquidity |-> s.liquidity,
                  principal |-> s.principal, borrowed |-> s.borrowed,
                  score |-> g.score, terms |-> s.terms]
        BY <2>1
      <4> HIDE DEF s1
      <4>3. QED BY <4>1, <4>2
    <3> HIDE DEF new
    <3>4. Moved(s, new)
      <4>1. new \in Standings
        BY <2>1, <3>2, <3>3 DEF Standings
      <4>2. /\ new.registered = s.registered
            /\ new.status = s.status /\ new.due = s.due
            /\ new.principal = s.principal /\ new.borrowed = s.borrowed
        BY <3>3
      <4>3. QED BY <2>1, <3>2, <4>1, <4>2 DEF Moved, StandingOK
    <3>5. QED BY <3>1, <3>4, EventKeeps DEF s
  <2>7. CASE BackersMove(a)
    <3>0. PICK liquidity \in {0, 1} : Event(a, [s EXCEPT !.liquidity = liquidity])
      BY <2>7 DEF BackersMove, s
    <3> DEFINE new == [s EXCEPT !.liquidity = liquidity]
    <3>1. Event(a, new)
      BY <3>0
    <3>2. liquidity \in Nat
      OBVIOUS
    <3>3. new = [registered |-> s.registered, status |-> s.status, due |-> s.due,
                        frozen |-> s.frozen, liquidity |-> liquidity, principal |-> s.principal,
                        borrowed |-> s.borrowed, score |-> s.score, terms |-> s.terms]
      BY <2>1
    <3> HIDE DEF new
    <3>4. Moved(s, new)
      <4>1. new \in Standings
        BY <2>1, <3>2, <3>3 DEF Standings
      <4>2. /\ new.registered = s.registered
            /\ new.status = s.status /\ new.due = s.due
            /\ new.principal = s.principal /\ new.borrowed = s.borrowed
        BY <3>3
      <4>3. QED BY <2>1, <3>2, <4>1, <4>2 DEF Moved, StandingOK
    <3>5. QED BY <3>1, <3>4, EventKeeps DEF s
  <2>8. CASE OwnerFreezes(a)
    <3> DEFINE frozen == ~s.frozen
               new == [s EXCEPT !.frozen = frozen]
    <3>1. Event(a, new)
      BY <2>8 DEF OwnerFreezes, s
    <3>2. frozen \in BOOLEAN
      OBVIOUS
    <3> HIDE DEF frozen
    <3>3. new = [registered |-> s.registered, status |-> s.status, due |-> s.due,
                 frozen |-> frozen, liquidity |-> s.liquidity,
                 principal |-> s.principal, borrowed |-> s.borrowed,
                 score |-> s.score, terms |-> s.terms]
      BY <2>1
    <3> HIDE DEF new
    <3>4. Moved(s, new)
      <4>1. new \in Standings
        BY <2>1, <3>2, <3>3 DEF Standings
      <4>2. /\ new.registered = s.registered
            /\ new.status = s.status /\ new.due = s.due
            /\ new.principal = s.principal /\ new.borrowed = s.borrowed
        BY <3>3
      <4>3. QED BY <2>1, <3>2, <4>1, <4>2 DEF Moved, StandingOK
    <3>5. QED BY <3>1, <3>4, EventKeeps DEF s
  <2>9. QED BY <1>2, <2>2, <2>3, <2>4, <2>5, <2>6, <2>7, <2>8
<1>3. QED BY <1>1, <1>2 DEF ChainMoves

-----------------------------------------------------------------------------
(* The start. *)

LEMMA Steps ==
    /\ Len(TickSteps) = 10
    /\ \A i \in 1..10 : TickSteps[i] # "finalize_terms" /\ (TickSteps[i] = "think" <=> i = 10)
  BY DEF TickSteps

LEMMA LendingStarts == LendingInit => LendingInv
<1> SUFFICES ASSUME LendingInit PROVE LendingInv
  OBVIOUS
<1> USE LendingAssumption
<1>1. PICK start \in Starts :
        chain = [a \in Agents |-> Standing(start.agents[a])] /\ box = start.box
  BY DEF LendingInit
<1>2. ASSUME NEW a \in Agents PROVE StandingOK(chain[a])
  <2> DEFINE s == start.agents[a]
             terms == [limit |-> s.grade.limit, rate |-> s.grade.rate]
  <2>1. /\ s.registered \in BOOLEAN /\ s.status \in Statuses /\ s.due \in Statuses
        /\ s.debt \in Nat /\ s.grade \in Grades /\ s.status <= s.due
    OBVIOUS
  <2>2. s.grade.score \in Nat /\ terms \in Terms
    BY <2>1 DEF Terms
  <2>3. chain[a] = [registered |-> s.registered, status |-> s.status, due |-> s.due,
                    frozen |-> s.status = 2, liquidity |-> 1, principal |-> s.debt,
                    borrowed |-> s.debt, score |-> s.grade.score, terms |-> terms]
    BY <1>1 DEF Standing
  <2> DEFINE frozen == s.status = 2
  <2>4. frozen \in BOOLEAN
    OBVIOUS
  <2> HIDE DEF s, terms, frozen
  <2>5. chain[a] = [registered |-> s.registered, status |-> s.status, due |-> s.due,
                    frozen |-> frozen, liquidity |-> 1, principal |-> s.debt,
                    borrowed |-> s.debt, score |-> s.grade.score, terms |-> terms]
    BY <2>3 DEF frozen
  <2>6. chain[a] \in Standings
    BY <2>1, <2>2, <2>4, <2>5 DEF Standings
  <2>7. chain[a].status <= chain[a].due /\ chain[a].principal <= chain[a].borrowed
    BY <2>1, <2>5
  <2>8. QED BY <2>6, <2>7 DEF StandingOK
<1>3. ContractsOK
  <2>1. chain \in [Agents -> Standings]
    BY <1>1, <1>2 DEF StandingOK
  <2>2. box \in Seq(Nat) /\ Len(box) > 0
    BY <1>1
  <2>3. QED BY <1>2, <2>1, <2>2 DEF ContractsOK, LendingInit
<1>4. /\ offer = NoOffer /\ call = NoCall
      /\ tick = [at |-> 0, status |-> 0, owing |-> FALSE, reported |-> FALSE]
  BY DEF LendingInit
<1>5. OfferOK
  BY <1>4 DEF OfferOK, Offers, NoOffer
<1>6. CallOK(call)
  BY <1>3, <1>4, FreshCall DEF NoCall, CallOK, NoOffer
<1>7. TickOK
  BY <1>4, Steps DEF TickOK, Ticks, Statuses
<1>8. QED BY <1>3, <1>5, <1>6, <1>7 DEF LendingInv

-----------------------------------------------------------------------------
(* What a call reads next. *)

\* A fact a group asks for was not seen yet, or the group is complete.
LEMMA AskWants ==
    ASSUME NEW c, NEW facts, NEW then, NEW f \in Ask(c, facts, then)
    PROVE  \/ f \in facts /\ f \notin DOMAIN c.seen
           \/ facts \subseteq DOMAIN c.seen /\ f \in then
  BY DEF Ask

\* A call that asks for nothing more has seen the group and what follows it.
LEMMA AskDone ==
    ASSUME NEW c, NEW facts, NEW then, Ask(c, facts, then) = {}
    PROVE  facts \subseteq DOMAIN c.seen /\ then = {}
  BY DEF Ask

\* The smaller one of two agents.
LEMMA MinOfTwo ==
    ASSUME NEW a \in Nat, NEW b \in Nat, NEW S \in SUBSET {a, b}, S # {}
    PROVE  Min(S) \in S
<1>1. \E x \in S : \A y \in S : x <= y
  <2>1. CASE a \in S /\ b \in S
    <3>1. CASE a <= b
      BY <2>1, <3>1
    <3>2. CASE b <= a
      BY <2>1, <3>2
    <3>3. QED BY <3>1, <3>2
  <2>2. CASE a \notin S \/ b \notin S
    <3>1. \E x \in S : S = {x}
      BY <2>2
    <3>2. QED BY <3>1
  <2>3. QED BY <2>1, <2>2
<1>2. QED BY <1>1 DEF Min

\* track_repayment reads the total borrowed after the principal.
LEMMA RepaymentOrder ==
    ASSUME NEW c, c.tool = "track_repayment"
    PROVE  /\ \A f \in Reads(c) :
                \/ f = <<"principal", c.a>> /\ f \notin DOMAIN c.seen
                \/ /\ f = <<"borrowed", c.a>> /\ f \notin DOMAIN c.seen
                   /\ Sees(c, "principal", c.a)
           /\ Reads(c) = {} => Sees(c, "principal", c.a) /\ Sees(c, "borrowed", c.a)
<1>1. Reads(c) = Ask(c, {<<"principal", c.a>>}, Ask(c, {<<"borrowed", c.a>>}, {}))
  BY DEF Reads, DenialReads, RepaymentGroups
<1>2. QED BY <1>1 DEF Ask, Sees

\* alert_check reads the epoch first, and walks down from it until an epoch had
\* revenue.
LEMMA AlertOrder ==
    ASSUME NEW c, c.tool = "alert_check"
    PROVE  /\ \A f \in Reads(c) :
                \/ f = Epoch /\ f \notin DOMAIN c.seen
                \/ Epoch \in DOMAIN c.seen /\ f[1] = "revenue"
                \/ /\ Epoch \in DOMAIN c.seen /\ ~Stopped(c)
                   /\ LET i == c.seen[Epoch] - Cardinality(Walked(c)) IN
                      ~(i < 0) /\ f = <<"again", i>>
           /\ Reads(c) = {} => Epoch \in DOMAIN c.seen
<1> DEFINE e == c.seen[Epoch]
           before == IF e > 0 THEN {<<"revenue", e - 1>>} ELSE {}
           rest == Ask(c, {<<"revenue", e>>}, Ask(c, before, Walk(c)))
<1>1. Reads(c) = Ask(c, {Epoch}, rest)
  BY DEF Reads, AlertReads
<1>2. \A f \in before : f[1] = "revenue"
  OBVIOUS
<1>3. \A f \in Walk(c) : /\ ~Stopped(c)
                         /\ LET i == c.seen[Epoch] - Cardinality(Walked(c)) IN
                            ~(i < 0) /\ f = <<"again", i>>
  BY DEF Walk
<1> HIDE DEF before, e
<1>4. \A f \in rest : f = <<"revenue", e>> \/ f \in before \/ f \in Walk(c)
  BY AskWants
<1> HIDE DEF rest
<1>5. \A f \in Reads(c) : (f = Epoch /\ f \notin DOMAIN c.seen)
                          \/ (Epoch \in DOMAIN c.seen /\ f \in rest)
  BY <1>1, AskWants
<1>6. Reads(c) = {} => Epoch \in DOMAIN c.seen
  BY <1>1, AskDone
<1>7. ASSUME NEW f \in rest PROVE f[1] = "revenue" \/ f \in Walk(c)
  BY <1>2, <1>4
<1>8. QED BY <1>3, <1>5, <1>6, <1>7

\* The scans read an item's facts of one agent that was asked for and did not fail.
LEMMA LoopItems ==
    ASSUME NEW c, CallTyped(c), c.tool \in Loops, NEW f \in Reads(c) \ {Thought}
    PROVE  f[2] \in Agents
<1>1. c.a \in Nat /\ c.b \in Nat /\ c.a \in Agents /\ c.b \in Agents
  BY LendingAssumption DEF CallTyped
<1>2. CASE c.tool = "scan_yields"
  <2> DEFINE Item(a) == Ask(c, {<<"vault", a>>}, Ask(c, {<<"frozen", a>>},
                        Ask(c, {<<"terms", a>>}, Ask(c, {<<"lockbox", a>>}, {}))))
             open == {a \in {c.a, c.b} : a \notin c.failed /\ Item(a) # {}}
  <2>1. Reads(c) = IF open = {} THEN {} ELSE Item(Min(open))
    BY <1>2 DEF Reads, ScanReads, Loop
  <2>2. \A a, g : g \in Item(a) => g[2] = a
    BY AskWants
  <2>3. open \subseteq {c.a, c.b}
    OBVIOUS
  <2> HIDE DEF Item, open
  <2>4. open # {} /\ f \in Item(Min(open))
    BY <2>1
  <2>5. Min(open) \in Agents
    BY <1>1, <2>3, <2>4, MinOfTwo
  <2>6. QED BY <2>2, <2>4, <2>5
<1>3. CASE c.tool = "compare_vaults"
  <2> DEFINE Item(a) == Ask(c, {<<"score", a>>, <<"terms", a>>}, Ask(c, {<<"vault", a>>},
                        Ask(c, {<<"liquidity", a>>}, Ask(c, {<<"lockbox", a>>}, {}))))
             open == {a \in {c.a, c.b} : a \notin c.failed /\ Item(a) # {}}
  <2>1. Reads(c) = IF open = {} THEN {} ELSE Item(Min(open))
    BY <1>3 DEF Reads, CompareReads, Loop
  <2>2. \A a, g : g \in Item(a) => g[2] = a
    BY AskWants
  <2>3. open \subseteq {c.a, c.b}
    OBVIOUS
  <2> HIDE DEF Item, open
  <2>4. open # {} /\ f \in Item(Min(open))
    BY <2>1
  <2>5. Min(open) \in Agents
    BY <1>1, <2>3, <2>4, MinOfTwo
  <2>6. QED BY <2>2, <2>4, <2>5
<1>4. CASE c.tool = "recommend_rebalance"
  <2> DEFINE Item(a) == Ask(c, {<<"vault", a>>}, Ask(c, {<<"frozen", a>>},
                        Ask(c, {<<"score", a>>}, Ask(c, {<<"terms", a>>}, {}))))
             open == {a \in {c.a, c.b} : a \notin c.failed /\ Item(a) # {}}
             items == IF open = {} THEN {} ELSE Item(Min(open))
  <2>1. Reads(c) = IF items # {} THEN items ELSE Ask(c, {Thought}, {})
    BY <1>4 DEF Reads, RebalanceReads, Loop
  <2>2. \A a, g : g \in Item(a) => g[2] = a
    BY AskWants
  <2>3. open \subseteq {c.a, c.b}
    OBVIOUS
  <2>4. f \in items
    <3> HIDE DEF items
    <3>1. \A g \in Ask(c, {Thought}, {}) : g = Thought
      BY AskWants
    <3>2. QED BY <2>1, <3>1
  <2> HIDE DEF Item, open
  <2>5. QED BY <1>1, <2>2, <2>3, <2>4, MinOfTwo
<1>5. CASE c.tool = "find_liquidity"
  <2> DEFINE Item(a) == Ask(c, {<<"registered", a>>},
                            IF ~c.seen[<<"registered", a>>] THEN {}
                            ELSE Ask(c, {<<"vault", a>>},
                                     Ask(c, {<<"liquidity", a>>, <<"frozen", a>>}, {})))
             open == {a \in {c.a, c.b} : a \notin c.failed /\ Item(a) # {}}
  <2>1. Reads(c) = IF open = {} THEN {} ELSE Item(Min(open))
    BY <1>5 DEF Reads, LiquidityReads, Loop
  <2>2. \A a, g : g \in Item(a) => g[2] = a
    BY AskWants
  <2>3. open \subseteq {c.a, c.b}
    OBVIOUS
  <2> HIDE DEF Item, open
  <2>4. open # {} /\ f \in Item(Min(open))
    BY <2>1
  <2>5. Min(open) \in Agents
    BY <1>1, <2>3, <2>4, MinOfTwo
  <2>6. QED BY <2>2, <2>4, <2>5
<1>6. CASE c.tool = "track_peer_exposure"
  <2> DEFINE Item(a) == Ask(c, {<<"vault", a>>}, Ask(c, {<<"liquidity", a>>}, {}))
             open == {a \in {c.a, c.b} : a \notin c.failed /\ Item(a) # {}}
  <2>1. Reads(c) = IF open = {} THEN {} ELSE Item(Min(open))
    BY <1>6 DEF Reads, ExposureReads, Loop
  <2>2. \A a, g : g \in Item(a) => g[2] = a
    BY AskWants
  <2>3. open \subseteq {c.a, c.b}
    OBVIOUS
  <2> HIDE DEF Item, open
  <2>4. open # {} /\ f \in Item(Min(open))
    BY <2>1
  <2>5. Min(open) \in Agents
    BY <1>1, <2>3, <2>4, MinOfTwo
  <2>6. QED BY <2>2, <2>4, <2>5
<1>7. QED BY <1>2, <1>3, <1>4, <1>5, <1>6 DEF Loops

\* find_liquidity is done when each vault that was asked for failed, is of an agent
\* that is not registered, or was seen.
LEMMA ScanDone ==
    ASSUME NEW c, CallTyped(c), c.tool = "find_liquidity", Reads(c) = {},
           NEW x \in {c.a, c.b}, x \notin c.failed
    PROVE  /\ Sees(c, "registered", x)
           /\ Seen(c, "registered", x) => Sees(c, "frozen", x) /\ Sees(c, "liquidity", x)
<1>1. c.a \in Nat /\ c.b \in Nat
  BY LendingAssumption DEF CallTyped
<1> DEFINE Item(a) == Ask(c, {<<"registered", a>>},
                          IF ~c.seen[<<"registered", a>>] THEN {}
                          ELSE Ask(c, {<<"vault", a>>},
                                   Ask(c, {<<"liquidity", a>>, <<"frozen", a>>}, {})))
           open == {a \in {c.a, c.b} : a \notin c.failed /\ Item(a) # {}}
<1>2. Reads(c) = IF open = {} THEN {} ELSE Item(Min(open))
  BY DEF Reads, LiquidityReads, Loop
<1>3. open \subseteq {c.a, c.b} /\ \A a \in open : Item(a) # {}
  OBVIOUS
<1>4. open = {}
  <2> HIDE DEF Item, open
  <2>1. QED BY <1>1, <1>2, <1>3, MinOfTwo
<1>5. Item(x) = {}
  BY <1>4
<1> HIDE DEF open
<1>6. <<"registered", x>> \in DOMAIN c.seen
  BY <1>5, AskDone
<1>7. c.seen[<<"registered", x>>] =>
        {<<"liquidity", x>>, <<"frozen", x>>} \subseteq DOMAIN c.seen
  BY <1>5, AskDone
<1>8. QED BY <1>6, <1>7 DEF Sees, Seen

\* What is read of an agent is what its contracts hold.
LEMMA ValueOf ==
    ASSUME ContractsOK, NEW a \in Agents
    PROVE  /\ Value(<<"status", a>>) = chain[a].status
           /\ Value(<<"terms", a>>) = chain[a].terms
           /\ Value(<<"score", a>>) = chain[a].score
           /\ Value(<<"principal", a>>) = chain[a].principal
           /\ Value(<<"borrowed", a>>) = chain[a].borrowed
           /\ Value(<<"registered", a>>) = chain[a].registered
           /\ Value(<<"frozen", a>>) = chain[a].frozen
           /\ Value(<<"liquidity", a>>) = chain[a].liquidity
<1>1. chain[a] \in Standings
  BY DEF ContractsOK
<1> DEFINE s == chain[a]
<1>2. DOMAIN s = {"registered", "status", "due", "frozen", "liquidity", "principal",
                  "borrowed", "score", "terms"}
  BY <1>1 DEF Standings
<1>3. QED BY <1>2 DEF Value

-----------------------------------------------------------------------------
(* A read returns. *)

\* The call d is c after it has seen the fact f.
SeesNow(c, f, d) ==
    /\ DOMAIN d.seen = DOMAIN c.seen \cup {f} /\ d.seen[f] = Value(f)
    /\ \A g \in DOMAIN c.seen : g # f => d.seen[g] = c.seen[g]
    /\ IsCall(d)
    /\ d.tool = c.tool /\ d.a = c.a /\ d.b = c.b /\ d.amount = c.amount /\ d.rate = c.rate
    /\ d.failed = c.failed /\ d.base = c.base
           /\ d.old = c.old /\ d.able = c.able

LEMMA ReadAdds ==
    ASSUME LendingInv, Read
    PROVE  \E f \in Reads(call) : SeesNow(call, f, call')
<1>1. PICK f \in Reads(call) :
        call' = [call EXCEPT !.seen = [g \in DOMAIN @ \cup {f} |->
                                         IF g = f THEN Value(f) ELSE @[g]]]
  BY DEF Read
<1> DEFINE new == [g \in DOMAIN call.seen \cup {f} |->
                     IF g = f THEN Value(f) ELSE call.seen[g]]
<1>2. call' = [call EXCEPT !.seen = new]
  BY <1>1
<1>3. /\ DOMAIN new = DOMAIN call.seen \cup {f} /\ new[f] = Value(f)
      /\ \A g \in DOMAIN call.seen : g # f => new[g] = call.seen[g]
  OBVIOUS
<1>4. IsCall(call)
  BY DEF LendingInv, CallOK, CallTyped
<1> HIDE DEF new
<1>5. PICK d : d = call'
  OBVIOUS
<1>6. /\ IsCall(d) /\ d.seen = new
      /\ d.tool = call.tool /\ d.a = call.a /\ d.b = call.b /\ d.amount = call.amount
      /\ d.rate = call.rate /\ d.failed = call.failed /\ d.base = call.base
      /\ d.old = call.old /\ d.able = call.able
  BY <1>2, <1>4, <1>5, SeenChanges
<1>7. SeesNow(call, f, d)
  BY <1>3, <1>6 DEF SeesNow
<1>8. QED BY <1>5, <1>7

\* What an agent's contracts hold is of their types.
LEMMA SeenStaysTyped ==
    ASSUME ContractsOK, NEW c, SeenTyped(c), NEW f, NEW d, SeesNow(c, f, d)
    PROVE  SeenTyped(d)
<1> SUFFICES ASSUME NEW a \in Agents
             PROVE  /\ Sees(d, "status", a) => Seen(d, "status", a) \in Statuses
                    /\ Sees(d, "terms", a) => Seen(d, "terms", a) \in Terms
                    /\ Sees(d, "score", a) => Seen(d, "score", a) \in Nat
                    /\ Sees(d, "principal", a) => Seen(d, "principal", a) \in Nat
                    /\ Sees(d, "borrowed", a) => Seen(d, "borrowed", a) \in Nat
  BY DEF SeenTyped
<1>1. chain[a] \in Standings
  BY DEF ContractsOK
<1>2. /\ Value(<<"status", a>>) \in Statuses /\ Value(<<"terms", a>>) \in Terms
      /\ Value(<<"score", a>>) \in Nat /\ Value(<<"principal", a>>) \in Nat
      /\ Value(<<"borrowed", a>>) \in Nat
  BY <1>1, ValueOf DEF Standings
<1>3. ASSUME NEW fact, Sees(d, fact, a)
      PROVE  \/ Seen(d, fact, a) = Value(<<fact, a>>)
             \/ Sees(c, fact, a) /\ Seen(d, fact, a) = Seen(c, fact, a)
  BY <1>3 DEF SeesNow, Sees, Seen
<1>4. /\ Sees(c, "status", a) => Seen(c, "status", a) \in Statuses
      /\ Sees(c, "terms", a) => Seen(c, "terms", a) \in Terms
      /\ Sees(c, "score", a) => Seen(c, "score", a) \in Nat
      /\ Sees(c, "principal", a) => Seen(c, "principal", a) \in Nat
      /\ Sees(c, "borrowed", a) => Seen(c, "borrowed", a) \in Nat
  BY DEF SeenTyped
<1>5. QED BY <1>2, <1>3, <1>4

LEMMA RepaymentStaysOK ==
    ASSUME LendingInv, NEW f \in Reads(call), NEW d, SeesNow(call, f, d)
    PROVE  RepaymentOK(d)
<1> SUFFICES ASSUME call.tool = "track_repayment" PROVE RepaymentOK(d)
  BY DEF RepaymentOK, SeesNow
<1> DEFINE a == call.a
<1>1. /\ a \in Agents /\ RepaymentOK(call) /\ ContractsOK
      /\ chain[a].borrowed \in Nat /\ chain[a].principal \in Nat
  BY DEF LendingInv, CallOK, CallTyped, ContractsOK, Standings
<1>2. \/ f = <<"principal", a>> /\ ~Sees(call, "principal", a)
      \/ f = <<"borrowed", a>> /\ ~Sees(call, "borrowed", a) /\ Sees(call, "principal", a)
  BY RepaymentOrder DEF Sees
<1>3. /\ call.base \in Int /\ call.base <= chain[a].borrowed - chain[a].principal
      /\ Sees(call, "principal", a) =>
           call.base <= chain[a].borrowed - Seen(call, "principal", a)
      /\ Sees(call, "borrowed", a) => Sees(call, "principal", a)
  BY <1>1 DEF RepaymentOK
<1>4. d.tool = "track_repayment" /\ d.a = a /\ d.base = call.base
  BY DEF SeesNow
<1>5. CASE f = <<"principal", a>> /\ ~Sees(call, "principal", a)
  <2>1. Sees(d, "principal", a) /\ Seen(d, "principal", a) = chain[a].principal
    BY <1>1, <1>5, ValueOf DEF SeesNow, Sees, Seen
  <2>2. ~Sees(d, "borrowed", a)
    BY <1>3, <1>5 DEF SeesNow, Sees
  <2> HIDE DEF a
  <2>3. QED BY <1>3, <1>4, <2>1, <2>2 DEF RepaymentOK
<1>6. CASE f = <<"borrowed", a>> /\ Sees(call, "principal", a)
  <2>1. Sees(d, "borrowed", a) /\ Seen(d, "borrowed", a) = chain[a].borrowed
    BY <1>1, <1>6, ValueOf DEF SeesNow, Sees, Seen
  <2>2. Sees(d, "principal", a) /\ Seen(d, "principal", a) = Seen(call, "principal", a)
    BY <1>6 DEF SeesNow, Sees, Seen
  <2> HIDE DEF a
  <2>3. QED BY <1>3, <1>4, <1>6, <2>1, <2>2 DEF RepaymentOK
<1>7. QED BY <1>2, <1>5, <1>6

\* The epochs that alert_check walked, by their number.
LEMMA WalkedMany ==
    ASSUME NEW c, NEW k \in Nat, c.seen[Epoch] \in Nat, WalkedDown(c, k)
    PROVE  /\ Walked(c) = c.seen[Epoch] - k + 1..c.seen[Epoch]
           /\ IsFiniteSet(Walked(c)) /\ Cardinality(Walked(c)) = k
<1> DEFINE e == c.seen[Epoch]
<1>1. e \in Nat /\ k \in 0..e + 1
  BY DEF WalkedDown
<1>2. \A i \in 0..e : <<"again", i>> \in DOMAIN c.seen <=> i > e - k
  BY DEF WalkedDown, Sees
<1>3. Walked(c) = {i \in 0..e : <<"again", i>> \in DOMAIN c.seen}
  BY DEF Walked
<1> HIDE DEF e
<1>4. Walked(c) = e - k + 1..e
  BY <1>1, <1>2, <1>3
<1>5. PICK low \in Int : low = e - k + 1
  BY <1>1
<1>6. /\ IsFiniteSet(low..e)
      /\ Cardinality(low..e) = IF low > e THEN 0 ELSE e - low + 1
  <2>1. e \in Int
    BY <1>1
  <2>2. QED BY ONLY low \in Int, <2>1, FS_Interval
<1>7. (IF low > e THEN 0 ELSE e - low + 1) = k
  BY <1>1, <1>5
<1>8. QED BY <1>4, <1>5, <1>6, <1>7 DEF e

\* Epochs are counted from zero and a sequence from one.
LEMMA BelowIsInBox ==
    ASSUME NEW n \in Nat, NEW e \in 0..n - 1, NEW k \in Nat, e - k \in 0..e
    PROVE  e - k + 1 \in 1..n
  OBVIOUS

LEMMA AlertStaysOK ==
    ASSUME LendingInv, NEW f \in Reads(call), NEW d, SeesNow(call, f, d)
    PROVE  AlertOK(d)
<1> SUFFICES ASSUME call.tool = "alert_check" PROVE AlertOK(d)
  BY DEF AlertOK, SeesNow
<1>1. /\ call.old \in Seq(Nat) /\ Len(call.old) <= Len(box)
      /\ \A i \in DOMAIN call.old : call.old[i] <= box[i]
      /\ Epoch \notin DOMAIN call.seen => \A i \in Nat : ~Sees(call, "again", i)
      /\ Epoch \in DOMAIN call.seen =>
           call.seen[Epoch] \in 0..Len(box) - 1 /\ \E k \in Nat : WalkedDown(call, k)
      /\ box \in Seq(Nat) /\ Len(box) > 0
  BY DEF LendingInv, CallOK, AlertOK, ContractsOK
<1>2. /\ d.tool = "alert_check" /\ d.old = call.old
      /\ DOMAIN d.seen = DOMAIN call.seen \cup {f} /\ d.seen[f] = Value(f)
      /\ \A g \in DOMAIN call.seen : g # f => d.seen[g] = call.seen[g]
  BY DEF SeesNow
<1>3. CASE f = Epoch /\ f \notin DOMAIN call.seen
  <2>1. Epoch \in DOMAIN d.seen /\ d.seen[Epoch] = Len(box) - 1
    BY <1>2, <1>3 DEF Value, Epoch
  <2>2. \A i \in Nat : ~Sees(d, "again", i)
    BY <1>1, <1>2, <1>3 DEF Sees, Epoch
  <2>3. d.seen[Epoch] \in 0..Len(box) - 1
    BY <1>1, <2>1
  <2>4. WalkedDown(d, 0)
    BY <2>2, <2>3 DEF WalkedDown
  <2>5. QED BY <1>1, <1>2, <2>1, <2>3, <2>4 DEF AlertOK
<1>4. CASE Epoch \in DOMAIN call.seen /\ f[1] = "revenue"
  <2>1. f # Epoch /\ \A i : f # <<"again", i>>
    BY <1>4 DEF Epoch
  <2>2. /\ Epoch \in DOMAIN d.seen /\ d.seen[Epoch] = call.seen[Epoch]
        /\ \A i : Sees(d, "again", i) <=> Sees(call, "again", i)
        /\ \A i : Sees(d, "again", i) => Seen(d, "again", i) = Seen(call, "again", i)
    BY <1>2, <1>4, <2>1 DEF Sees, Seen
  <2>3. PICK k \in Nat : WalkedDown(call, k)
    BY <1>1, <1>4
  <2>4. WalkedDown(d, k)
    BY <1>2, <2>2, <2>3 DEF WalkedDown, EpochSeen
  <2>5. QED BY <1>1, <1>2, <1>4, <2>2, <2>4 DEF AlertOK
<1>5. CASE /\ Epoch \in DOMAIN call.seen /\ ~Stopped(call)
           /\ LET i == call.seen[Epoch] - Cardinality(Walked(call)) IN
              ~(i < 0) /\ f = <<"again", i>>
  <2> DEFINE e == call.seen[Epoch]
  <2>1. PICK k \in Nat : WalkedDown(call, k)
    BY <1>1, <1>5
  <2>2. e \in Nat /\ e \in 0..Len(box) - 1
    BY <1>1, <1>5
  <2>3. Walked(call) = e - k + 1..e /\ Cardinality(Walked(call)) = k
    BY <2>1, <2>2, WalkedMany
  <2>4. f = <<"again", e - k>> /\ e - k \in 0..e /\ k \in 0..e + 1
    BY <1>5, <2>1, <2>2, <2>3 DEF WalkedDown
  <2>5. f # Epoch /\ \A i : i # e - k => f # <<"again", i>>
    BY <2>4 DEF Epoch
  <2>6. /\ Epoch \in DOMAIN d.seen /\ d.seen[Epoch] = e
        /\ Sees(d, "again", e - k) /\ Seen(d, "again", e - k) = Value(f)
        /\ \A i : i # e - k => (Sees(d, "again", i) <=> Sees(call, "again", i))
        /\ \A i : i # e - k /\ Sees(d, "again", i) => Seen(d, "again", i) = Seen(call, "again", i)
    BY <1>2, <1>5, <2>4, <2>5 DEF Sees, Seen
  <2>7. Value(f) = box[e - k + 1] /\ e - k + 1 \in DOMAIN box
    <3>1. f[1] = "again" /\ f[2] = e - k
      BY <2>4
    <3>2. Value(f) = box[e - k + 1]
      BY <3>1 DEF Value
    <3>3. Len(box) \in Nat
      BY <1>1
    <3>4. e - k + 1 \in 1..Len(box)
      BY <2>2, <2>4, <3>3, BelowIsInBox
    <3>5. QED BY <1>1, <3>2, <3>4
  <2>8. EpochSeen(d, e - k)
    <3> DEFINE j == e - k + 1
    <3>1. (e - k) + 1 = j /\ j \in DOMAIN box
      BY <2>7
    <3>2. Seen(d, "again", e - k) = box[j] /\ box[j] \in Nat
      BY <1>1, <2>6, <2>7
    <3>3. j \in DOMAIN d.old => d.old[j] <= box[j]
      BY <1>1, <1>2
    <3> HIDE DEF j
    <3>4. QED BY <3>1, <3>2, <3>3 DEF EpochSeen
  <2>9. \A i \in 0..e : Sees(call, "again", i) => Seen(call, "again", i) = 0
    BY <1>5 DEF Stopped, Walked, Sees, Seen
  <2>10. \A i \in 0..e :
           /\ Sees(call, "again", i) <=> i > e - k
           /\ Sees(call, "again", i) => EpochSeen(call, i)
    BY <2>1 DEF WalkedDown
  <2> HIDE DEF e
  <2>11. ASSUME NEW i \in 0..e
         PROVE  /\ Sees(d, "again", i) <=> i > e - (k + 1)
                /\ Sees(d, "again", i) => EpochSeen(d, i)
                /\ Sees(d, "again", i) /\ i # e - (k + 1) + 1 => Seen(d, "again", i) = 0
    <3>1. CASE i = e - k
      BY <2>2, <2>4, <2>6, <2>8, <3>1
    <3>2. CASE i # e - k
      <4>1. Sees(d, "again", i) <=> i > e - (k + 1)
        BY <2>2, <2>4, <2>6, <2>10, <3>2
      <4>2. Sees(d, "again", i) => EpochSeen(d, i) /\ Seen(d, "again", i) = 0
        BY <1>2, <2>6, <2>9, <2>10, <3>2 DEF EpochSeen
      <4>3. QED BY <4>1, <4>2
    <3>3. QED BY <3>1, <3>2
  <2>12. k + 1 \in Nat /\ k + 1 \in 0..e + 1
    BY <2>2, <2>4
  <2>13. WalkedDown(d, k + 1)
    BY <2>6, <2>11, <2>12 DEF WalkedDown
  <2>14. QED BY <1>1, <1>2, <2>2, <2>6, <2>12, <2>13 DEF AlertOK
<1>6. QED BY <1>3, <1>4, <1>5, AlertOrder

\* Vaults that had liquidity all along are seen so.
LEMMA ScanStaysOK ==
    ASSUME LendingInv, NEW f, NEW d, SeesNow(call, f, d)
    PROVE  ScanOK(d)
<1> SUFFICES ASSUME call.tool = "find_liquidity", NEW x \in call.able
             PROVE  /\ x \in Agents /\ Liquid(x)
                    /\ Sees(d, "registered", x) => Seen(d, "registered", x)
                    /\ Sees(d, "frozen", x) => ~Seen(d, "frozen", x)
                    /\ Sees(d, "liquidity", x) => Seen(d, "liquidity", x) > 0
  BY DEF ScanOK, SeesNow
<1>1. /\ x \in Agents /\ Liquid(x) /\ ContractsOK
      /\ Sees(call, "registered", x) => Seen(call, "registered", x)
      /\ Sees(call, "frozen", x) => ~Seen(call, "frozen", x)
      /\ Sees(call, "liquidity", x) => Seen(call, "liquidity", x) > 0
  BY DEF LendingInv, CallOK, ScanOK
<1>2. ASSUME NEW fact, Sees(d, fact, x)
      PROVE  \/ Seen(d, fact, x) = Value(<<fact, x>>)
             \/ Sees(call, fact, x) /\ Seen(d, fact, x) = Seen(call, fact, x)
  BY <1>2 DEF SeesNow, Sees, Seen
<1>3. /\ Value(<<"registered", x>>) = chain[x].registered
      /\ Value(<<"frozen", x>>) = chain[x].frozen
      /\ Value(<<"liquidity", x>>) = chain[x].liquidity
  BY <1>1, ValueOf
<1>4. Sees(d, "registered", x) => Seen(d, "registered", x)
  BY <1>1, <1>2, <1>3 DEF Liquid
<1>5. Sees(d, "frozen", x) => ~Seen(d, "frozen", x)
  BY <1>1, <1>2, <1>3 DEF Liquid
<1>6. Sees(d, "liquidity", x) => Seen(d, "liquidity", x) > 0
  BY <1>1, <1>2, <1>3 DEF Liquid
<1>7. QED BY <1>1, <1>4, <1>5, <1>6

LEMMA FinalStaysOK ==
    ASSUME LendingInv, NEW f, NEW d, SeesNow(call, f, d)
    PROVE  FinalOK(d)
<1>1. call.a \in Agents /\ FinalOK(call) /\ ContractsOK
  BY DEF LendingInv, CallOK, CallTyped
<1>2. /\ Value(<<"terms", call.a>>) = chain[call.a].terms
      /\ Value(<<"status", call.a>>) = chain[call.a].status
  BY <1>1, ValueOf
<1>3. QED BY <1>1, <1>2 DEF FinalOK, SeesNow, Sees, Seen

\* What holds of a record holds of the call that is next.
LEMMA PartsStand ==
    ASSUME NEW d, call' = d, UNCHANGED <<chain, box>>
    PROVE  /\ CallTyped(d) => CallTyped(call)'
           /\ SeenTyped(d) => SeenTyped(call)'
           /\ RepaymentOK(d) => RepaymentOK(call)'
           /\ AlertOK(d) => AlertOK(call)'
           /\ ScanOK(d) => ScanOK(call)'
           /\ offer' = offer /\ FinalOK(d) => FinalOK(call)'
<1>1. CallTyped(d) => CallTyped(call)'
  BY DEF CallTyped
<1>2. SeenTyped(d) => SeenTyped(call)'
  BY DEF SeenTyped, Sees, Seen
<1>3. RepaymentOK(d) => RepaymentOK(call)'
  BY DEF RepaymentOK, Sees, Seen
<1>4. AlertOK(d) => AlertOK(call)'
  BY DEF AlertOK, WalkedDown, EpochSeen, Sees, Seen
<1>5. ScanOK(d) => ScanOK(call)'
  BY DEF ScanOK, Liquid, Sees, Seen
<1>6. offer' = offer /\ FinalOK(d) => FinalOK(call)'
  BY DEF FinalOK, Sees, Seen
<1>7. QED BY <1>1, <1>2, <1>3, <1>4, <1>5, <1>6, Zenon

LEMMA ReadKeeps == LendingInv /\ Read => LendingInv'
<1> SUFFICES ASSUME LendingInv, Read PROVE LendingInv'
  OBVIOUS
<1>1. PICK f \in Reads(call) : SeesNow(call, f, call')
  BY ReadAdds
<1>2. UNCHANGED <<chain, box, purse, tick, offer>>
  BY DEF Read
<1>3. PICK d : d = call'
  OBVIOUS
<1>4. SeesNow(call, f, d)
  BY <1>1, <1>3
<1>5. ContractsOK /\ SeenTyped(call) /\ CallTyped(call)
  BY DEF LendingInv, CallOK
<1>6. /\ SeenTyped(d) /\ RepaymentOK(d) /\ AlertOK(d) /\ ScanOK(d) /\ FinalOK(d)
  BY <1>4, <1>5, SeenStaysTyped, RepaymentStaysOK, AlertStaysOK, ScanStaysOK, FinalStaysOK
<1>7. CallTyped(d) /\ d.a = call.a
  BY <1>4, <1>5 DEF CallTyped, SeesNow
<1>8. CallOK(call)'
  BY <1>2, <1>3, <1>6, <1>7, PartsStand DEF CallOK
<1>9. QED BY <1>2, <1>3, <1>7, <1>8 DEF LendingInv, ContractsOK, OfferOK, TickOK

-----------------------------------------------------------------------------
(* The other steps of a call. *)

\* An item fails: the call of a scan goes on without one of the agents.
LEMMA ItemFailsKeeps == LendingInv /\ ItemFails => LendingInv'
<1> SUFFICES ASSUME LendingInv, ItemFails PROVE LendingInv'
  OBVIOUS
<1>1. PICK f \in Reads(call) \ {Thought} : call' = ItemFailed(call, f[2])
  BY DEF ItemFails
<1> DEFINE failed == call.failed \cup {f[2]}
<1>2. CallTyped(call) /\ call.tool \in Loops
  BY DEF ItemFails, LendingInv, CallOK
<1>3. failed \subseteq Agents
  BY <1>2, LoopItems DEF CallTyped
<1>4. call' = [call EXCEPT !.failed = failed]
  BY <1>1 DEF ItemFailed
<1> HIDE DEF failed
<1>5. /\ IsCall(call') /\ call'.failed = failed
      /\ call'.tool = call.tool /\ call'.a = call.a /\ call'.b = call.b
      /\ call'.amount = call.amount /\ call'.rate = call.rate /\ call'.seen = call.seen
      /\ call'.base = call.base /\ call'.old = call.old /\ call'.able = call.able
  BY <1>2, <1>4, FailedChanges DEF CallTyped
<1>6. UNCHANGED <<chain, box, purse, tick, offer>>
  BY DEF ItemFails
<1>7. CallTyped(call)'
  BY <1>2, <1>3, <1>5 DEF CallTyped
<1>8. SeenTyped(call)' /\ RepaymentOK(call)' /\ AlertOK(call)' /\ ScanOK(call)' /\ FinalOK(call)'
  <2>1. SeenTyped(call)'
    BY <1>5 DEF LendingInv, CallOK, SeenTyped, Sees, Seen
  <2>2. RepaymentOK(call)'
    BY <1>5, <1>6 DEF LendingInv, CallOK, RepaymentOK, Sees, Seen
  <2>3. AlertOK(call)'
    BY <1>5, <1>6 DEF LendingInv, CallOK, AlertOK, WalkedDown, EpochSeen, Sees, Seen
  <2>4. ScanOK(call)'
    BY <1>5, <1>6 DEF LendingInv, CallOK, ScanOK, Liquid, Sees, Seen
  <2>5. FinalOK(call)'
    BY <1>5, <1>6 DEF LendingInv, CallOK, FinalOK, Sees, Seen
  <2>6. QED BY <2>1, <2>2, <2>3, <2>4, <2>5
<1>9. QED BY <1>5, <1>6, <1>7, <1>8 DEF LendingInv, CallOK, ContractsOK, OfferOK, TickOK

\* A call begins, while the contracts stand still.
LEMMA NewCall ==
    ASSUME LendingInv, UNCHANGED <<chain, box>>,
           NEW tool, NEW a \in Agents, NEW b \in Agents, NEW amount \in Nat, NEW rate \in Int,
           call' = Call(tool, a, b, amount, rate),
           \/ offer'.amount = 0 \/ tool # "finalize_terms"
           \/ a = offer'.on /\ amount = offer'.amount /\ rate = offer'.rate
    PROVE  CallOK(call)' /\ call'.tool = tool /\ call'.a = a
<1> DEFINE c == Call(tool, a, b, amount, rate)
<1>1. /\ c.tool = tool /\ c.a = a /\ c.amount = amount /\ c.rate = rate /\ c.seen = <<>>
  BY CallFields
<1>2. ContractsOK
  BY DEF LendingInv
<1>3. CallTyped(c) /\ SeenTyped(c) /\ RepaymentOK(c) /\ AlertOK(c) /\ ScanOK(c)
  BY <1>2, FreshCall
<1>4. call' = c
  OBVIOUS
<1> HIDE DEF c
<1>5. CallTyped(call)' /\ SeenTyped(call)' /\ RepaymentOK(call)' /\ AlertOK(call)' /\ ScanOK(call)'
  BY <1>3, <1>4, PartsStand
<1>6. FinalOK(call)'
  BY <1>1, <1>4 DEF FinalOK, Sees
<1>7. QED BY <1>1, <1>4, <1>5, <1>6 DEF CallOK

\* A call is over.
LEMMA NoCallNow ==
    ASSUME LendingInv, UNCHANGED <<chain, box>>, call' = NoCall
    PROVE  CallOK(call)' /\ call'.a = Own
BY NewCall, LendingAssumption DEF NoCall

\* No offer stands.
LEMMA NoOfferNow == offer' = NoOffer => OfferOK' /\ offer'.amount = 0
BY LendingAssumption DEF NoOffer, OfferOK, Offers

LEMMA CallFailsKeeps == LendingInv /\ CallFails => LendingInv'
<1> SUFFICES ASSUME LendingInv, CallFails PROVE LendingInv'
  OBVIOUS
<1>1. UNCHANGED <<chain, box, purse>> /\ call' = NoCall
  BY DEF CallFails
<1>2. CallOK(call)' /\ call'.a = Own
  BY <1>1, NoCallNow
<1>3. OfferOK' /\ TickOK'
  <2>1. CASE UNCHANGED <<tick, offer>>
    BY <1>1, <1>2, <2>1 DEF LendingInv, OfferOK, TickOK
  <2>2. CASE TickCaught /\ offer' = NoOffer
    <3>1. OfferOK'
      BY <2>2, NoOfferNow
    <3>2. TickOK'
      BY <2>2, Steps DEF TickCaught, Asleep, TickOK, Ticks, Statuses
    <3>3. QED BY <3>1, <3>2
  <2>3. QED BY <2>1, <2>2 DEF CallFails, Rejected
<1>4. QED BY <1>1, <1>2, <1>3 DEF LendingInv, ContractsOK

\* negotiate: the counter-offer is within the limit and the bounds.
LEMMA OfferMade ==
    ASSUME LendingInv, UNCHANGED <<chain, box>>, call.tool = "negotiate", Negotiable(call),
           Reads(call) = {}, NEW amount \in Amounts \cup {0}, NEW rate \in Rates \cup {0, NaN},
           offer' = CounterOffer(call, amount, rate)
    PROVE  OfferOK'
<1> DEFINE terms == Seen(call, "terms", call.a)
<1>1. CallTyped(call) /\ SeenTyped(call) /\ ContractsOK /\ call.a \in Agents /\ call.amount \in Nat
  BY DEF LendingInv, CallOK, CallTyped
<1>2. Sees(call, "terms", call.a) /\ Sees(call, "status", call.a)
  BY AskDone DEF Reads, NegotiatorReads, Sees
<1>3. terms \in Terms /\ Seen(call, "status", call.a) = 0
  BY <1>1, <1>2 DEF SeenTyped, Negotiable, Seen
<1>4. /\ terms.limit \in Nat /\ terms.limit >= MinDrawdown /\ terms.rate \in MinRate..MaxRate
      /\ amount \in Nat /\ rate \in Int /\ (rate \in Nat \/ rate = NaN) /\ MinDrawdown \in Nat
      /\ MinRate \in Nat /\ MaxRate \in Nat /\ MinRate <= MaxRate
  BY <1>3, LendingAssumption DEF Terms, NaN
<1> DEFINE most == IF amount # 0 THEN NamedAmount(amount, terms.limit)
                   ELSE Least(call.amount, terms.limit)
           price == IF rate # 0 THEN Clamped(rate) ELSE terms.rate
           small == amount = 0 /\ call.amount < MinDrawdown
           same == chain[call.a].terms = terms
                   /\ chain[call.a].status = Seen(call, "status", call.a)
<1>5. offer' = [on |-> call.a, amount |-> most, rate |-> price, small |-> small,
                same |-> same]
  BY DEF CounterOffer, Seen
<1> HIDE DEF terms
<1>6. /\ most \in Nat /\ most <= terms.limit
      /\ ~small => most >= MinDrawdown
  BY <1>1, <1>4 DEF NamedAmount, Least, Most
<1>7. price \in MinRate..MaxRate \cup {NaN}
  BY <1>4 DEF Clamped, Least, Most, NaN
<1>8. small \in BOOLEAN /\ same \in BOOLEAN
  OBVIOUS
<1>9. same => chain[call.a].terms = terms /\ chain[call.a].status = 0
  BY <1>3
<1> HIDE DEF most, price, small, same
<1>10. offer' \in Offers
  BY <1>1, <1>5, <1>6, <1>7, <1>8 DEF Offers
<1>11. /\ offer'.on = call.a /\ offer'.amount = most /\ offer'.small = small
       /\ offer'.same = same
  BY <1>5
<1>12. QED BY <1>6, <1>9, <1>10, <1>11 DEF OfferOK

LEMMA AnswerKeeps == LendingInv /\ AnswerToModel => LendingInv'
<1> SUFFICES ASSUME LendingInv, AnswerToModel PROVE LendingInv'
  OBVIOUS
<1>1. UNCHANGED <<chain, box, tick>> /\ call' = NoCall
  BY DEF AnswerToModel
<1>2. CallOK(call)' /\ call'.a = Own
  BY <1>1, NoCallNow
<1>3. OfferOK'
  <2>1. CASE call.tool = "negotiate" /\ Negotiable(call)
    <3>1. PICK amount \in Amounts \cup {0}, rate \in Rates \cup {0, NaN} :
            offer' = CounterOffer(call, amount, rate)
      BY <2>1 DEF AnswerToModel
    <3>2. Reads(call) = {}
      BY DEF AnswerToModel
    <3>3. QED BY <1>1, <2>1, <3>1, <3>2, OfferMade
  <2>2. CASE ~(call.tool = "negotiate" /\ Negotiable(call))
    BY <2>2, NoOfferNow DEF AnswerToModel
  <2>3. QED BY <2>1, <2>2
<1>4. purse' \in Nat
  BY DEF AnswerToModel, LendingInv, ContractsOK, CallOK, CallTyped
<1>5. QED BY <1>1, <1>2, <1>3, <1>4 DEF LendingInv, ContractsOK, TickOK

\* What the model asks for are calls of agents with amounts and rates.
LEMMA AskedCalls ==
    ASSUME NEW a \in Agents, NEW b \in Agents, NEW amount \in Amounts, NEW rate \in Rates,
           NEW c \in Asked(a, b, amount, rate)
    PROVE  \E tool : \E x \in Agents, y \in Agents, m \in Nat, r \in Int :
             c = Call(tool, x, y, m, r)
<1>1. /\ Own \in Agents /\ Least(a, b) \in Agents /\ Most(a, b) \in Agents
      /\ amount \in Nat /\ rate \in Int /\ 0 \in Nat /\ 0 \in Int
  BY LendingAssumption DEF Least, Most
<1>2. \/ \E t : c = Call(t, a, a, 0, 0)
      \/ \E t : c = Call(t, Own, Own, 0, 0)
      \/ \E t : c = Call(t, a, b, amount, 0)
      \/ \E t : c = Call(t, Least(a, b), Most(a, b), 0, 0)
      \/ \E t : c = Call(t, a, a, amount, 0)
      \/ c = Call("finalize_terms", a, a, amount, rate)
  BY DEF Asked
<1>3. QED BY <1>1, <1>2

LEMMA ModelCallsKeeps == LendingInv /\ ModelCalls => LendingInv'
<1> SUFFICES ASSUME LendingInv, ModelCalls PROVE LendingInv'
  OBVIOUS
<1>1. PICK a \in Agents, b \in Agents, amount \in Amounts, rate \in Rates :
        call' \in Asked(a, b, amount, rate)
  BY DEF ModelCalls
<1>2. PICK tool : \E x \in Agents, y \in Agents, m \in Nat, r \in Int :
        call' = Call(tool, x, y, m, r)
  BY <1>1, AskedCalls
<1>3. PICK x \in Agents, y \in Agents, m \in Nat, r \in Int : call' = Call(tool, x, y, m, r)
  BY <1>2
<1>4. UNCHANGED <<chain, box, purse, tick>> /\ offer' = NoOffer /\ tick.at = Len(TickSteps)
  BY DEF ModelCalls, InThink
<1>5. OfferOK' /\ offer'.amount = 0
  BY <1>4, NoOfferNow
<1>6. CallOK(call)'
  BY <1>3, <1>4, <1>5, NewCall
<1>7. TickOK'
  BY <1>4, Steps DEF LendingInv, TickOK
<1>8. QED BY <1>4, <1>5, <1>6, <1>7 DEF LendingInv, ContractsOK

LEMMA ModelAcceptsKeeps == LendingInv /\ ModelAccepts => LendingInv'
<1> SUFFICES ASSUME LendingInv, ModelAccepts PROVE LendingInv'
  OBVIOUS
<1>1. /\ UNCHANGED <<chain, box, purse, tick, offer>> /\ tick.at = Len(TickSteps)
      /\ call' = Call("finalize_terms", offer.on, offer.on, offer.amount, offer.rate)
  BY DEF ModelAccepts, InThink
<1>2. offer.on \in Agents /\ offer.amount \in Nat /\ offer.rate \in Int
  BY LendingAssumption DEF LendingInv, OfferOK, Offers, NaN
<1>3. CallOK(call)'
  BY <1>1, <1>2, NewCall
<1>4. TickOK'
  BY <1>1, Steps DEF LendingInv, TickOK
<1>5. QED BY <1>1, <1>3, <1>4 DEF LendingInv, ContractsOK, OfferOK

LEMMA ThinkEndsKeeps == LendingInv /\ ThinkEnds => LendingInv'
<1> SUFFICES ASSUME LendingInv, ThinkEnds PROVE LendingInv'
  OBVIOUS
<1>1. UNCHANGED <<chain, box, purse, call>> /\ tick' = Asleep /\ offer' = NoOffer
  BY DEF ThinkEnds
<1>2. OfferOK' /\ offer'.amount = 0
  BY <1>1, NoOfferNow
<1>3. TickOK'
  BY <1>1, Steps DEF Asleep, TickOK, Ticks, Statuses
<1>4. CallOK(call)'
  <2>1. FinalOK(call)'
    BY <1>2 DEF FinalOK
  <2>2. QED BY <1>1, <2>1, PartsStand DEF LendingInv, CallOK
<1>5. QED BY <1>1, <1>2, <1>3, <1>4 DEF LendingInv, ContractsOK

-----------------------------------------------------------------------------
(* The tick. *)

\* A set of numbers that is not empty has a least one.
LEMMA LeastNumber ==
    ASSUME NEW S \in SUBSET Nat, S # {}
    PROVE  Min(S) \in S
<1>1. \E x \in S : \A y \in S : ~(<<y, x>> \in OpToRel(<, Nat))
  BY NatLessThanWellFounded, WFMin
<1>2. \A x \in S, y \in S : <<y, x>> \notin OpToRel(<, Nat) => x <= y
  BY DEF OpToRel
<1>3. QED BY <1>1, <1>2 DEF Min

LEMMA TickStartsKeeps == LendingInv /\ TickStarts => LendingInv'
<1> SUFFICES ASSUME LendingInv, TickStarts PROVE LendingInv'
  OBVIOUS
<1>1. /\ UNCHANGED <<chain, box, purse, offer>> /\ tick' = [tick EXCEPT !.at = 1]
      /\ call' = Call(TickSteps[1], Own, Own, 0, 0)
  BY DEF TickStarts
<1>2. CallOK(call)' /\ call'.a = Own
  BY <1>1, NewCall, Steps, LendingAssumption
<1>3. TickOK'
  BY <1>1, <1>2, Steps DEF LendingInv, TickOK, Ticks
<1>4. QED BY <1>1, <1>2, <1>3 DEF LendingInv, ContractsOK, OfferOK

LEMMA TickGoesOnKeeps == LendingInv /\ TickGoesOn => LendingInv'
<1> SUFFICES ASSUME LendingInv, TickGoesOn PROVE LendingInv'
  OBVIOUS
<1>1. tick \in Ticks /\ tick.at \in 1..9 /\ call.a = Own /\ Reads(call) = {}
  BY Steps DEF TickGoesOn, LendingInv, TickOK
<1>2. Kept \in Ticks
  <2>1. CASE call.tool = "status"
    <3>1. Sees(call, "principal", Own) /\ Sees(call, "status", Own)
      BY <1>1, <2>1, AskDone DEF Reads, LoanReads, Sees
    <3>2. Seen(call, "status", Own) \in Statuses
      BY <3>1, LendingAssumption DEF LendingInv, CallOK, SeenTyped
    <3> DEFINE owing == call.seen[<<"principal", Own>>] > 0
    <3>3. Kept = [tick EXCEPT !.status = Seen(call, "status", Own), !.owing = owing]
      BY <2>1 DEF Kept, Seen
    <3>4. owing \in BOOLEAN
      OBVIOUS
    <3> HIDE DEF owing
    <3>5. QED BY <1>1, <3>2, <3>3, <3>4 DEF Ticks
  <2>2. CASE call.tool # "status"
    <3> DEFINE reported == call.tool = "trigger_freeze"
    <3>1. Kept = [tick EXCEPT !.reported = reported]
      BY <2>2 DEF Kept
    <3>2. reported \in BOOLEAN
      OBVIOUS
    <3> HIDE DEF reported
    <3>3. QED BY <1>1, <3>1, <3>2 DEF Ticks
  <2>3. QED BY <2>1, <2>2
<1> DEFINE wanted == {i \in tick.at + 1..Len(TickSteps) : Wanted(i, Kept)}
           next == Min(wanted)
<1>3. 10 \in wanted
  BY <1>1, Steps DEF Wanted, TickSteps
<1>4. next \in 1..10
  <2>1. wanted \in SUBSET Nat /\ wanted \subseteq 1..10
    BY <1>1, Steps
  <2> HIDE DEF wanted
  <2>2. QED BY <1>3, <2>1, LeastNumber
<1>5. /\ tick' = [Kept EXCEPT !.at = next]
      /\ call' = IF TickSteps[next] = "think" THEN NoCall
                 ELSE Call(TickSteps[next], Own, Own, 0, 0)
      /\ UNCHANGED <<chain, box, purse, offer>>
  BY DEF TickGoesOn
<1> HIDE DEF wanted, next
<1>6. CallOK(call)' /\ call'.a = Own
  <2>1. CASE TickSteps[next] = "think"
    BY <1>5, <2>1, NoCallNow
  <2>2. CASE TickSteps[next] # "think"
    <3>1. call' = Call(TickSteps[next], Own, Own, 0, 0) /\ TickSteps[next] # "finalize_terms"
      BY <1>4, <1>5, <2>2, Steps
    <3>2. QED BY <1>5, <3>1, NewCall, LendingAssumption
  <2>3. QED BY <2>1, <2>2
<1>7. TickOK'
  BY <1>2, <1>4, <1>5, <1>6, Steps DEF TickOK, Ticks
<1>8. QED BY <1>5, <1>6, <1>7 DEF LendingInv, ContractsOK, OfferOK

-----------------------------------------------------------------------------
(* The theorems. *)

LEMMA LendingSteps == LendingInv /\ [LendingNext]_lendingVars => LendingInv'
<1> SUFFICES ASSUME LendingInv, [LendingNext]_lendingVars PROVE LendingInv'
  OBVIOUS
<1>1. CASE ChainMoves
  BY <1>1, ChainKeeps
<1>2. CASE Read
  BY <1>2, ReadKeeps
<1>3. CASE ItemFails
  BY <1>3, ItemFailsKeeps
<1>4. CASE CallFails
  BY <1>4, CallFailsKeeps
<1>5. CASE AnswerToModel
  BY <1>5, AnswerKeeps
<1>6. CASE ModelCalls
  BY <1>6, ModelCallsKeeps
<1>7. CASE ModelAccepts
  BY <1>7, ModelAcceptsKeeps
<1>8. CASE ThinkEnds
  BY <1>8, ThinkEndsKeeps
<1>9. CASE TickStarts
  BY <1>9, TickStartsKeeps
<1>10. CASE TickGoesOn
  BY <1>10, TickGoesOnKeeps
<1>11. CASE UNCHANGED lendingVars
  <2>1. UNCHANGED <<chain, box, purse, tick, call, offer>>
    BY <1>11 DEF lendingVars
  <2>2. CallOK(call)'
    <3>1. CallTyped(call)' /\ SeenTyped(call)' /\ RepaymentOK(call)'
      BY <2>1 DEF LendingInv, CallOK, CallTyped, SeenTyped, RepaymentOK, Sees, Seen
    <3>2. AlertOK(call)'
      BY <2>1 DEF LendingInv, CallOK, AlertOK, WalkedDown, EpochSeen, Sees, Seen
    <3>3. ScanOK(call)' /\ FinalOK(call)'
      BY <2>1 DEF LendingInv, CallOK, ScanOK, FinalOK, Liquid, Sees, Seen
    <3>4. QED BY <3>1, <3>2, <3>3 DEF CallOK
  <2>3. QED BY <2>1, <2>2 DEF LendingInv, ContractsOK, OfferOK, TickOK
<1>12. QED
  BY <1>1, <1>2, <1>3, <1>4, <1>5, <1>6, <1>7, <1>8, <1>9, <1>10, <1>11 DEF LendingNext, Process

LEMMA LendingAlways == LendingSpec => []LendingInv
BY LendingStarts, LendingSteps, PTL DEF LendingSpec

\* The tick is at one of its steps, debts are nonnegative and were borrowed, and
\* the rate of an offer is one finalize_terms accepts or no number.
THEOREM LendingTyped == LendingSpec => []LendingTypeOK
<1>1. LendingInv => LendingTypeOK
  <2> SUFFICES ASSUME LendingInv PROVE LendingTypeOK
    OBVIOUS
  <2>1. tick.at \in 0..Len(TickSteps) /\ tick.status \in Statuses
    BY DEF LendingInv, TickOK, Ticks
  <2>2. ASSUME NEW a \in Agents
        PROVE  /\ chain[a].status \in Statuses /\ chain[a].due \in chain[a].status..2
               /\ chain[a].principal \in 0..chain[a].borrowed /\ chain[a].liquidity \in Nat
    <3>1. StandingOK(chain[a])
      BY DEF LendingInv, ContractsOK
    <3>2. chain[a] \in Standings /\ chain[a].status <= chain[a].due
          /\ chain[a].principal <= chain[a].borrowed
      BY <3>1 DEF StandingOK
    <3>3. /\ chain[a].status \in Statuses /\ chain[a].due \in Statuses
          /\ chain[a].liquidity \in Nat /\ chain[a].principal \in Nat
          /\ chain[a].borrowed \in Nat
      BY <3>2 DEF Standings
    <3>4. QED BY <3>2, <3>3 DEF Statuses
  <2>3. purse \in Nat /\ call.failed \subseteq Agents
    BY DEF LendingInv, ContractsOK, CallOK, CallTyped
  <2>4. /\ offer.on \in Agents /\ offer.amount \in Nat
        /\ offer.rate \in MinRate..MaxRate \cup {NaN}
    BY DEF LendingInv, OfferOK, Offers
  <2>5. QED BY <2>1, <2>2, <2>3, <2>4 DEF LendingTypeOK
<1>2. QED BY <1>1, LendingAlways, PTL

\* The repaid amount track_repayment reports.
LEMMA RepaidHolds ==
    ASSUME LendingInv, Reads(call) = {}
    PROVE  RepaidIsCounted(call)
<1> SUFFICES ASSUME call.tool = "track_repayment" PROVE TotalRepaid(call) >= call.base
  BY DEF RepaidIsCounted
<1>1. Sees(call, "principal", call.a) /\ Sees(call, "borrowed", call.a)
  BY RepaymentOrder
<1>2. /\ Seen(call, "principal", call.a) \in Nat /\ Seen(call, "borrowed", call.a) \in Nat
      /\ call.base \in Int
      /\ call.base <= Seen(call, "borrowed", call.a) - Seen(call, "principal", call.a)
  BY <1>1 DEF LendingInv, CallOK, CallTyped, SeenTyped, RepaymentOK
<1>3. QED BY <1>2 DEF TotalRepaid, Seen

\* The epochs alert_check calls consecutive without revenue.
LEMMA AlertHolds ==
    ASSUME LendingInv, Reads(call) = {}
    PROVE  AlertIsTrue(call)
<1> SUFFICES ASSUME call.tool = "alert_check", NEW i \in 0..MissedEpochs(call) - 1,
                    call.seen[Epoch] - i + 1 \in DOMAIN call.old
             PROVE  call.old[call.seen[Epoch] - i + 1] = 0
  BY DEF AlertIsTrue
<1> DEFINE e == call.seen[Epoch]
           zeros == {j \in Walked(call) : call.seen[<<"again", j>>] = 0}
<1>1. Epoch \in DOMAIN call.seen
  BY AlertOrder
<1>2. /\ call.old \in Seq(Nat) /\ e \in 0..Len(box) - 1 /\ box \in Seq(Nat) /\ e \in Nat
      /\ \E k \in Nat : WalkedDown(call, k)
  BY <1>1 DEF LendingInv, CallOK, AlertOK, ContractsOK
<1>3. PICK k \in Nat : WalkedDown(call, k)
  BY <1>2
<1>4. /\ Walked(call) = e - k + 1..e /\ IsFiniteSet(Walked(call))
      /\ Cardinality(Walked(call)) = k /\ k \in 0..e + 1
  BY <1>2, <1>3, WalkedMany DEF WalkedDown
<1>5. \A j \in 0..e :
        /\ Sees(call, "again", j) <=> j > e - k
        /\ Sees(call, "again", j) =>
             EpochSeen(call, j) /\ (j # e - k + 1 => Seen(call, "again", j) = 0)
  BY <1>3 DEF WalkedDown
<1>6. i \in Nat /\ i < Cardinality(zeros) /\ Cardinality(zeros) \in Nat
      /\ Cardinality(zeros) <= k
  <2>1. zeros \subseteq Walked(call)
    OBVIOUS
  <2>2. Cardinality(zeros) \in Nat /\ Cardinality(zeros) <= k
    <3> HIDE DEF zeros
    <3>1. QED BY <1>4, <2>1, FS_Subset, FS_CardinalityType
  <2>3. MissedEpochs(call) = Cardinality(zeros)
    BY DEF MissedEpochs
  <2>4. QED BY <2>2, <2>3
<1>7. e - i \in Walked(call) /\ e - i \in 0..e
  <2> HIDE DEF e, zeros
  <2>1. QED BY <1>2, <1>4, <1>6
<1>8. Seen(call, "again", e - i) = 0
  <2>1. CASE e - i # e - k + 1
    <3> HIDE DEF zeros
    <3>1. Sees(call, "again", e - i)
      BY <1>7 DEF Walked, Sees
    <3> HIDE DEF e
    <3>2. QED BY <1>5, <1>7, <2>1, <3>1
  <2>2. CASE e - i = e - k + 1
    <3>1. Cardinality(zeros) = Cardinality(Walked(call)) /\ zeros \subseteq Walked(call)
      <4>1. zeros \subseteq Walked(call)
        OBVIOUS
      <4> HIDE DEF zeros, e
      <4>2. QED BY <1>2, <1>4, <1>6, <2>2, <4>1
    <3>2. zeros = Walked(call)
      <4> HIDE DEF zeros, e
      <4>1. QED BY <1>4, <3>1, FS_Subset
    <3>3. QED BY <1>7, <3>2 DEF Seen
  <2>3. QED BY <2>1, <2>2
<1>9. EpochSeen(call, e - i)
  <2>1. Sees(call, "again", e - i)
    BY <1>7 DEF Walked, Sees
  <2> HIDE DEF e, zeros
  <2>2. QED BY <1>5, <1>7, <2>1
<1> HIDE DEF zeros
<1>10. QED
  <2>1. call.old[e - i + 1] <= 0
    BY <1>8, <1>9 DEF EpochSeen
  <2>2. call.old[e - i + 1] \in Nat
    <3>1. e - i + 1 \in DOMAIN call.old
      OBVIOUS
    <3>2. call.old \in Seq(Nat)
      BY <1>2
    <3>3. \A n \in DOMAIN call.old : call.old[n] \in Nat
      BY <3>2
    <3> HIDE DEF e
    <3>4. QED BY <3>1, <3>3
  <2> HIDE DEF e
  <2>3. call.old[e - i + 1] = 0
    BY <2>1, <2>2
  <2>4. QED BY <2>3 DEF e

\* The vaults find_liquidity lists.
LEMMA ScanHolds ==
    ASSUME LendingInv, Reads(call) = {}
    PROVE  ScanIsComplete(call)
<1> SUFFICES ASSUME call.tool = "find_liquidity",
                    NEW x \in {call.a, call.b}, x \in call.able, x \notin call.failed
             PROVE  x \in Listed(call)
  BY DEF ScanIsComplete
<1>1. CallTyped(call) /\ ScanOK(call)
  BY DEF LendingInv, CallOK
<1>2. /\ Sees(call, "registered", x)
      /\ Seen(call, "registered", x) => Sees(call, "frozen", x) /\ Sees(call, "liquidity", x)
  BY <1>1, ScanDone
<1>3. /\ Seen(call, "registered", x) /\ ~Seen(call, "frozen", x)
      /\ Seen(call, "liquidity", x) > 0
  BY <1>1, <1>2 DEF ScanOK
<1>4. QED BY <1>3 DEF Listed, Seen

\* What a tool answers holds of the contracts it was read from piecemeal.
THEOREM AnswersAlwaysHold == LendingSpec => []AnswersHold
<1>1. LendingInv => AnswersHold
  BY RepaidHolds, AlertHolds, ScanHolds DEF AnswersHold
<1>2. QED BY <1>1, LendingAlways, PTL

\* What finalize_terms has seen when it answers.
LEMMA FinalSees ==
    ASSUME LendingInv, Answered("finalize_terms")
    PROVE  /\ Sees(call, "terms", call.a) /\ Sees(call, "status", call.a)
           /\ Sees(call, "score", call.a)
           /\ Seen(call, "terms", call.a) \in Terms /\ Seen(call, "status", call.a) \in Statuses
           /\ Seen(call, "score", call.a) \in Nat
<1>1. call.tool = "finalize_terms" /\ Reads(call) = {}
  BY DEF Answered
<1>2. /\ Sees(call, "terms", call.a) /\ Sees(call, "status", call.a)
      /\ Sees(call, "score", call.a)
  BY <1>1, AskDone DEF Reads, NegotiatorReads, Sees
<1>3. QED BY <1>2 DEF LendingInv, CallOK, CallTyped, SeenTyped

\* evaluate_proposal takes no more than fifty points from what finalize_terms
\* finalizes, the amount being within the limit.
LEMMA FinalizedIsViable ==
    ASSUME LendingInv, Answered("finalize_terms"), Finalized(call), NEW days \in Durations
    PROVE  Viable(call, days)
<1> DEFINE terms == Seen(call, "terms", call.a)
           score == Seen(call, "score", call.a)
           rate == RatePenalty(call.rate, terms.rate)
           duration == DurationPenalty(days, score)
<1>1. terms \in Terms /\ score \in Nat /\ call.rate \in Int /\ call.amount \in Nat /\ days \in Nat
  BY FinalSees, LendingAssumption DEF LendingInv, CallOK, CallTyped
<1>2. call.amount <= terms.limit /\ Seen(call, "status", call.a) = 0
  BY DEF Finalized, Seen
<1>3. terms.limit \in Nat /\ terms.rate \in Nat
  BY <1>1, LendingAssumption DEF Terms
<1> HIDE DEF terms, score
<1>4. AmountPenalty(call.amount, terms.limit) = 0
  BY <1>1, <1>2, <1>3 DEF AmountPenalty
<1>5. rate \in Int /\ rate <= 30
  BY <1>1, <1>3 DEF RatePenalty, Least
<1>6. duration \in Int /\ duration <= 20
  BY <1>1 DEF DurationPenalty, Least
<1> HIDE DEF rate, duration
<1>7. FitScore(call, days) = Most(0, 100 - 0 - rate - duration)
  BY <1>4 DEF FitScore, Seen, terms, score, rate, duration
<1>8. FitScore(call, days) >= 50
  BY <1>5, <1>6, <1>7 DEF Most
<1>9. QED BY <1>2, <1>8 DEF Viable, Seen

\* A counter-offer that is accepted at once, nothing having changed, is finalized,
\* and what is finalized is viable for whatever duration.
THEOREM CounterOffersStand == LendingSpec => []CounterOfferStands
<1>1. LendingInv => CounterOfferStands
  <2> SUFFICES ASSUME LendingInv, Answered("finalize_terms") PROVE CounterOfferStands
    BY DEF CounterOfferStands
  <2>1. offer.amount > 0 /\ offer.same /\ ~offer.small => Finalized(call)
    <3> SUFFICES ASSUME offer.amount > 0, offer.same, ~offer.small PROVE Finalized(call)
      OBVIOUS
    <3>1. /\ call.a = offer.on /\ call.amount = offer.amount /\ call.rate = offer.rate
          /\ Seen(call, "terms", call.a) = chain[call.a].terms
          /\ Seen(call, "status", call.a) = chain[call.a].status
      BY FinalSees DEF LendingInv, CallOK, FinalOK, Answered
    <3>2. /\ chain[offer.on].status = 0 /\ offer.amount <= chain[offer.on].terms.limit
          /\ offer.amount >= MinDrawdown /\ offer.rate \in MinRate..MaxRate \cup {NaN}
      BY DEF LendingInv, OfferOK, Offers
    <3>3. QED BY <3>1, <3>2 DEF Finalized, Seen
  <2>2. ASSUME Finalized(call), NEW days \in Durations PROVE Viable(call, days)
    BY <2>2, FinalizedIsViable
  <2>3. QED BY <2>1, <2>2 DEF CounterOfferStands
<1>2. QED BY <1>1, LendingAlways, PTL
=============================================================================
