---------------------------- MODULE LendingAgent ----------------------------
(***************************************************************************)
(* The lending agent (agents/lending-agent/index.ts): a tick every thirty  *)
(* seconds that walks through the credit tools for its own agent, ends in a*)
(* think of the language model, and lets the model call any tool.          *)
(*                                                                         *)
(* The tools only read.  Each read of the chain is a step, those of one    *)
(* Promise.all in any order, and the contracts move between two of them;   *)
(* an answer is a moment of none of the times it was read at.  Facts of a  *)
(* group that no decision looks at are left out.  A read that fails after  *)
(* the transport's own retries draws on MaxFaults.                         *)
(*                                                                         *)
(* Ticks share no variable of the process, so a tick that overlaps another *)
(* is a tick like any other and one at a time is modelled.                 *)
(***************************************************************************)
EXTENDS Integers, Sequences, FiniteSets, FiniteSetsExt

CONSTANTS
    Agents,               \* agent ids, numbers; the process watches agent Own
    Own,
    Starts,               \* the agents' standing and the lockbox at the start
    Grades,               \* assessments of the scorer: score, limit, rate
    MinScoreForApproval,
    MinDrawdown,          \* 10 USDT
    MinRate, MaxRate,     \* 300 and 2500 basis points
    Amounts, Rates,       \* what borrowers propose and the model replies
    Durations,            \* days, which only evaluate_proposal looks at
    MaxEvents,            \* bound: what happens on the chain
    MaxFaults,            \* bound: failed reads and thinks
    MaxCalls              \* bound: tool calls in one think, besides finalizing an offer

Statuses == {0, 1, 2}   \* ACTIVE, DELINQUENT, DEFAULT

ASSUME LendingAssumption ==
    /\ Agents \subseteq Nat /\ Own \in Agents
    /\ MinDrawdown \in Nat \ {0}
    /\ {MinRate, MaxRate} \subseteq Nat \ {0} /\ MinRate <= MaxRate
    /\ Amounts \subseteq Nat /\ Rates \subseteq Nat /\ Durations \subseteq Nat
    /\ Grades \subseteq [score : Nat, limit : Nat, rate : MinRate..MaxRate]
    /\ \A g \in Grades : g.limit >= MinDrawdown
    /\ \A start \in Starts :
         /\ start.agents \in [Agents -> [registered : BOOLEAN, status : Statuses,
                                        due : Statuses, debt : Nat, grade : Grades]]
         /\ \A a \in Agents : start.agents[a].status <= start.agents[a].due
         /\ start.box \in Seq(Nat) /\ start.box # <<>>

VARIABLES
    chain,   \* per agent: registration, facility, vault, what the scorer answers
    box,     \* revenueByEpoch of the lockbox, epoch 0 first
    purse,   \* USDT of the WDK wallet
    tick,    \* the step it is at (0: none runs), what it read at the first one
    call,    \* the tool call in progress: arguments, facts seen, items that failed
    offer,   \* the counter-offer the model was last given in this think
    past     \* bounds

lendingVars == <<chain, box, purse, tick, call, offer, past>>

TickSteps == <<"status", "score", "breakdown", "stats", "alert_check", "track_repayment",
               "flag_delinquent", "trigger_freeze", "balance", "think">>

\* Number() of something that is none.
NaN == -1

NoOffer == [on |-> Own, amount |-> 0, rate |-> MinRate, small |-> FALSE, same |-> FALSE]

\* A call at its beginning.  base, old and able are for the properties: what was
\* repaid and earned then, and which vaults had liquidity ever since.
Liquid(a) == chain[a].registered /\ ~chain[a].frozen /\ chain[a].liquidity > 0
Call(tool, a, b, amount, rate) ==
    [tool |-> tool, a |-> a, b |-> b, amount |-> amount, rate |-> rate,
     seen |-> <<>>, failed |-> {},
     base |-> IF tool = "track_repayment" THEN chain[a].borrowed - chain[a].principal ELSE 0,
     old |-> IF tool = "alert_check" THEN box ELSE <<>>,
     able |-> IF tool = "find_liquidity" THEN {x \in Agents : Liquid(x)} ELSE {}]
NoCall == Call("none", Own, Own, 0, 0)

\* An agent at the start: registered, assessed, in debt, overdue and so updated.
Standing(s) ==
    [registered |-> s.registered, status |-> s.status, due |-> s.due, frozen |-> s.status = 2,
     liquidity |-> 1, principal |-> s.debt, borrowed |-> s.debt,
     score |-> s.grade.score, terms |-> [limit |-> s.grade.limit, rate |-> s.grade.rate]]

LendingInit ==
    /\ \E start \in Starts :
         chain = [a \in Agents |-> Standing(start.agents[a])] /\ box = start.box
    /\ purse = 1
    /\ tick = [at |-> 0, status |-> 0, owing |-> FALSE, reported |-> FALSE]
    /\ call = NoCall /\ offer = NoOffer
    /\ past = [events |-> 0, faults |-> 0, calls |-> 0]

-----------------------------------------------------------------------------
(* The contracts, between any two reads.  Other modules say what they do; here *)
(* they only move.                                                             *)

Event(a, new) ==
    /\ past.events < MaxEvents
    /\ past' = [past EXCEPT !.events = @ + 1]
    /\ chain' = [chain EXCEPT ![a] = new]
    /\ call' = [call EXCEPT !.able = {x \in @ : x # a \/ (~new.frozen /\ new.liquidity > 0)}]
    /\ offer' = [offer EXCEPT !.same = @ /\ offer.on # a]
    /\ UNCHANGED <<box, purse, tick>>

\* What updateStatus would find goes ahead of what getStatus returns.
PaymentOverdue(a) ==
    /\ chain[a].principal > 0 /\ chain[a].due < 2
    /\ Event(a, [chain[a] EXCEPT !.due = @ + 1])

UpdateStatus(a) ==
    /\ chain[a].due > chain[a].status
    /\ Event(a, [chain[a] EXCEPT !.status = chain[a].due, !.frozen = @ \/ chain[a].due = 2])

Drawdown(a) ==
    /\ chain[a].registered /\ chain[a].due = 0 /\ chain[a].liquidity > 0
    /\ chain[a].principal < chain[a].terms.limit
    /\ Event(a, [chain[a] EXCEPT !.principal = @ + 1, !.borrowed = @ + 1, !.liquidity = @ - 1])

Repayment(a) ==
    /\ chain[a].principal > 0
    /\ LET cured == IF chain[a].status = 2 THEN 2 ELSE 0 IN
       Event(a, [chain[a] EXCEPT !.principal = @ - 1, !.liquidity = @ + 1,
                                 !.status = cured, !.due = cured])

Reassessed(a, g) ==
    /\ g.score # chain[a].score
    /\ Event(a, [chain[a] EXCEPT !.score = g.score,
                                 !.terms = [limit |-> g.limit, rate |-> g.rate]])

BackersMove(a) ==
    /\ ~chain[a].frozen
    /\ \E liquidity \in {0, 1} \ {chain[a].liquidity} :
         Event(a, [chain[a] EXCEPT !.liquidity = liquidity])

OwnerFreezes(a) == Event(a, [chain[a] EXCEPT !.frozen = ~@])

\* Revenue goes to the current epoch; epochs only follow each other.
BoxMoves ==
    /\ past.events < MaxEvents
    /\ past' = [past EXCEPT !.events = @ + 1]
    /\ \/ box' = Append(box, 0)
       \/ box' = [box EXCEPT ![Len(box)] = @ + 1]
    /\ UNCHANGED <<chain, purse, tick, call, offer>>

ChainMoves ==
    \/ BoxMoves
    \/ \E a \in Agents :
         \/ PaymentOverdue(a) \/ UpdateStatus(a) \/ Drawdown(a) \/ Repayment(a)
         \/ \E g \in Grades : Reassessed(a, g)
         \/ BackersMove(a) \/ OwnerFreezes(a)

-----------------------------------------------------------------------------
(* The tools: what each reads next, given what it has seen. *)

Least(x, y) == IF x < y THEN x ELSE y
Most(x, y) == IF x < y THEN y ELSE x

\* await Promise.all(facts), then go on.
Ask(c, facts, then) == IF facts \subseteq DOMAIN c.seen THEN then ELSE facts \ DOMAIN c.seen

\* The loops that catch what an item throws and go on with the next one.
Loop(c, Item(_)) ==
    LET open == {a \in {c.a, c.b} : a \notin c.failed /\ Item(a) # {}} IN
    IF open = {} THEN {} ELSE Item(Min(open))

\* The facts.  "again" is a second reading of an epoch's revenue; addresses and
\* other facts that do not change read 0.
Value(f) ==
    IF f[1] = "epoch" THEN Len(box) - 1
    ELSE IF f[1] \in {"revenue", "again"} THEN box[f[2] + 1]
    ELSE IF f[1] \in DOMAIN chain[f[2]] THEN chain[f[2]][f[1]]
    ELSE 0

Epoch == <<"epoch", Own>>
Thought == <<"thought", Own>>   \* what agent.think answers

\* wdk_wallet: create, restore, balance, sign and send each await the wallet or
\* the node once.
WalletReads(c) == Ask(c, {<<"wallet", Own>>}, {})

\* credit_scorer: the breakdown reads the profile, then the factors.
ScorerReads(c) ==
    IF c.tool = "breakdown"
    THEN Ask(c, {<<"profile", c.a>>}, Ask(c, {Epoch, <<"principal", c.a>>}, {}))
    ELSE Ask(c, {<<"terms", c.a>>}, {})

\* revenue_monitor: stats, poll and epoch_history.
MonitorReads(c) ==
    IF c.tool = "stats" THEN Ask(c, {Epoch}, {})
    ELSE IF c.tool = "poll" THEN Ask(c, {<<"balance", Own>>}, Ask(c, {<<"pending", Own>>}, {}))
    ELSE Ask(c, {Epoch},
             LET left == {i \in 0..c.seen[Epoch] : <<"revenue", i>> \notin DOMAIN c.seen} IN
             IF left = {} THEN {} ELSE {<<"revenue", Min(left)>>})

\* alert_check, last loop: from the epoch read backwards, four epochs at most, up
\* to the first with revenue.
Walked(c) == {i \in 0..c.seen[Epoch] : <<"again", i>> \in DOMAIN c.seen}
Stopped(c) == \E i \in Walked(c) : c.seen[<<"again", i>>] # 0
Walk(c) ==
    LET i == c.seen[Epoch] - Cardinality(Walked(c)) IN
    IF Stopped(c) \/ Cardinality(Walked(c)) = 4 \/ i < 0 THEN {} ELSE {<<"again", i>>}
AlertReads(c) ==
    Ask(c, {Epoch}, LET e == c.seen[Epoch] IN
        Ask(c, {<<"revenue", e>>},
            Ask(c, IF e > 0 THEN {<<"revenue", e - 1>>} ELSE {}, Walk(c))))
MissedEpochs(c) == Cardinality({i \in Walked(c) : c.seen[<<"again", i>>] = 0})

\* loan_manager: status and approve_drawdown, which asks the vault only once the
\* agent has passed.
Passes(c) ==
    /\ c.seen[<<"registered", c.a>>] /\ c.seen[<<"status", c.a>>] = 0
    /\ c.seen[<<"score", c.a>>] >= MinScoreForApproval /\ c.amount >= MinDrawdown
LoanReads(c) ==
    IF c.tool = "status" THEN Ask(c, {<<"principal", c.a>>, <<"status", c.a>>}, {})
    ELSE Ask(c, {<<"status", c.a>>, <<"score", c.a>>, <<"registered", c.a>>},
             IF Passes(c) THEN Ask(c, {<<"liquidity", c.a>>}, {}) ELSE {})

\* deny_drawdown and track_repayment, which reads the principal with the first
\* group and totalAmountBorrowed after it.
\* Variant: the total first.
TotalFirst(c) == <<{<<"borrowed", c.a>>}, {<<"principal", c.a>>}>>
RepaymentGroups(c) == <<{<<"principal", c.a>>}, {<<"borrowed", c.a>>}>>
DenialReads(c) ==
    IF c.tool = "deny_drawdown" THEN Ask(c, {<<"score", c.a>>}, Ask(c, {<<"terms", c.a>>}, {}))
    ELSE Ask(c, RepaymentGroups(c)[1], Ask(c, RepaymentGroups(c)[2], {}))
TotalRepaid(c) == c.seen[<<"borrowed", c.a>>] - c.seen[<<"principal", c.a>>]

\* flag_delinquent and trigger_freeze look at the stored status; neither sends
\* anything.
EscalationReads(c) ==
    IF c.tool = "flag_delinquent"
    THEN Ask(c, {<<"status", c.a>>},
             Ask(c, {<<"lastPayment", c.a>>}, Ask(c, {<<"block", Own>>}, {})))
    ELSE Ask(c, {<<"status", c.a>>},
             Ask(c, {<<"vault", c.a>>}, Ask(c, {<<"frozen", c.a>>}, {})))

\* yield_optimizer, one vault after the other.
ScanReads(c) ==
    LET Item(a) == Ask(c, {<<"vault", a>>}, Ask(c, {<<"frozen", a>>},
                   Ask(c, {<<"terms", a>>}, Ask(c, {<<"lockbox", a>>}, {}))))
    IN Loop(c, Item)

CompareReads(c) ==
    LET Item(a) == Ask(c, {<<"score", a>>, <<"terms", a>>}, Ask(c, {<<"vault", a>>},
                   Ask(c, {<<"liquidity", a>>}, Ask(c, {<<"lockbox", a>>}, {}))))
    IN Loop(c, Item)

\* recommend_rebalance then asks the model, execute_rebalance reads two vaults
\* and hands out calldata for two transactions.
RebalanceReads(c) ==
    LET Item(a) == Ask(c, {<<"vault", a>>}, Ask(c, {<<"frozen", a>>},
                   Ask(c, {<<"score", a>>}, Ask(c, {<<"terms", a>>}, {}))))
    IN IF c.tool = "recommend_rebalance"
       THEN IF Loop(c, Item) # {} THEN Loop(c, Item) ELSE Ask(c, {Thought}, {})
       ELSE Ask(c, {<<"vault", c.a>>, <<"vault", c.b>>},
                Ask(c, {<<"frozen", c.a>>, <<"frozen", c.b>>, <<"status", c.b>>}, {}))

\* zk_verifier: a proof is fetched only for an agent whose proof is valid.
ProofReads(c) ==
    IF c.tool = "generate_attestation"
    THEN Ask(c, {<<"proofValid", c.a>>}, Ask(c, {<<"lastProof", c.a>>}, {}))
    ELSE Ask(c, {<<"proofValid", c.a>>}, {})

\* loan_negotiator: the profile, whatever the action; then negotiate asks the
\* model, of an ACTIVE agent.
Negotiable(c) == c.tool = "negotiate" /\ c.seen[<<"status", c.a>>] = 0
NegotiatorReads(c) ==
    Ask(c, {<<"terms", c.a>>, <<"status", c.a>>, <<"score", c.a>>},
        IF Negotiable(c) THEN Ask(c, {Thought}, {}) ELSE {})

\* peer_lending: find_liquidity skips who is not registered.
LiquidityReads(c) ==
    LET Item(a) == Ask(c, {<<"registered", a>>},
                       IF ~c.seen[<<"registered", a>>] THEN {}
                       ELSE Ask(c, {<<"vault", a>>},
                                Ask(c, {<<"liquidity", a>>, <<"frozen", a>>}, {})))
    IN Loop(c, Item)

\* The vaults it lists.
Listed(c) == {a \in {c.a, c.b} \ c.failed :
    c.seen[<<"registered", a>>] /\ ~c.seen[<<"frozen", a>>] /\ c.seen[<<"liquidity", a>>] > 0}

BothRegistered(c) == c.seen[<<"registered", c.a>>] /\ c.seen[<<"registered", c.b>>]

\* request_peer_loan: the terms only if the source has the amount.
PeerRequestReads(c) ==
    Ask(c, {<<"registered", c.a>>, <<"registered", c.b>>},
        IF ~BothRegistered(c) THEN {}
        ELSE Ask(c, {<<"vault", c.a>>}, Ask(c, {<<"liquidity", c.a>>},
             IF c.seen[<<"liquidity", c.a>>] < c.amount THEN {}
             ELSE Ask(c, {<<"score", c.b>>, <<"terms", c.b>>}, {}))))

\* approve_peer_loan: the source's vault, then the destination's standing; the
\* destination's vault is not looked at.
SourceFails(c) == c.seen[<<"frozen", c.a>>] \/ c.seen[<<"liquidity", c.a>>] < c.amount
DestinationFails(c) ==
    c.seen[<<"status", c.b>>] # 0 \/ c.seen[<<"score", c.b>>] < MinScoreForApproval
PeerApprovalReads(c) ==
    Ask(c, {<<"registered", c.a>>, <<"registered", c.b>>},
        IF ~BothRegistered(c) THEN {}
        ELSE Ask(c, {<<"vault", c.a>>}, Ask(c, {<<"liquidity", c.a>>, <<"frozen", c.a>>},
             IF SourceFails(c) THEN {}
             ELSE Ask(c, {<<"status", c.b>>, <<"score", c.b>>},
                  IF DestinationFails(c) THEN {} ELSE Ask(c, {<<"terms", c.b>>}, {})))))

\* track_peer_exposure, one pair after the other, by the source.
ExposureReads(c) ==
    LET Item(a) == Ask(c, {<<"vault", a>>}, Ask(c, {<<"liquidity", a>>}, {}))
    IN Loop(c, Item)

Loops == {"scan_yields", "compare_vaults", "recommend_rebalance", "find_liquidity",
          "track_peer_exposure"}
Reads(c) ==
    CASE c.tool \in {"create", "restore", "balance", "sign", "send"} -> WalletReads(c)
      [] c.tool \in {"score", "breakdown", "credit_line", "interest_rate"} -> ScorerReads(c)
      [] c.tool \in {"stats", "poll", "epoch_history"} -> MonitorReads(c)
      [] c.tool = "alert_check" -> AlertReads(c)
      [] c.tool \in {"status", "approve_drawdown"} -> LoanReads(c)
      [] c.tool \in {"deny_drawdown", "track_repayment"} -> DenialReads(c)
      [] c.tool \in {"flag_delinquent", "trigger_freeze"} -> EscalationReads(c)
      [] c.tool = "scan_yields" -> ScanReads(c)
      [] c.tool = "compare_vaults" -> CompareReads(c)
      [] c.tool \in {"recommend_rebalance", "execute_rebalance"} -> RebalanceReads(c)
      [] c.tool \in {"verify_proof", "generate_attestation", "check_threshold"} -> ProofReads(c)
      [] c.tool \in {"negotiate", "evaluate_proposal", "finalize_terms"} -> NegotiatorReads(c)
      [] c.tool = "find_liquidity" -> LiquidityReads(c)
      [] c.tool = "request_peer_loan" -> PeerRequestReads(c)
      [] c.tool = "approve_peer_loan" -> PeerApprovalReads(c)
      [] c.tool = "track_peer_exposure" -> ExposureReads(c)

\* How the calls in a think are made up.
PairTools == {"execute_rebalance", "request_peer_loan", "approve_peer_loan"}
AgentTools == {"score", "breakdown", "credit_line", "interest_rate", "status", "deny_drawdown",
               "track_repayment", "flag_delinquent", "trigger_freeze", "verify_proof",
               "generate_attestation", "check_threshold", "evaluate_proposal"}
OtherTools == {"create", "restore", "balance", "sign", "stats", "poll", "epoch_history",
               "alert_check"}
Asked(a, b, amount, rate) ==
    {Call(t, a, a, 0, 0) : t \in AgentTools} \cup {Call(t, Own, Own, 0, 0) : t \in OtherTools}
    \cup {Call(t, a, b, amount, 0) : t \in PairTools}
    \cup {Call(t, Least(a, b), Most(a, b), 0, 0) : t \in Loops}
    \cup {Call(t, a, a, amount, 0) : t \in {"approve_drawdown", "negotiate", "send"}}
    \cup {Call("finalize_terms", a, a, amount, rate)}

-----------------------------------------------------------------------------
(* The steps of a call. *)

Fault ==
    /\ past.faults < MaxFaults
    /\ past' = [past EXCEPT !.faults = @ + 1]

\* A read returns.
Read ==
    /\ call.tool # "none"
    /\ \E f \in Reads(call) :
         call' = [call EXCEPT !.seen = [g \in DOMAIN @ \cup {f} |->
                                          IF g = f THEN Value(f) ELSE @[g]]]
    /\ UNCHANGED <<chain, box, purse, tick, offer, past>>

\* The catch of an item in a loop: the scan goes on without it.
ItemFailed(c, a) == [c EXCEPT !.failed = @ \cup {a}]
ItemFails ==
    /\ call.tool \in Loops
    /\ Fault
    /\ \E f \in Reads(call) \ {Thought} : call' = ItemFailed(call, f[2])
    /\ UNCHANGED <<chain, box, purse, tick, offer>>

Asleep == [at |-> 0, status |-> 0, owing |-> FALSE, reported |-> FALSE]

\* Variant: nothing catches, the first tick's rejection ends main and no timer is set.
TickThrows == tick' = [tick EXCEPT !.at = Len(TickSteps) + 1]
\* The catch of the tick: what is left of it is skipped.
TickCaught == tick' = Asleep
Rejected ==
    IF tick.at = Len(TickSteps) THEN UNCHANGED <<tick, offer>>
    ELSE TickCaught /\ offer' = NoOffer

\* Any other read rejects the call.  In a think that is for the model to see.
CallFails ==
    /\ call.tool # "none" /\ Reads(call) # {}
    /\ call.tool \in Loops => Reads(call) = {Thought}
    /\ Fault /\ Rejected
    /\ call' = NoCall
    /\ UNCHANGED <<chain, box, purse>>

Answered(tool) == call.tool = tool /\ Reads(call) = {}

-----------------------------------------------------------------------------
(* Negotiation. *)

\* Variant: without the maximum.
ClampedBelow(rate) == IF rate = NaN THEN NaN ELSE Most(MinRate, rate)
\* Math.max(300, Math.min(2500, rate)), which hands a NaN through.
Clamped(rate) == IF rate = NaN THEN NaN ELSE Most(MinRate, Least(MaxRate, rate))

\* Variant: the other bound forgotten.
NamedUnraised(amount, limit) == Least(amount, limit)
\* An amount the model named: to the limit, then up to the least drawdown.
NamedAmount(amount, limit) == Most(MinDrawdown, Least(amount, limit))

\* The counter-offer.  The reply gives an amount and a rate, 0 where it names
\* none; a reply that cannot be read gives neither.
CounterOffer(c, amount, rate) ==
    LET terms == c.seen[<<"terms", c.a>>] IN
    [on |-> c.a,
     amount |-> IF amount # 0 THEN NamedAmount(amount, terms.limit)
                ELSE Least(c.amount, terms.limit),
     rate |-> IF rate # 0 THEN Clamped(rate) ELSE terms.rate,
     small |-> amount = 0 /\ c.amount < MinDrawdown,
     same |-> chain[c.a].terms = terms /\ chain[c.a].status = c.seen[<<"status", c.a>>]]

\* finalize_terms: its comparisons let a rate that is no number pass.
Finalized(c) ==
    /\ c.amount <= c.seen[<<"terms", c.a>>].limit /\ c.amount >= MinDrawdown
    /\ c.rate = NaN \/ c.rate \in MinRate..MaxRate
    /\ c.seen[<<"status", c.a>>] = 0

\* evaluate_proposal: the points a proposal loses for an amount over the limit, a
\* rate under the scorer's and a duration the score does not carry.
AmountPenalty(amount, limit) ==
    IF amount > limit THEN Least(50, ((amount - limit) * 100) \div limit) ELSE 0
RatePenalty(rate, base) ==
    IF rate > 0 /\ rate < base THEN Least(30, (base - rate + 5) \div 10) ELSE 0
DurationPenalty(days, score) ==
    IF score < 500 /\ days > 90 THEN Least(20, (days - 85) \div 10) ELSE 0

FitScore(c, days) ==
    LET terms == c.seen[<<"terms", c.a>>] IN
    Most(0, 100 - AmountPenalty(c.amount, terms.limit) - RatePenalty(c.rate, terms.rate)
                - DurationPenalty(days, c.seen[<<"score", c.a>>]))
Viable(c, days) == FitScore(c, days) >= 50 /\ c.seen[<<"status", c.a>>] = 0

-----------------------------------------------------------------------------
(* Answers in a think. *)

InThink == tick.at = Len(TickSteps)

\* An answer the model reads; send has submitted its transfer, which may revert.
AnswerToModel ==
    /\ InThink /\ call.tool # "none" /\ Reads(call) = {}
    /\ IF call.tool = "negotiate" /\ Negotiable(call)
       THEN \E amount \in Amounts \cup {0}, rate \in Rates \cup {0, NaN} :
              offer' = CounterOffer(call, amount, rate)
       ELSE offer' = NoOffer
    /\ purse' \in {purse} \cup IF call.tool = "send" /\ call.amount <= purse
                              THEN {purse - call.amount} ELSE {}
    /\ call' = NoCall
    /\ UNCHANGED <<chain, box, tick, past>>

\* The model calls a tool, or finalizes the counter-offer it was given.
ModelCalls ==
    /\ InThink /\ call.tool = "none" /\ past.calls < MaxCalls
    /\ past' = [past EXCEPT !.calls = @ + 1]
    /\ \E a, b \in Agents, amount \in Amounts, rate \in Rates :
         call' \in Asked(a, b, amount, rate)
    /\ offer' = NoOffer
    /\ UNCHANGED <<chain, box, purse, tick>>

ModelAccepts ==
    /\ InThink /\ call.tool = "none" /\ offer.amount > 0
    /\ call' = Call("finalize_terms", offer.on, offer.on, offer.amount, offer.rate)
    /\ UNCHANGED <<chain, box, purse, tick, offer, past>>

\* agent.think answers, or throws into the tick's catch: the tick is over.
ThinkEnds ==
    /\ InThink /\ call.tool = "none"
    /\ tick' = Asleep /\ offer' = NoOffer
    /\ past' = [past EXCEPT !.calls = 0]
    /\ UNCHANGED <<chain, box, purse, call>>

-----------------------------------------------------------------------------
(* The tick. *)

\* main's first tick, then the interval's.
TickStarts ==
    /\ tick.at = 0
    /\ tick' = [tick EXCEPT !.at = 1]
    /\ call' = Call(TickSteps[1], Own, Own, 0, 0)
    /\ UNCHANGED <<chain, box, purse, offer, past>>

\* Steps 6, 7 and 8 depend on what the first step returned.
Wanted(i, t) ==
    /\ TickSteps[i] = "track_repayment" => t.status # 0 \/ t.owing
    /\ TickSteps[i] = "flag_delinquent" => t.status = 1
    /\ TickSteps[i] = "trigger_freeze" => t.status = 2

\* What the tick keeps of an answer.
Kept ==
    IF call.tool = "status"
    THEN [tick EXCEPT !.status = call.seen[<<"status", Own>>],
                      !.owing = call.seen[<<"principal", Own>>] > 0]
    ELSE [tick EXCEPT !.reported = call.tool = "trigger_freeze"]

TickGoesOn ==
    /\ tick.at \in 1..Len(TickSteps) - 1
    /\ call.tool # "none" /\ Reads(call) = {}
    /\ LET next == Min({i \in tick.at + 1..Len(TickSteps) : Wanted(i, Kept)}) IN
       /\ tick' = [Kept EXCEPT !.at = next]
       /\ call' = IF TickSteps[next] = "think" THEN NoCall
                  ELSE Call(TickSteps[next], Own, Own, 0, 0)
    /\ UNCHANGED <<chain, box, purse, offer, past>>

-----------------------------------------------------------------------------
Process == TickStarts \/ Read \/ TickGoesOn \/ AnswerToModel \/ ThinkEnds
LendingNext == ChainMoves \/ Process \/ ItemFails \/ CallFails \/ ModelCalls \/ ModelAccepts

\* The interval fires, reads and thinks end; the model need not call anything and
\* the chain need not move.
LendingSpec == LendingInit /\ [][LendingNext]_lendingVars /\ WF_lendingVars(Process)

-----------------------------------------------------------------------------
(* Properties. *)

\* The tick is at one of its steps, debts are nonnegative and were borrowed, an
\* offer's rate is one finalize_terms accepts or no number.
LendingTypeOK ==
    /\ tick.at \in 0..Len(TickSteps) /\ tick.status \in Statuses
    /\ \A a \in Agents :
         /\ chain[a].status \in Statuses /\ chain[a].due \in chain[a].status..2
         /\ chain[a].principal \in 0..chain[a].borrowed /\ chain[a].liquidity \in Nat
    /\ purse \in Nat /\ call.failed \subseteq Agents
    /\ offer.on \in Agents /\ offer.amount \in Nat
    /\ offer.rate \in MinRate..MaxRate \cup {NaN}

\* track_repayment reads the principal and then the total borrowed, between which
\* the agent may borrow or pay: it never reports less repaid than was when the
\* call began, a negative amount least of all.
RepaidIsCounted(c) == c.tool = "track_repayment" => TotalRepaid(c) >= c.base

\* The epochs alert_check calls consecutive without revenue had none when the call
\* began, although the epoch may change and revenue come in during its reads.
AlertIsTrue(c) ==
    c.tool = "alert_check" =>
        \A i \in 0..MissedEpochs(c) - 1 :
            LET e == c.seen[Epoch] - i IN e + 1 \in DOMAIN c.old => c.old[e + 1] = 0

\* find_liquidity lists every vault asked for that was registered, thawed and
\* liquid all along, but those whose own reads failed.
ScanIsComplete(c) ==
    c.tool = "find_liquidity" => {c.a, c.b} \cap c.able \subseteq Listed(c) \cup c.failed

\* What a tool answers holds of the chain it was read from piecemeal.
AnswersHold ==
    call.tool # "none" /\ Reads(call) = {} =>
        RepaidIsCounted(call) /\ AlertIsTrue(call) /\ ScanIsComplete(call)

\* A counter-offer that is accepted at once, the borrower's standing and terms
\* being the same, is finalized: negotiate and finalize_terms bound amounts and
\* rates in the same way.  Except when the borrower asked for less than the least
\* drawdown and the model named no amount, which only finalize_terms minds.  And
\* evaluate_proposal, asked of the same standing, calls viable what is finalized,
\* for whatever duration.
CounterOfferStands ==
    Answered("finalize_terms") =>
        /\ offer.amount > 0 /\ offer.same /\ ~offer.small => Finalized(call)
        /\ Finalized(call) => \A days \in Durations : Viable(call, days)

\* An agent whose stored status is DEFAULT is escalated by some tick: reads that
\* fail cost the tick they fail in, and no later one.
DefaultIsReported == chain[Own].status = 2 ~> tick.reported
=============================================================================
