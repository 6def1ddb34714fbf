---------------------------- MODULE CreditScorer ----------------------------
(***************************************************************************)
(* CreditScorer (contracts/src/CreditScorer.sol): the limit and the rate   *)
(* that AgentCreditLine asks for in every drawdown and refresh, computed   *)
(* from what the lockbox and the credit line have stored.  Here the scorer *)
(* is composed with both: CreditLine's Offers become its answers, and this *)
(* specification implements LockboxSpec.                                   *)
(*                                                                         *)
(* Scores are percentages and the weights are the code's.  The agent       *)
(* registers at time 1, when every behaviour starts.  Three of the four    *)
(* final clamps are left out: the score is within 0..100, so only the      *)
(* proof's bonus can leave the range, and only upwards.                    *)
(***************************************************************************)
EXTENDS RevenueLockbox

CONSTANTS
    DeployedParams,  \* the parameters the contract is deployed with
    ParamChoices,    \* the parameters the owner may ask setParameters for
    HistoryLoans,    \* repaid loans that make a full credit history (3)
    HistoryFloor,    \* minimum credit lines borrowed for it to count fully (5)
    DayLength,       \* 1 days
    MaturityDays,    \* MAX_MATURITY_DAYS
    Verifiers        \* whether a ZK verifier is set, at the start or by the owner

Params == [minCreditLine : Nat, maxCreditLine : Nat, minRate : Nat, maxRate : Nat,
           revenueMultiplier : Nat, minEpochRevenue : Nat]

\* What setParameters requires.
ParamsAccepted(p) ==
    /\ p.minCreditLine <= p.maxCreditLine
    /\ p.minRate <= p.maxRate
    /\ p.maxRate <= BPS

ASSUME ScorerAssumption ==
    /\ DeployedParams \in Params /\ ParamsAccepted(DeployedParams)
    /\ ParamChoices \subseteq Params
    /\ HistoryLoans \in Nat \ {0} /\ HistoryFloor \in Nat
    /\ DayLength \in Nat \ {0} /\ MaturityDays \in Nat \ {0}
    /\ Verifiers \subseteq BOOLEAN
    /\ \A p \in ParamChoices \cup {DeployedParams} : ParamsAccepted(p) =>
         [limit : p.minCreditLine..p.maxCreditLine, rate : p.minRate..p.maxRate]
             \subseteq Offers

VARIABLE scorer  \* the parameters, and whether the two addresses are set

ScorerType == [params : {p \in Params : ParamsAccepted(p)},
               creditLine : BOOLEAN, zkVerifier : BOOLEAN]

scoredVars == <<creditVars, lockboxVars, scorer>>

ScorerInit ==
    /\ LockboxInit
    /\ \E set \in Verifiers :
         scorer = [params |-> DeployedParams, creditLine |-> FALSE, zkVerifier |-> set]

-----------------------------------------------------------------------------
(* The five factors, each from 0 to 100. *)

Percent == 0..100

Revenue == lockbox.totalRevenueCapture

\* With equal limits one of the first two cases holds, so nothing is divided by 0.
ScoreRevenue(p) ==
    LET base == ((Revenue \div (CurrentEpoch + 1)) * p.revenueMultiplier) \div 100
    IN  IF base >= p.maxCreditLine THEN 100
        ELSE IF base <= p.minCreditLine THEN 0
        ELSE ((base - p.minCreditLine) * 100) \div (p.maxCreditLine - p.minCreditLine)

\* In the first epoch any revenue is half a score.
EpochsActive ==
    IF CurrentEpoch > 0 THEN lockbox.epochsWithRevenue
    ELSE IF Revenue > 0 THEN 1 ELSE 0

ScoreConsistency(p) ==
    LET steady == IF CurrentEpoch > 0
                  THEN Lesser((EpochsActive * 100) \div (CurrentEpoch + 1), 100)
                  ELSE 50 * EpochsActive
        poor   == EpochsActive > 0 /\ Revenue \div EpochsActive < p.minEpochRevenue
    IN  IF poor THEN steady \div 2 ELSE steady

ScoreCreditHistory(p) ==
    LET completed == IF loansRepaid >= HistoryLoans THEN 100
                     ELSE (loansRepaid * 100) \div HistoryLoans
        counted   == IF totalAmountBorrowed < p.minCreditLine * HistoryFloor
                     THEN completed \div 3 ELSE completed
    IN  IF ~scorer.creditLine \/ facility.status = "DEFAULT" THEN 0
        ELSE IF facility.status = "DELINQUENT" THEN counted \div 2
        ELSE counted

ScoreTime ==
    LET days == (now - 1) \div DayLength
    IN  IF days >= MaturityDays THEN 100 ELSE (days * 100) \div MaturityDays

\* Variant: the share of the debt is scored, not what is left of the whole.
DebtRatioInverted ==
    IF ~scorer.creditLine \/ Revenue = 0 THEN 100
    ELSE Lesser(100, (Outstanding(facility, now) * 100) \div Revenue)

ScoreDebtRatio ==
    IF ~scorer.creditLine \/ Revenue = 0 THEN 100
    ELSE Monus(100, (Outstanding(facility, now) * 100) \div Revenue)

CompositeScore ==
    LET p == scorer.params
    IN  (ScoreRevenue(p) * 30 + ScoreConsistency(p) * 25 + ScoreCreditHistory(p) * 20
           + ScoreTime * 15 + ScoreDebtRatio * 10) \div 100

-----------------------------------------------------------------------------
(* The answer. *)

ProofBonus == scorer.zkVerifier /\ gate["proofValid"]

\* Variant: the bonus of a valid proof is given after the clamp.
BonusUnclamped(limit) == IF ProofBonus THEN (limit * 125) \div 100 ELSE limit

\* The bonus, then the clamp from above; the limit starts at the minimum.
Boosted(limit) ==
    Lesser(IF ProofBonus THEN (limit * 125) \div 100 ELSE limit,
           scorer.params.maxCreditLine)

CreditLimit ==
    LET p == scorer.params
    IN  Boosted(p.minCreditLine
                  + (CompositeScore * (p.maxCreditLine - p.minCreditLine)) \div 100)

\* Variant: the rate climbs with the score.
RateClimbs ==
    LET p == scorer.params
    IN  p.minRate + (CompositeScore * (p.maxRate - p.minRate)) \div 100

InterestRate ==
    LET p == scorer.params
    IN  p.maxRate - (CompositeScore * (p.maxRate - p.minRate)) \div 100

\* calculateCreditLine
Answer == [limit |-> CreditLimit, rate |-> InterestRate]

DrawdownTerms == Answer

-----------------------------------------------------------------------------
(* Steps. *)

\* Variant: setParameters takes whatever the owner asks for.
SetParametersUnchecked(p) ==
    /\ scorer' = [scorer EXCEPT !.params = p]
    /\ UNCHANGED <<creditVars, lockboxVars>>

SetParameters(p) ==
    /\ ParamsAccepted(p)
    /\ scorer' = [scorer EXCEPT !.params = p]
    /\ UNCHANGED <<creditVars, lockboxVars>>

\* The credit line is wired once, at deployment or later.
SetCreditLine ==
    /\ scorer' = [scorer EXCEPT !.creditLine = TRUE]
    /\ UNCHANGED <<creditVars, lockboxVars>>

SetZKVerifier(set) ==
    /\ scorer' = [scorer EXCEPT !.zkVerifier = set]
    /\ UNCHANGED <<creditVars, lockboxVars>>

\* CreditLine's steps, where the scorer's answer is the offer.
CreditStep ==
    \/ \E amount \in MinDrawdown..MaxLent : Drawdown(amount, DrawdownTerms)
    \/ RefreshCreditLine(Answer)
    \/ UpdateStatus
    \/ \E amount \in Amounts, byAgent \in BOOLEAN : Repay(amount, byAgent)
    \/ OwnerNext
    \/ BackersNext
    \/ Tick

ScorerNext ==
    \/ CreditStep /\ UNCHANGED <<lockboxVars, scorer>>
    \/ ProcessRevenue /\ UNCHANGED scorer
    \/ \E amount \in Payments : RevenueArrives(amount) /\ UNCHANGED scorer
    \/ \E p \in ParamChoices : SetParameters(p)
    \/ SetCreditLine
    \/ \E set \in Verifiers : SetZKVerifier(set)

ScorerSpec == ScorerInit /\ [][ScorerNext]_scoredVars

-----------------------------------------------------------------------------
(* Properties. *)

\* Types, and that the parameters in force are ones setParameters accepts.
ScorerTypeOK == scorer \in ScorerType

\* The scorer's answers are what CreditLine assumes of them, so whatever holds of
\* LockboxSpec holds of the contracts together.
AnswersAreOffers == LockboxSpec

\* In every state the answer is inside the parameters then in force, whatever
\* the agent's revenue, epochs, history, age and debt are.
AnswerWithinParams ==
    /\ CreditLimit \in scorer.params.minCreditLine..scorer.params.maxCreditLine
    /\ InterestRate \in scorer.params.minRate..scorer.params.maxRate

\* Lowering the debt, by paying all or part of it or by a write-down, never
\* lowers the score, whatever else it does to status, clock and history.
PayingNeverHurts ==
    [][Outstanding(facility', now') < Outstanding(facility, now) /\ UNCHANGED lockbox =>
          CompositeScore' >= CompositeScore]_scoredVars

\* Terms get better or worse together: with the parameters and the proof as they
\* were, no step raises both the limit and the rate, or lowers both.
TermsMoveTogether ==
    [][UNCHANGED <<scorer, gate>> =>
          /\ CreditLimit' > CreditLimit => InterestRate' <= InterestRate
          /\ InterestRate' > InterestRate => CreditLimit' <= CreditLimit]_scoredVars
=============================================================================
