---------------------------- MODULE CreditLedger ----------------------------
(***************************************************************************)
(* The backend's books of an agent's credit (backend/src): the requests    *)
(* that score it, draw and repay (credit/service.py), and the worker that  *)
(* marks what is overdue (workers/monitoring_worker.py), all on one        *)
(* database.                                                               *)
(*                                                                         *)
(* A request or a sweep is a transaction at the database's default level:  *)
(* a SELECT answers with what was committed when it ran, an UPDATE sets    *)
(* the columns that differ from what was read to values computed from      *)
(* what was read, waits for whoever has updated the row, and shows when    *)
(* the transaction commits.  An action is the code from one statement's    *)
(* answer to the next that matters.  The last UPDATE of a transaction is   *)
(* one step with its commit: nothing is waited for in between.             *)
(*                                                                         *)
(* One agent, activated.  Amounts are in the smallest unit of a column.    *)
(***************************************************************************)
EXTENDS Integers, FiniteSets, FiniteSetsExt

CONSTANTS
    MaxDraws,         \* bound: rows of credit_draws there will be
    Requests,         \* requests that can be served at once
    Amounts,          \* amounts drawn or repaid
    Tenors,           \* days of a draw
    Scores,           \* answers of compute_credit_score: [max, rate]
    RatePeriod,       \* rate times days of a full interest: 10000 * 365
    DelinquentAfter,  \* OVERDUE_DAYS_DELINQUENT
    DefaultAfter,     \* OVERDUE_DAYS_DEFAULT
    Budgets,          \* bounds: days, faults and requests of each kind there will be
    NoLine

ASSUME LedgerAssumption ==
    /\ Amounts \subseteq Nat \ {0} /\ Tenors \subseteq Nat
    /\ Scores \subseteq [max : Nat, rate : Nat] /\ NoLine \notin [max : Nat, used : Nat, rate : Nat]
    /\ RatePeriod \in Nat \ {0}
    /\ DelinquentAfter \in Nat /\ DefaultAfter \in Nat /\ DelinquentAfter <= DefaultAfter
    /\ MaxDraws \in Nat
    /\ Budgets \subseteq
           [days : Nat, faults : Nat, scores : Nat, draws : 0..MaxDraws, repays : Nat]

VARIABLES
    day,
    line,    \* the row of credit_lines, or NoLine
    agent,   \* agents.status
    draws,   \* the rows of credit_draws; status "none": not inserted
    alerts,  \* titles of agent_alerts that are not resolved (none ever is)
    call,    \* where each request stands, and what it has read
    sweep,   \* where the monitoring worker stands, and what it has read
    past     \* bounds and history: the budget left; the highest max_amount; whether an update
             \* was computed from a row that had changed; the repayments before that

ledgerVars == <<day, line, agent, draws, alerts, call, sweep, past>>

Draws == 1..MaxDraws
Lines == [max : Nat, used : Nat, rate : Nat]
Rows == [status : {"none", "ACTIVE", "REPAID", "DEFAULTED"},
         amount : Nat, due : Nat, repaid : Nat, dueAt : Nat]
Idle == [at |-> "idle"]
Resting == [at |-> "sleep", day |-> 0, late |-> {}, todo |-> {}, marked |-> {}]

LedgerInit ==
    /\ day = 0 /\ line = NoLine /\ agent = "ACTIVE" /\ alerts = {}
    /\ draws = [d \in Draws |->
                  [status |-> "none", amount |-> 0, due |-> 0, repaid |-> 0, dueAt |-> 0]]
    /\ call = [r \in Requests |-> Idle]
    /\ sweep = Resting
    /\ \E left \in Budgets :
         past = [left |-> left, high |-> 0, lost |-> FALSE, releases |-> 0]

-----------------------------------------------------------------------------
(* Helpers. *)

\* quantize: to the nearest unit, ties to the even one.
Quantized(a, b) ==
    LET q == a \div b IN
    IF 2 * (a % b) > b \/ (2 * (a % b) = b /\ q % 2 = 1) THEN q + 1 ELSE q

\* A column is updated if its new value differs from the one that was read.
Column(stored, seen, new) == IF new = seen THEN stored ELSE new

\* No other transaction has updated the row and not yet ended.
Unlocked(d, who) ==
    /\ d \notin sweep.marked
    /\ \A r \in Requests \ {who} : call[r].at = "releasing" => call[r].draw # d

Ends(r) == call' = [call EXCEPT ![r] = Idle]

Spend(kind) == past.left[kind] > 0 /\ past' = [past EXCEPT !.left[kind] = @ - 1]

-----------------------------------------------------------------------------
(* score_agent. *)

\* The agent must be active or delinquent; its line is read after its revenue.
ScoreReads(r) ==
    /\ call[r].at = "idle"
    /\ agent \in {"ACTIVE", "DELINQUENT"}
    /\ Spend("scores")
    /\ \E score \in Scores :
         call' = [call EXCEPT ![r] = [at |-> "scoring", score |-> score, line |-> line]]
    /\ UNCHANGED <<day, line, agent, draws, alerts, sweep>>

\* A first score inserts the line; of two first scores one is refused.
LineScored(seen, score) ==
    IF seen = NoLine
    THEN IF line = NoLine THEN [max |-> score.max, used |-> 0, rate |-> score.rate] ELSE line
    ELSE [line EXCEPT !.max = Column(@, seen.max, score.max),
                      !.rate = Column(@, seen.rate, score.rate)]

ScoreWrites(r) ==
    /\ call[r].at = "scoring"
    /\ line' = LineScored(call[r].line, call[r].score)
    /\ past' = [past EXCEPT !.high = Max({@, line'.max})]
    /\ Ends(r)
    /\ UNCHANGED <<day, agent, draws, alerts, sweep>>

-----------------------------------------------------------------------------
(* draw_credit. *)

Available(l) == l.max - l.used

DrawReads(r) ==
    /\ call[r].at = "idle" /\ line # NoLine /\ Spend("draws")
    /\ \E amount \in Amounts, tenor \in Tenors :
         /\ amount <= Available(line)
         /\ call' = [call EXCEPT ![r] = [at |-> "drawing", amount |-> amount,
                                         tenor |-> tenor, line |-> line]]
    /\ UNCHANGED <<day, line, agent, draws, alerts, sweep>>

NewDraw(c) ==
    [status |-> "ACTIVE", amount |-> c.amount,
     due |-> c.amount + Quantized(c.amount * c.line.rate * c.tenor, RatePeriod),
     repaid |-> 0, dueAt |-> day + c.tenor]

UsedAfterDraw(c) == c.line.used + c.amount

DrawWrites(r) ==
    /\ call[r].at = "drawing"
    /\ \E d \in Draws : /\ draws[d].status = "none"
                        /\ \A e \in 1..(d - 1) : draws[e].status # "none"
                        /\ draws' = [draws EXCEPT ![d] = NewDraw(call[r])]
    /\ line' = [line EXCEPT !.used = UsedAfterDraw(call[r])]
    /\ past' = [past EXCEPT !.lost = @ \/ line.used # call[r].line.used]
    /\ Ends(r)
    /\ UNCHANGED <<day, agent, alerts, sweep>>

-----------------------------------------------------------------------------
(* repay_credit. *)

\* What the repayment must not exceed.
Remaining(row) == row.due - row.repaid

RepayReads(r) ==
    /\ call[r].at = "idle" /\ Spend("repays")
    /\ \E d \in Draws, amount \in Amounts :
         /\ draws[d].status = "ACTIVE"
         /\ amount <= Remaining(draws[d])
         /\ call' = [call EXCEPT ![r] = [at |-> "repaying", draw |-> d, amount |-> amount,
                                         row |-> draws[d]]]
    /\ UNCHANGED <<day, line, agent, draws, alerts, sweep>>

\* Selecting the line flushes the draw first: its row is locked from here on.
RepayFlushes(r) ==
    /\ call[r].at = "repaying" /\ Unlocked(call[r].draw, r)
    /\ call' = [call EXCEPT ![r] = [at |-> "releasing", draw |-> @.draw, amount |-> @.amount,
                                    row |-> @.row, line |-> line]]
    /\ UNCHANGED <<day, line, agent, draws, alerts, sweep, past>>

\* Variant: the row is written whole, with the status that was read.
RepaidAsRead(row, c) ==
    [row EXCEPT !.repaid = c.row.repaid + c.amount,
                !.status = IF c.row.repaid + c.amount >= c.row.due THEN "REPAID" ELSE c.row.status]

\* The row with the repayment: REPAID when nothing remains.
Repaid(row, c) ==
    [row EXCEPT !.repaid = c.row.repaid + c.amount,
                !.status = IF c.row.repaid + c.amount >= c.row.due THEN "REPAID" ELSE @]

\* Variant: the interest is released with the principal.
ReleaseAll(c) == Max({0, c.line.used - c.amount})

\* The principal's part of the repayment is free again.
UsedAfterRelease(c) == Max({0, c.line.used - Quantized(c.amount * c.row.amount, c.row.due)})

RepayWrites(r) ==
    LET c == call[r]
        lost == past.lost \/ draws[c.draw].repaid # c.row.repaid \/ line.used # c.line.used
    IN
    /\ c.at = "releasing"
    /\ draws' = [draws EXCEPT ![c.draw] = Repaid(@, c)]
    /\ line' = [line EXCEPT !.used = Column(@, c.line.used, UsedAfterRelease(c))]
    /\ past' = [past EXCEPT !.lost = lost, !.releases = IF lost THEN 0 ELSE @ + 1]
    /\ Ends(r)
    /\ UNCHANGED <<day, agent, alerts, sweep>>

\* A statement fails, or the client is gone: get_session rolls back.
RequestFails(r) ==
    /\ call[r].at # "idle" /\ Spend("faults")
    /\ Ends(r)
    /\ UNCHANGED <<day, line, agent, draws, alerts, sweep>>

-----------------------------------------------------------------------------
(* The monitoring worker: one sweep after the other. *)

\* Overdue by more than the days for a delinquency, not by those for a default.
Delinquent(d) ==
    /\ draws[d].status = "ACTIVE"
    /\ draws[d].dueAt < day - DelinquentAfter /\ draws[d].dueAt >= day - DefaultAfter

DefaultedBy(d, asOf) ==
    draws[d].status = "ACTIVE" /\ draws[d].dueAt < asOf - DefaultAfter

\* The first query, and for its draws the agent's update and an alert.
SweepFindsLate ==
    /\ sweep.at = "sleep"
    /\ sweep' = [Resting EXCEPT !.at = "late", !.day = day,
                                !.late = {d \in Draws : Delinquent(d)}]
    /\ UNCHANGED <<day, line, agent, draws, alerts, call, past>>

\* The second query, with the time of the first.
SweepFindsDefaults ==
    /\ sweep.at = "late"
    /\ sweep' = [sweep EXCEPT !.at = "marking",
                              !.todo = {d \in Draws : DefaultedBy(d, sweep.day)}]
    /\ UNCHANGED <<day, line, agent, draws, alerts, call, past>>

\* The agent's update flushes the draw's first.
SweepMarks(d) ==
    /\ sweep.at = "marking" /\ d \in sweep.todo \ sweep.marked /\ Unlocked(d, "sweep")
    /\ sweep' = [sweep EXCEPT !.marked = @ \cup {d}]
    /\ UNCHANGED <<day, line, agent, draws, alerts, call, past>>

\* Variant: only an active agent is marked, in both updates.
MarkedIfActive ==
    IF agent # "ACTIVE" THEN agent
    ELSE IF sweep.marked # {} THEN "DEFAULTED"
    ELSE IF sweep.late # {} THEN "DELINQUENT" ELSE agent

\* Delinquent only if active, defaulted whatever it was.
AgentAfterSweep ==
    IF sweep.marked # {} THEN "DEFAULTED"
    ELSE IF sweep.late # {} /\ agent = "ACTIVE" THEN "DELINQUENT" ELSE agent

SweepCommits ==
    /\ sweep.at = "marking" /\ sweep.marked = sweep.todo
    /\ draws' = [d \in Draws |-> IF d \in sweep.marked
                                 THEN [draws[d] EXCEPT !.status = "DEFAULTED"] ELSE draws[d]]
    /\ agent' = AgentAfterSweep
    /\ alerts' = alerts \cup {t \in {"Payment overdue", "Credit default"} :
                                (IF t = "Payment overdue" THEN sweep.late ELSE sweep.marked) # {}}
    /\ sweep' = Resting
    /\ UNCHANGED <<day, line, call, past>>

\* Variant: what a sweep throws ends the loop.
LoopEnds == [Resting EXCEPT !.at = "ended"]

\* run_once catches what a sweep throws; _run_loop goes on with the next.
AfterFailure == Resting

SweepFails ==
    /\ sweep.at \in {"late", "marking"} /\ Spend("faults")
    /\ sweep' = AfterFailure
    /\ UNCHANGED <<day, line, agent, draws, alerts, call>>

-----------------------------------------------------------------------------

Tick ==
    /\ Spend("days") /\ day' = day + 1
    /\ UNCHANGED <<line, agent, draws, alerts, call, sweep>>

Request(r) == ScoreReads(r) \/ DrawReads(r) \/ RepayReads(r)
Serving(r) == ScoreWrites(r) \/ DrawWrites(r) \/ RepayFlushes(r) \/ RepayWrites(r)
Sweeping ==
    \/ SweepFindsLate \/ SweepFindsDefaults \/ SweepCommits
    \/ \E d \in Draws : SweepMarks(d)

LedgerNext ==
    \/ \E r \in Requests : Request(r) \/ Serving(r) \/ RequestFails(r)
    \/ Sweeping \/ SweepFails
    \/ Tick

\* The server goes on with what it serves, the scheduler with its worker's loop.
LedgerSpec ==
    /\ LedgerInit /\ [][LedgerNext]_ledgerVars
    /\ \A r \in Requests : WF_ledgerVars(Serving(r))
    /\ WF_ledgerVars(Sweeping)

-----------------------------------------------------------------------------
(* Properties. *)

Calls ==
    {Idle}
    \cup [at : {"scoring"}, score : Scores, line : Lines \cup {NoLine}]
    \cup [at : {"drawing"}, amount : Amounts, tenor : Tenors, line : Lines]
    \cup [at : {"repaying"}, draw : Draws, amount : Amounts, row : Rows]
    \cup [at : {"releasing"}, draw : Draws, amount : Amounts, row : Rows, line : Lines]

\* The rows, and what each transaction has read of them, keep their types.
LedgerTypeOK ==
    /\ day \in Nat
    /\ line \in Lines \cup {NoLine}
    /\ agent \in {"ACTIVE", "DELINQUENT", "DEFAULTED"}
    /\ draws \in [Draws -> Rows]
    /\ alerts \subseteq {"Payment overdue", "Credit default"}
    /\ call \in [Requests -> Calls]
    /\ sweep \in [at : {"sleep", "late", "marking"}, day : Nat, late : SUBSET Draws,
                  todo : SUBSET Draws, marked : SUBSET Draws]
    /\ past \in [left : [days : Nat, faults : Nat, scores : Nat, draws : Nat, repays : Nat],
                 high : Nat, lost : BOOLEAN, releases : Nat]

\* The principal of a draw that is not repaid, to the nearest unit.
OpenPrincipal(d) ==
    IF draws[d].status = "none" THEN 0
    ELSE Quantized(draws[d].amount * Remaining(draws[d]), draws[d].due)

Abs(n) == IF n < 0 THEN -n ELSE n

\* The sum of a column of the draws.
Total(column) ==
    LET sum[n \in 0..MaxDraws] == IF n = 0 THEN 0 ELSE sum[n - 1] + column[n]
    IN  sum[MaxDraws]

\* Requests overlap and overwrite each other's sums (draw_credit, repay_credit), a score
\* lowers the line under a draw: still no draw is booked as repaid beyond what is due, and
\* what the line shows as used never passes the highest line the agent had, nor what its
\* draws amount to.  As long as no update was computed from a row that had changed, it is
\* the principal that is open, up to half a unit for each repayment: releasing principal
\* in parts neither frees nor keeps credit (repay_credit's ratio and its max).
LineFollowsDebts ==
    LET partly == {d \in Draws : draws[d].repaid \in 1..(draws[d].due - 1)} IN
    /\ \A d \in Draws : draws[d].repaid <= draws[d].due
    /\ line # NoLine =>
         /\ line.used <= past.high
         /\ line.used <= Total([d \in Draws |-> draws[d].amount])
         /\ ~past.lost =>
              2 * Abs(line.used - Total([d \in Draws |-> OpenPrincipal(d)]))
                  <= past.releases + Cardinality(partly)

Falls(s, t) ==
    s = t \/ s = "ACTIVE" \/ t = "DEFAULTED"

\* A draw that was repaid or defaulted is never active again, and becomes REPAID only with
\* all that is due; an agent's standing only falls.  A repayment that began before a sweep
\* marked its draw ends after it, with a row read before.
SettledStaysSettled ==
    [][/\ Falls(agent, agent')
       /\ \A d \in Draws :
            /\ draws[d].status \in {"REPAID", "DEFAULTED"} =>
                   draws'[d].status \in {"REPAID", "DEFAULTED"}
            /\ draws'[d].status = "REPAID" /\ draws[d].status # "REPAID" =>
                   draws'[d].repaid = draws'[d].due]_ledgerVars

\* A draw that is overdue by more than the days for a default is repaid in the end, or
\* marked: on its row, on its agent and in an alert, whatever sweep failed, whichever
\* requests hold its row, and though the agent is delinquent by the same sweep.
OverdueIsDefaulted ==
    \A d \in Draws :
        DefaultedBy(d, day) ~>
            \/ draws[d].status = "REPAID"
            \/ /\ draws[d].status = "DEFAULTED" /\ agent = "DEFAULTED"
               /\ "Credit default" \in alerts

=============================================================================
