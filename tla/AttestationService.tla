------------------------- MODULE AttestationService -------------------------
(***************************************************************************)
(* The TEE attestation service (tee/attestation-service/src) and the       *)
(* verifier contract it writes to.  The service keeps its results in       *)
(* memory, submits the verified ones on chain, and a cron job expires them *)
(* and raises alerts.                                                      *)
(*                                                                         *)
(* A report passes when its data binds the agent to its code hash; how     *)
(* quotes are laid out is left out.  The re-attestation callback of main   *)
(* does nothing, so that a sweep never waits for I/O: it is one step.  The *)
(* two handlers that do wait, POST /attest for its transaction and GET     *)
(* /status for the contract, are two steps each.                           *)
(***************************************************************************)
EXTENDS Integers, Sequences, SequencesExt

CONSTANTS
    Agents,
    Ttl,              \* attestationTtlSeconds
    Warning,          \* expiryWarningSeconds
    DefaultTtl,       \* defaultTTL of the contract
    MaxRecentAlerts,  \* MAX_RECENT_ALERTS
    MaxTxs,           \* bound: submissions in flight
    MaxTime           \* bound on the clock

ASSUME TeeAssumption ==
    /\ {Ttl, Warning, DefaultTtl, MaxTxs, MaxTime} \subseteq Nat
    /\ MaxRecentAlerts \in Nat \ {0}
    /\ IsFiniteSet(Agents)

VARIABLES
    time,
    store,    \* attestationStore
    alerts,   \* recentAlerts
    txs,      \* submissions not yet in a block, in nonce order
    record,   \* the contract's _records
    passed,   \* history: when the last report that passed ends to be valid; -1 is never
    reader    \* a GET /status, waiting for the contract, or its answer

teeVars == <<time, store, alerts, txs, record, passed, reader>>

Results == [status : {"UNVERIFIED", "VERIFIED", "FAILED", "EXPIRED"}, expiresAt : Nat]
NoResult == [status |-> "UNVERIFIED", expiresAt |-> 0]
Records == [status : {"UNVERIFIED", "VERIFIED", "REVOKED"}, expiresAt : Nat, late : BOOLEAN]
AlertTypes == {"expired", "expiring_soon", "failed", "re_attestation_triggered"}

\* asked: the contract's answer is awaited; same: the result held is still the
\* object in the store, which expireAttestation changes in place.
NoReader == [at |-> "none", local |-> NoResult, currentlyValid |-> FALSE,
             agent |-> "", same |-> FALSE]

TeeInit ==
    /\ time = 0
    /\ store = [a \in Agents |-> NoResult]
    /\ alerts = <<>> /\ txs = <<>>
    /\ passed = [a \in Agents |-> -1]
    /\ record = [a \in Agents |-> [status |-> "UNVERIFIED", expiresAt |-> 0, late |-> FALSE]]
    /\ reader = NoReader

-----------------------------------------------------------------------------
(* POST /attest. *)

\* Variant: a result that failed is submitted as well.
SubmittedWhatever(status) == TRUE

Submittable(status) == status = "VERIFIED"

\* What a quote comes to: it fails when it is too short, of an unknown platform, or
\* its report data is not the hash of agent and code.
Outcomes == {"VERIFIED", "FAILED"}

\* verifyAttestation: the result replaces the last one, whatever that said.  The
\* measurement and the signature are compared and logged, and decide nothing.
VerifyAttestation(a, status) ==
    /\ store' = [store EXCEPT ![a] = [status |-> status, expiresAt |-> time + Ttl]]
    /\ passed' = IF status = "VERIFIED" THEN [passed EXCEPT ![a] = time + Ttl] ELSE passed
    /\ reader' = IF reader.agent = a THEN [reader EXCEPT !.same = FALSE] ELSE reader

\* submitOnChain, up to the wait for its receipt.
SubmitOnChain(a) ==
    /\ Len(txs) < MaxTxs
    /\ txs' = Append(txs, [agent |-> a, expiresAt |-> time + Ttl])

\* The handler up to its await: verified results go to the signer, unless the
\* caller asked otherwise or no contract is configured.
Attest(a, status) ==
    /\ VerifyAttestation(a, status)
    /\ UNCHANGED txs \/ (Submittable(status) /\ SubmitOnChain(a))
    /\ UNCHANGED <<time, alerts, record>>

\* Variant: every record gets the contract's own lifetime.
ExpiryByDefault(expiresAt) == time + DefaultTtl

\* The expiry submitAttestation stores: a transaction that comes after the end of
\* the attestation is given the default lifetime from then on.
Expiry(expiresAt) == IF expiresAt > time THEN expiresAt ELSE time + DefaultTtl

SubmitAttestation ==
    /\ txs # <<>>
    /\ LET tx == Head(txs) IN
       record' = [record EXCEPT ![tx.agent] =
           [status |-> "VERIFIED", expiresAt |-> Expiry(tx.expiresAt),
            late |-> tx.expiresAt <= time]]
    /\ txs' = Tail(txs)
    /\ UNCHANGED <<time, store, alerts, passed, reader>>

\* The submission fails; the handler logs it and answers with no hash.
SubmissionFails ==
    /\ txs # <<>>
    /\ \E i \in DOMAIN txs : txs' = RemoveAt(txs, i)
    /\ UNCHANGED <<time, store, alerts, record, passed, reader>>

\* Called by the owner or the attestor's operator, never by the service.
RevokeAttestation(a) ==
    /\ record[a].status = "VERIFIED"
    /\ record' = [record EXCEPT ![a].status = "REVOKED"]
    /\ UNCHANGED <<time, store, alerts, txs, passed, reader>>

-----------------------------------------------------------------------------
(* The monitor. *)

StillValid(result) == result.status = "VERIFIED" /\ time < result.expiresAt

Overdue(a) == store[a].status = "VERIFIED" /\ time >= store[a].expiresAt

Expired(a) == IF Overdue(a) THEN [store[a] EXCEPT !.status = "EXPIRED"] ELSE store[a]

\* runReattestationSweep, its selection: of the results after this sweep's expiries.
NeedsReattestation(a) ==
    LET result == Expired(a) IN
    \/ result.status \in {"EXPIRED", "FAILED"}
    \/ result.status = "VERIFIED" /\ result.expiresAt - time <= Warning

Alert(a, type) == [agent |-> a, type |-> type]

\* The agents in the order of the map, here any fixed order.
AgentList == SetToSeq(Agents)

InOrder(Of(_)) == FlattenSeq([i \in DOMAIN AgentList |-> Of(AgentList[i])])

\* What the walk over the store reports of one agent.
Reported(a) ==
    IF Overdue(a) THEN <<Alert(a, "expired")>>
    ELSE IF store[a].status = "VERIFIED" /\ store[a].expiresAt - time <= Warning
         THEN <<Alert(a, "expiring_soon")>>
    ELSE IF store[a].status = "FAILED" THEN <<Alert(a, "failed")>> ELSE <<>>

Triggered(a) ==
    IF NeedsReattestation(a) THEN <<Alert(a, "re_attestation_triggered")>> ELSE <<>>

\* Any report triggers the re-attestation of every agent that needs it.
SweepAlerts ==
    LET reported == InOrder(Reported)
    IN  IF reported = <<>> THEN <<>> ELSE reported \o InOrder(Triggered)

\* Variant: a full buffer refuses new alerts.
BufferedUntilFull(new) ==
    LET all == alerts \o new IN
    IF Len(all) > MaxRecentAlerts THEN SubSeq(all, 1, MaxRecentAlerts) ELSE all

\* Variant: nothing ever leaves the buffer.
BufferedForGood(new) == alerts \o new

\* emitAlert: the oldest leaves when there are too many.
Buffered(new) ==
    LET all == alerts \o new IN
    IF Len(all) > MaxRecentAlerts
    THEN SubSeq(all, Len(all) - MaxRecentAlerts + 1, Len(all)) ELSE all

\* monitorSweep; a GET /status in hand sees the expiry in the object it holds.
MonitorSweep ==
    /\ store' = [a \in Agents |-> Expired(a)]
    /\ alerts' = Buffered(SweepAlerts)
    /\ reader' = IF reader.at = "asked" /\ reader.same
                 THEN [reader EXCEPT !.local = Expired(reader.agent)] ELSE reader
    /\ UNCHANGED <<time, txs, record, passed>>

-----------------------------------------------------------------------------
(* GET /status. *)

\* The local result and whether it is valid, read before the contract is asked.
GetStatus(a) ==
    /\ reader.at = "none"
    /\ reader' = [at |-> "asked", local |-> store[a], currentlyValid |-> StillValid(store[a]),
                  agent |-> a, same |-> store[a] # NoResult]
    /\ UNCHANGED <<time, store, alerts, txs, record, passed>>

\* Variant: the local result is read again when the contract has answered.
AnswerReadingAgain ==
    /\ reader.at = "asked"
    /\ reader' = [reader EXCEPT !.at = "answered", !.local = store[reader.agent]]
    /\ UNCHANGED <<time, store, alerts, txs, record, passed>>

\* The answer, when the contract has answered or failed to.
Answer ==
    /\ reader.at = "asked"
    /\ reader' = [reader EXCEPT !.at = "answered"]
    /\ UNCHANGED <<time, store, alerts, txs, record, passed>>

-----------------------------------------------------------------------------
\* The process dies and starts again with nothing in memory.
Restart ==
    /\ store' = [a \in Agents |-> NoResult]
    /\ alerts' = <<>> /\ reader' = NoReader
    /\ UNCHANGED <<time, txs, record, passed>>

Tick ==
    /\ time < MaxTime
    /\ time' = time + 1
    /\ UNCHANGED <<store, alerts, txs, record, passed, reader>>

TeeNext ==
    \/ \E a \in Agents :
         \/ \E status \in Outcomes : Attest(a, status)
         \/ RevokeAttestation(a) \/ GetStatus(a)
    \/ SubmitAttestation \/ SubmissionFails
    \/ MonitorSweep \/ Answer \/ Restart \/ Tick

\* The monitor's cron job keeps firing (startMonitor).
TeeSpec == TeeInit /\ [][TeeNext]_teeVars /\ WF_teeVars(MonitorSweep)

-----------------------------------------------------------------------------
(* Properties. *)

TeeTypeOK ==
    /\ time \in 0..MaxTime
    /\ store \in [Agents -> Results]
    /\ alerts \in Seq([agent : Agents, type : AlertTypes]) /\ Len(alerts) <= MaxRecentAlerts
    /\ txs \in Seq([agent : Agents, expiresAt : Nat]) /\ Len(txs) <= MaxTxs
    /\ record \in [Agents -> Records]
    /\ passed \in [Agents -> Nat \cup {-1}]
    /\ reader.at \in {"none", "asked", "answered"} /\ reader.local \in Results

\* What the contract calls valid passed the service's checks, and is within the
\* lifetime the service gave it unless the transaction came too late for that: no
\* delay, restart, failed submission or later failure of the same agent lets an
\* attestation that never passed look valid on chain.
ChainTrustsPassedReports ==
    \A a \in Agents :
      record[a].status = "VERIFIED" /\ time < record[a].expiresAt
        => passed[a] >= 0 /\ (time < passed[a] \/ record[a].late)

\* GET /status: an answer that calls the local result currently valid shows a
\* verified one, or one whose time ran out while the contract was asked; never one
\* that failed or that was replaced meanwhile (index.ts:176-212).
StatusAnswerCoherent ==
    reader.at = "answered" /\ reader.currentlyValid
      => \/ reader.local.status = "VERIFIED"
         \/ reader.local.status = "EXPIRED" /\ time >= reader.local.expiresAt

\* A result that ran out is reported: an alert of its expiry is in the buffer of
\* GET /alerts, unless the agent attested again or the service restarted first
\* (monitor.ts:73-147).
ExpiryIsReported ==
    \A a \in Agents :
      Overdue(a) ~> \/ Alert(a, "expired") \in {alerts[i] : i \in DOMAIN alerts}
                    \/ store[a].status # "EXPIRED" /\ ~Overdue(a)
=============================================================================
