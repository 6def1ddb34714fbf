--------------------------- MODULE Daemons_proofs ---------------------------
(***************************************************************************)
(* Theorems about the two daemons that stand between the chain and a       *)
(* service: the attestation service and the WDK revenue agent.  They share *)
(* no state; a theorem is about the specification it names.                *)
(*                                                                         *)
(* Attestations, for any agents, lifetimes, warnings and bounds: what the  *)
(* contract calls valid passed the service's checks, what GET /status      *)
(* answers is one state of one result, and everything keeps its type and   *)
(* the alert buffer its bound.  The last needs that the concatenation of   *)
(* sequences exists and is a sequence, by induction in the form of the     *)
(* least number principle.                                                 *)
(*                                                                         *)
(* The revenue agent, for any thresholds, amounts and bounds: the types,   *)
(* that undisturbed the polling loop never pays for a revert, and that     *)
(* swaps which end leave the router no allowance.  All three rest on the   *)
(* mempool: of each loop it holds one transaction at most, of the kind the *)
(* loop is waiting for.                                                    *)
(***************************************************************************)
EXTENDS AttestationService, WdkAgent, FiniteSetTheorems, WellFoundedInduction, TLAPS

-----------------------------------------------------------------------------
(* The attestation service.                                                    *)

Submissions == [agent : Agents, expiresAt : Nat]

\* Types of what the two properties relate.
StatesTyped ==
    /\ time \in Nat
    /\ store \in [Agents -> Results] /\ record \in [Agents -> Records]
    /\ passed \in [Agents -> Nat \cup {-1}]
    /\ txs \in Seq(Submissions)

\* A report passes for Ttl from now, so that what passed never ends later.
PassedInTime == \A a \in Agents : passed[a] <= time + Ttl

\* What is submitted passed, and ends no later than what passed last.
SubmittedPassed == \A i \in DOMAIN txs : txs[i].expiresAt <= passed[txs[i].agent]

\* A record passed; one that came in time ends no later than what passed last.
RecordedPassed ==
    \A a \in Agents : record[a].status # "UNVERIFIED" =>
        passed[a] >= 0 /\ (record[a].late \/ record[a].expiresAt <= passed[a])

ChainInv == StatesTyped /\ PassedInTime /\ SubmittedPassed /\ RecordedPassed

-----------------------------------------------------------------------------
(* The chain. *)

\* Nothing passed or was submitted at first.
LEMMA ChainInvInit == TeeInit => ChainInv
  BY TeeAssumption
     DEF TeeInit, ChainInv, StatesTyped, PassedInTime, SubmittedPassed, RecordedPassed,
         Results, NoResult, Records, Submissions

\* An attestation of an agent, submitted or not.
LEMMA ChainInvAttest ==
    ASSUME ChainInv, NEW a \in Agents, NEW status \in Outcomes, Attest(a, status)
    PROVE  ChainInv'
<1> DEFINE end == time + Ttl
<1>1. end \in Nat /\ time' = time /\ record' = record
      BY TeeAssumption DEF ChainInv, StatesTyped, Attest
<1>2. /\ passed' \in [Agents -> Nat \cup {-1}]
      /\ status = "VERIFIED" => passed'[a] = end
      /\ \A b \in Agents : passed[b] <= passed'[b] /\ passed'[b] <= end
  <2>1. \A b \in Agents : passed[b] \in Int /\ passed[b] <= end
        BY DEF ChainInv, StatesTyped, PassedInTime
  <2>2. passed' = IF status = "VERIFIED" THEN [passed EXCEPT ![a] = end] ELSE passed
        BY DEF Attest, VerifyAttestation
  <2>3. passed \in [Agents -> Nat \cup {-1}]
        BY DEF ChainInv, StatesTyped
  <2> HIDE DEF end
  <2> QED
        BY <1>1, <2>1, <2>2, <2>3
<1>3. store' \in [Agents -> Results]
  <2>1. [status |-> status, expiresAt |-> end] \in Results
        BY <1>1 DEF Outcomes, Results
  <2> QED
        BY <2>1 DEF Attest, VerifyAttestation, ChainInv, StatesTyped
<1>4. /\ txs' \in Seq(Submissions)
      /\ \A i \in DOMAIN txs' :
           \/ i \in DOMAIN txs /\ txs'[i] = txs[i]
           \/ status = "VERIFIED" /\ txs'[i] = [agent |-> a, expiresAt |-> end]
  <2>1. txs \in Seq(Submissions)
        BY DEF ChainInv, StatesTyped
  <2>2. CASE UNCHANGED txs
        BY <2>1, <2>2
  <2>3. CASE Submittable(status) /\ SubmitOnChain(a)
    <3> DEFINE tx == [agent |-> a, expiresAt |-> end]
    <3>1. tx \in Submissions /\ txs' = Append(txs, tx) /\ status = "VERIFIED"
          BY <1>1, <2>3 DEF Submissions, SubmitOnChain, Submittable
    <3> HIDE DEF tx
    <3>2. /\ txs' \in Seq(Submissions)
          /\ \A i \in DOMAIN txs' : (i \in DOMAIN txs /\ txs'[i] = txs[i]) \/ txs'[i] = tx
          BY <2>1, <3>1
    <3> QED
          BY <3>1, <3>2 DEF tx
  <2> QED
        BY <2>2, <2>3 DEF Attest
<1> HIDE DEF end
<1>5. StatesTyped'
      BY <1>1, <1>2, <1>3, <1>4 DEF ChainInv, StatesTyped
<1>6. PassedInTime'
      BY <1>1, <1>2 DEF PassedInTime, end
<1>7. SubmittedPassed'
  <2>1. ASSUME NEW i \in DOMAIN txs PROVE txs[i].expiresAt <= passed'[txs[i].agent]
    <3>1. txs[i] \in Submissions
          BY DEF ChainInv, StatesTyped
    <3>2. txs[i].agent \in Agents /\ txs[i].expiresAt \in Nat
          BY <3>1 DEF Submissions
    <3>3. passed[txs[i].agent] \in Int /\ passed'[txs[i].agent] \in Int
          BY <1>2, <3>2 DEF ChainInv, StatesTyped
    <3> QED
          BY <1>2, <3>2, <3>3 DEF ChainInv, SubmittedPassed
  <2> QED
        BY <1>1, <1>2, <1>4, <2>1 DEF SubmittedPassed
<1>8. RecordedPassed'
  <2>1. \A b \in Agents : /\ passed[b] \in Int /\ passed'[b] \in Int
                          /\ record[b].expiresAt \in Nat
        BY <1>2 DEF ChainInv, StatesTyped, Records
  <2> QED
        BY <1>1, <1>2, <2>1 DEF ChainInv, RecordedPassed
<1> QED
    BY <1>5, <1>6, <1>7, <1>8 DEF ChainInv

\* The contract stores the oldest submission.
LEMMA ChainInvSubmit == ChainInv /\ SubmitAttestation => ChainInv'
<1> SUFFICES ASSUME ChainInv, SubmitAttestation PROVE ChainInv'
    OBVIOUS
<1> DEFINE tx == Head(txs)
<1>1. txs \in Seq(Submissions) /\ txs # <<>> /\ txs' = Tail(txs)
      BY DEF ChainInv, StatesTyped, SubmitAttestation
<1>2. /\ tx \in Submissions /\ 1 \in DOMAIN txs /\ tx = txs[1]
      /\ txs' \in Seq(Submissions)
      /\ \A i \in DOMAIN txs' : i + 1 \in DOMAIN txs /\ txs'[i] = txs[i + 1]
      BY <1>1
<1> HIDE DEF tx
<1>3. tx.agent \in Agents /\ tx.expiresAt \in Nat /\ tx.expiresAt <= passed[tx.agent]
      BY <1>2 DEF Submissions, ChainInv, SubmittedPassed
<1> DEFINE r == [status |-> "VERIFIED", expiresAt |-> Expiry(tx.expiresAt),
                 late |-> tx.expiresAt <= time]
<1>4. r \in Records /\ (r.late \/ r.expiresAt = tx.expiresAt)
  <2> DEFINE end == Expiry(tx.expiresAt)
             late == tx.expiresAt <= time
  <2>1. time \in Nat /\ time + DefaultTtl \in Nat
        BY TeeAssumption DEF ChainInv, StatesTyped
  <2>2. end \in Nat /\ late \in BOOLEAN
        BY <1>3, <2>1 DEF Expiry
  <2>3. ~late => end = tx.expiresAt
        BY <1>3, <2>1 DEF Expiry
  <2>4. r.late = late /\ r.expiresAt = end
        OBVIOUS
  <2>5. r = [status |-> "VERIFIED", expiresAt |-> end, late |-> late]
        OBVIOUS
  <2> HIDE DEF end, late, r
  <2>6. r \in Records
        BY <2>2, <2>5, Zenon DEF Records
  <2>7. late => r.late
        BY <2>4, Zenon
  <2>8. ~late => r.expiresAt = tx.expiresAt
        BY <2>3, <2>4, Zenon
  <2> QED
        BY <2>6, <2>7, <2>8
<1>5. record' = [record EXCEPT ![tx.agent] = r]
      BY DEF SubmitAttestation, tx
<1> HIDE DEF r
<1>6. UNCHANGED <<time, store, passed>>
      BY DEF SubmitAttestation
<1>7. StatesTyped'
      BY <1>2, <1>3, <1>4, <1>5, <1>6 DEF ChainInv, StatesTyped
<1>8. PassedInTime' /\ SubmittedPassed'
      BY <1>2, <1>6 DEF ChainInv, PassedInTime, SubmittedPassed
<1>9. RecordedPassed'
  <2>1. \A b \in Agents : record'[b] = IF b = tx.agent THEN r ELSE record[b]
        BY <1>5 DEF ChainInv, StatesTyped
  <2>2. passed[tx.agent] \in Int
        BY <1>3 DEF ChainInv, StatesTyped
  <2>3. passed[tx.agent] >= 0 /\ (r.late \/ r.expiresAt <= passed[tx.agent])
        BY <1>3, <1>4, <2>2
  <2> QED
        BY <1>6, <2>1, <2>3 DEF ChainInv, RecordedPassed
<1> QED
    BY <1>7, <1>8, <1>9 DEF ChainInv

\* A submission that fails leaves the others, in their order.
LEMMA ChainInvFails == ChainInv /\ SubmissionFails => ChainInv'
<1> SUFFICES ASSUME ChainInv, SubmissionFails PROVE ChainInv'
    OBVIOUS
<1> DEFINE n == Len(txs)
<1>1. PICK k \in DOMAIN txs : txs' = RemoveAt(txs, k)
      BY DEF SubmissionFails
<1>2. txs \in Seq(Submissions) /\ n \in Nat /\ k \in 1..n
      BY DEF ChainInv, StatesTyped
<1>3. /\ txs' \in Seq(Submissions)
      /\ \A i \in DOMAIN txs' : \E j \in DOMAIN txs : txs'[i] = txs[j]
  <2> DEFINE front == SubSeq(txs, 1, k - 1)
             back == SubSeq(txs, k + 1, n)
  <2>1. /\ front \in Seq(Submissions) /\ Len(front) = k - 1
        /\ \A i \in 1..(k - 1) : front[i] = txs[i]
        BY <1>2
  <2>2. /\ back \in Seq(Submissions) /\ Len(back) = n - k
        /\ \A i \in 1..(n - k) : back[i] = txs[i + k]
        BY <1>2
  <2>3. txs' = front \o back
        BY <1>1 DEF RemoveAt
  <2> HIDE DEF front, back, n
  <2>4. /\ txs' \in Seq(Submissions) /\ DOMAIN txs' = 1..(n - 1)
        /\ \A i \in 1..(n - 1) :
             txs'[i] = IF i <= k - 1 THEN front[i] ELSE back[i - (k - 1)]
    <3>1. /\ front \o back \in Seq(Submissions)
          /\ Len(front \o back) = (k - 1) + (n - k)
          /\ \A i \in 1..((k - 1) + (n - k)) :
               (front \o back)[i] = IF i <= k - 1 THEN front[i] ELSE back[i - (k - 1)]
      <4>1. front \in Seq(Submissions) /\ back \in Seq(Submissions)
            BY <2>1, <2>2
      <4>2. \A a, b \in Seq(Submissions) :
               /\ a \o b \in Seq(Submissions) /\ Len(a \o b) = Len(a) + Len(b)
               /\ \A i \in 1..(Len(a) + Len(b)) :
                    (a \o b)[i] = IF i <= Len(a) THEN a[i] ELSE b[i - Len(a)]
            OBVIOUS
      <4>3. /\ front \o back \in Seq(Submissions)
            /\ Len(front \o back) = Len(front) + Len(back)
            /\ \A i \in 1..(Len(front) + Len(back)) :
                 (front \o back)[i] = IF i <= Len(front) THEN front[i] ELSE back[i - Len(front)]
            BY <4>1, <4>2, Zenon
      <4>4. Len(front) = k - 1 /\ Len(back) = n - k
            BY <2>1, <2>2, Zenon
      <4> QED
            BY <4>3, <4>4, Zenon
    <3>2. (k - 1) + (n - k) = n - 1 /\ n - 1 \in Nat
          BY <1>2
    <3>3. DOMAIN txs' = 1..Len(txs')
          BY <2>3, <3>1
    <3> QED
          BY <2>3, <3>1, <3>2, <3>3
  <2>5. DOMAIN txs = 1..n
        BY <1>2 DEF n
  <2>6. ASSUME NEW i \in 1..(n - 1) PROVE \E j \in DOMAIN txs : txs'[i] = txs[j]
    <3>1. CASE i <= k - 1
          BY <1>2, <2>1, <2>4, <2>5, <3>1
    <3>2. CASE i > k - 1
      <4>1. i - (k - 1) \in 1..(n - k) /\ (i - (k - 1)) + k = i + 1 /\ i + 1 \in 1..n
            BY <1>2, <3>2
      <4>2. back[i - (k - 1)] = txs[i + 1]
            BY <2>2, <4>1
      <4>3. txs'[i] = txs[i + 1]
            BY <1>2, <2>4, <3>2, <4>2
      <4> QED
            BY <2>5, <4>1, <4>3
    <3> QED
          BY <1>2, <3>1, <3>2
  <2> QED
        BY <2>4, <2>6
<1> QED
    BY <1>3
       DEF SubmissionFails, ChainInv, StatesTyped, PassedInTime, SubmittedPassed, RecordedPassed

\* The steps that touch neither submissions nor what passed.
LEMMA ChainInvOthers ==
    ASSUME ChainInv, UNCHANGED <<txs, passed>>, time' \in {time, time + 1},
           store' \in [Agents -> Results],
           \/ UNCHANGED record
           \/ \E a \in Agents : RevokeAttestation(a)
    PROVE  ChainInv'
<1>1. time \in Nat /\ time' \in Nat /\ time <= time'
      BY DEF ChainInv, StatesTyped
<1>2. /\ record' \in [Agents -> Records]
      /\ \A b \in Agents : /\ record'[b].late = record[b].late
                           /\ record'[b].expiresAt = record[b].expiresAt
                           /\ (record[b].status # "UNVERIFIED" \/ record'[b] = record[b])
  <2>1. record \in [Agents -> Records]
        BY DEF ChainInv, StatesTyped
  <2>2. ASSUME NEW a \in Agents, RevokeAttestation(a) PROVE <1>2!:
    <3> DEFINE r == [record[a] EXCEPT !.status = "REVOKED"]
    <3>1. r \in Records /\ r.late = record[a].late /\ r.expiresAt = record[a].expiresAt
          BY <2>1 DEF Records
    <3>2. record' = [record EXCEPT ![a] = r] /\ record[a].status = "VERIFIED"
          BY <2>1, <2>2 DEF RevokeAttestation
    <3> HIDE DEF r
    <3> QED
          BY <2>1, <3>1, <3>2
  <2> QED
        BY <2>1, <2>2
<1>3. PassedInTime'
  <2>1. \A b \in Agents : passed[b] \in Int /\ passed[b] <= time + Ttl
        BY DEF ChainInv, StatesTyped, PassedInTime
  <2> QED
        BY <1>1, <2>1, TeeAssumption DEF PassedInTime
<1>4. StatesTyped' /\ SubmittedPassed'
      BY <1>1, <1>2 DEF ChainInv, StatesTyped, SubmittedPassed
<1>5. RecordedPassed'
  <2> SUFFICES ASSUME NEW b \in Agents, record'[b].status # "UNVERIFIED"
               PROVE  /\ passed'[b] >= 0
                      /\ record'[b].late \/ record'[b].expiresAt <= passed'[b]
        BY DEF RecordedPassed
  <2>1. record'[b].late = record[b].late
        BY <1>2
  <2>2. record'[b].expiresAt = record[b].expiresAt
        BY <1>2
  <2>3. record[b].status # "UNVERIFIED"
        BY <1>2
  <2>4. /\ passed'[b] >= 0
        /\ record[b].late \/ record[b].expiresAt <= passed'[b]
        BY <2>3 DEF ChainInv, RecordedPassed
  <2> QED
        BY <2>1, <2>2, <2>4, Zenon
<1> QED
    BY <1>3, <1>4, <1>5 DEF ChainInv

\* A sweep changes statuses only.
LEMMA ExpiredType ==
    ASSUME NEW a \in Agents, store[a] \in Results
    PROVE  /\ Expired(a) \in Results
           /\ \/ Expired(a) = store[a]
              \/ /\ Expired(a).status = "EXPIRED"
                 /\ time >= Expired(a).expiresAt
<1>1. CASE Overdue(a)
  <2> DEFINE r == [store[a] EXCEPT !.status = "EXPIRED"]
  <2>1. r \in Results /\ r.status = "EXPIRED" /\ r.expiresAt = store[a].expiresAt
        BY DEF Results
  <2>2. Expired(a) = r
        BY <1>1 DEF Expired
  <2> HIDE DEF r
  <2> QED
        BY <1>1, <2>1, <2>2 DEF Overdue
<1>2. CASE ~Overdue(a)
      BY <1>2 DEF Expired
<1> QED
    BY <1>1, <1>2

\* Every step of service, contract and clock keeps what the chain relies on.
LEMMA ChainInvNext == ChainInv /\ [TeeNext]_teeVars => ChainInv'
<1> SUFFICES ASSUME ChainInv, [TeeNext]_teeVars PROVE ChainInv'
    OBVIOUS
<1>1. store \in [Agents -> Results] /\ NoResult \in Results
      BY DEF ChainInv, StatesTyped, NoResult, Results
<1>2. CASE MonitorSweep
  <2>1. store' \in [Agents -> Results]
        BY <1>1, <1>2, ExpiredType DEF MonitorSweep
  <2> QED
        BY <1>2, <2>1, ChainInvOthers DEF MonitorSweep
<1>3. CASE Restart
  <2>1. store' \in [Agents -> Results]
        BY <1>1, <1>3 DEF Restart
  <2> QED
        BY <1>3, <2>1, ChainInvOthers DEF Restart
<1>4. ASSUME NEW a \in Agents, GetStatus(a) PROVE ChainInv'
      BY <1>1, <1>4, ChainInvOthers DEF GetStatus
<1>5. ASSUME NEW a \in Agents, RevokeAttestation(a) PROVE ChainInv'
  <2>1. UNCHANGED <<txs, passed, time, store>>
        BY <1>5 DEF RevokeAttestation
  <2> QED
        BY <1>1, <1>5, <2>1, ChainInvOthers
<1>6. CASE Answer \/ Tick \/ UNCHANGED teeVars
      BY <1>1, <1>6, ChainInvOthers DEF Answer, Tick, teeVars
<1> QED
    BY <1>2, <1>3, <1>4, <1>5, <1>6, ChainInvAttest, ChainInvSubmit, ChainInvFails DEF TeeNext

-----------------------------------------------------------------------------
(* GET /status. *)

Readers == [at : {"none", "asked", "answered"}, local : Results, currentlyValid : BOOLEAN,
            agent : Agents \cup {""}, same : BOOLEAN]

\* What an answer that calls its result valid shows.
Shows(result) ==
    \/ result.status = "VERIFIED"
    \/ result.status = "EXPIRED" /\ time >= result.expiresAt

\* The result held while the contract is asked is the store's own as long as nobody
\* replaced it: it changes by expiring only.
ReaderOK ==
    /\ reader \in Readers
    /\ reader.at = "asked" => reader.agent \in Agents
    /\ reader.at = "asked" /\ reader.same => reader.local = store[reader.agent]
    /\ reader.at # "none" /\ reader.currentlyValid => Shows(reader.local)

AnswerInv == ChainInv /\ ReaderOK

\* No request at first and after a restart.
LEMMA NoReaderTyped == NoReader \in Readers /\ NoReader.at = "none"
  BY DEF NoReader, NoResult, Readers, Results

\* An attestation of the agent asked about replaces the result in the store.
LEMMA ReaderAttest ==
    ASSUME AnswerInv, NEW a \in Agents, NEW status \in Outcomes, Attest(a, status)
    PROVE  ReaderOK'
<1>1. /\ time' = time
      /\ store' = [store EXCEPT ![a] = [status |-> status, expiresAt |-> time + Ttl]]
      /\ reader' = IF reader.agent = a THEN [reader EXCEPT !.same = FALSE] ELSE reader
      BY DEF Attest, VerifyAttestation
<1>2. reader \in Readers /\ store \in [Agents -> Results]
      BY DEF AnswerInv, ReaderOK, ChainInv, StatesTyped
<1>3. CASE reader.agent = a
  <2>1. /\ reader'.at = reader.at /\ reader'.local = reader.local
        /\ reader'.agent = reader.agent /\ reader'.same = FALSE
        /\ reader'.currentlyValid = reader.currentlyValid
        /\ reader' \in Readers
        BY <1>1, <1>2, <1>3 DEF Readers
  <2> QED
        BY <1>1, <2>1 DEF AnswerInv, ReaderOK, Shows
<1>4. CASE reader.agent # a
  <2>1. reader' = reader /\ \A b \in Agents : b # a => store'[b] = store[b]
        BY <1>1, <1>2, <1>4
  <2> QED
        BY <1>1, <1>4, <2>1 DEF AnswerInv, ReaderOK, Shows
<1> QED
    BY <1>3, <1>4

\* A sweep changes the result held with the one in the store.
LEMMA ReaderSweep == AnswerInv /\ MonitorSweep => ReaderOK'
<1> SUFFICES ASSUME AnswerInv, MonitorSweep PROVE ReaderOK'
    OBVIOUS
<1>1. /\ time' = time
      /\ \A a \in Agents : store'[a] = Expired(a) /\ store[a] \in Results
      BY DEF MonitorSweep, AnswerInv, ChainInv, StatesTyped
<1>2. time \in Nat /\ reader \in Readers
      BY DEF AnswerInv, ReaderOK, ChainInv, StatesTyped
<1>3. CASE reader.at = "asked" /\ reader.same
  <2>1. reader.agent \in Agents /\ reader.local = store[reader.agent]
        BY <1>3 DEF AnswerInv, ReaderOK
  <2> DEFINE new == Expired(reader.agent)
  <2>2. new \in Results /\ (new = reader.local \/ Shows(new))
        BY <1>1, <2>1, ExpiredType DEF Shows
  <2>3. new = store'[reader.agent] /\ reader' = [reader EXCEPT !.local = new]
        BY <1>1, <1>3, <2>1 DEF MonitorSweep
  <2> HIDE DEF new
  <2>4. /\ reader'.at = reader.at /\ reader'.local = new
        /\ reader'.agent = reader.agent /\ reader'.same = reader.same
        /\ reader'.currentlyValid = reader.currentlyValid
        /\ reader' \in Readers
        BY <1>2, <2>2, <2>3 DEF Readers
  <2> QED
        BY <1>1, <2>1, <2>2, <2>3, <2>4 DEF AnswerInv, ReaderOK, Shows
<1>4. CASE ~(reader.at = "asked" /\ reader.same)
      BY <1>1, <1>4 DEF MonitorSweep, AnswerInv, ReaderOK, Shows
<1> QED
    BY <1>3, <1>4

\* A request reads result and validity together.
LEMMA ReaderAsks ==
    ASSUME AnswerInv, NEW a \in Agents, GetStatus(a)
    PROVE  ReaderOK'
<1> DEFINE valid == StillValid(store[a])
           same  == store[a] # NoResult
<1>1. reader' = [at |-> "asked", local |-> store[a], currentlyValid |-> valid,
                 agent |-> a, same |-> same]
      BY DEF GetStatus
<1>2. /\ valid \in BOOLEAN /\ same \in BOOLEAN
      /\ valid => store[a].status = "VERIFIED"
      BY DEF StillValid
<1>3. store' = store /\ store[a] \in Results
      BY DEF GetStatus, AnswerInv, ChainInv, StatesTyped
<1> HIDE DEF valid, same
<1>4. reader' \in Readers
      BY <1>1, <1>2, <1>3, Zenon DEF Readers
<1>5. /\ reader'.at = "asked" /\ reader'.local = store[a]
      /\ reader'.currentlyValid = valid /\ reader'.agent = a
      BY <1>1
<1> QED
    BY <1>2, <1>3, <1>4, <1>5 DEF ReaderOK, Shows

\* Every step keeps the result held and what the answer says of it together.
LEMMA AnswerInvNext == AnswerInv /\ [TeeNext]_teeVars => AnswerInv'
<1> SUFFICES ASSUME AnswerInv, [TeeNext]_teeVars PROVE ReaderOK'
    BY ChainInvNext DEF AnswerInv
<1>1. CASE UNCHANGED <<time, store, reader>>
      BY <1>1 DEF AnswerInv, ReaderOK, Shows
<1>2. CASE SubmitAttestation \/ SubmissionFails \/ UNCHANGED teeVars
      BY <1>1, <1>2 DEF SubmitAttestation, SubmissionFails, teeVars
<1>3. ASSUME NEW a \in Agents, RevokeAttestation(a) PROVE ReaderOK'
      BY <1>1, <1>3 DEF RevokeAttestation
<1>4. CASE Answer
  <2>1. reader \in Readers /\ reader.at = "asked" /\ UNCHANGED <<time, store>>
        BY <1>4 DEF Answer, AnswerInv, ReaderOK
  <2>2. /\ reader'.at = "answered" /\ reader'.local = reader.local
        /\ reader'.currentlyValid = reader.currentlyValid
        /\ reader' \in Readers
        BY <1>4, <2>1 DEF Answer, Readers
  <2> QED
        BY <2>1, <2>2 DEF AnswerInv, ReaderOK, Shows
<1>5. CASE Tick
  <2>1. time \in Nat /\ time' = time + 1 /\ UNCHANGED <<store, reader>>
        BY <1>5 DEF Tick, AnswerInv, ChainInv, StatesTyped
  <2>2. reader.local.expiresAt \in Nat
        BY DEF AnswerInv, ReaderOK, Readers, Results
  <2>3. Shows(reader.local) => Shows(reader.local)'
        BY <2>1, <2>2 DEF Shows
  <2> QED
        BY <2>1, <2>3 DEF AnswerInv, ReaderOK
<1>6. CASE Restart
      BY <1>6, NoReaderTyped DEF Restart, ReaderOK
<1> QED
    BY <1>2, <1>3, <1>4, <1>5, <1>6, ReaderAttest, ReaderSweep, ReaderAsks DEF TeeNext

-----------------------------------------------------------------------------
(* Alerts. *)

\* The least number principle.
LEMMA LeastNumber ==
    ASSUME NEW S \in SUBSET Nat, S # {}
    PROVE  \E x \in S : \A y \in S : x <= y
<1>1. \E x \in S : \A y \in S : ~(<<y, x>> \in OpToRel(<, Nat))
      BY NatLessThanWellFounded, WFMin
<1>2. \A x \in S, y \in S : <<y, x>> \notin OpToRel(<, Nat) => x <= y
      BY DEF OpToRel
<1> QED
    BY <1>1, <1>2

\* Induction up to n: what holds of 0, and of m if of m - 1, holds of n.
LEMMA StepByStep ==
    ASSUME NEW n \in Nat, NEW S \in SUBSET (0..n), 0 \in S,
           \A m \in 1..n : m - 1 \in S => m \in S
    PROVE  n \in S
<1> DEFINE rest == (0..n) \ S
<1> SUFFICES ASSUME rest # {} PROVE FALSE
    OBVIOUS
<1>1. rest \in SUBSET Nat
      OBVIOUS
<1>2. PICK x \in rest : \A y \in rest : x <= y
  <2> HIDE DEF rest
  <2> QED
      BY <1>1, LeastNumber
<1>3. x \in 1..n /\ x - 1 \in 0..n
      BY <1>2
<1>4. x - 1 \in S
      BY <1>2, <1>3
<1> QED
    BY <1>2, <1>3, <1>4

\* f[i] is the concatenation of the first i sequences.
Concatenates(f, seqs, i) == f[i] = IF i = 1 THEN seqs[i] ELSE f[i - 1] \o seqs[i]

\* Sequences of any elements can be concatenated.
LEMMA ConcatenationExists ==
    ASSUME NEW T, NEW n \in Nat, NEW seqs \in [1..n -> Seq(T)]
    PROVE  \E f \in [1..n -> Seq(T)] : \A i \in 1..n : Concatenates(f, seqs, i)
<1> DEFINE UpTo(f, m) == \A i \in 1..m : Concatenates(f, seqs, i)
           S == {m \in 0..n : \E f \in [1..n -> Seq(T)] : UpTo(f, m)}
<1>1. 0 \in S
  <2> DEFINE f == [i \in 1..n |-> <<>>]
  <2>1. f \in [1..n -> Seq(T)] /\ UpTo(f, 0) /\ 0 \in 0..n
        OBVIOUS
  <2> HIDE DEF f, UpTo
  <2> QED
      BY <2>1
<1>2. ASSUME NEW m \in 1..n, m - 1 \in S PROVE m \in S
  <2>1. PICK f \in [1..n -> Seq(T)] : UpTo(f, m - 1)
        BY <1>2
  <2> DEFINE x == IF m = 1 THEN seqs[m] ELSE f[m - 1] \o seqs[m]
             g == [f EXCEPT ![m] = x]
  <2>2. x \in Seq(T)
    <3>1. seqs[m] \in Seq(T)
          OBVIOUS
    <3>2. CASE m # 1
      <4>1. m - 1 \in 1..n
            BY <3>2
      <4>2. f[m - 1] \in Seq(T)
            BY <4>1
      <4> QED
          BY <3>1, <3>2, <4>2
    <3> QED
        BY <3>1, <3>2
  <2> HIDE DEF x
  <2>3. /\ g \in [1..n -> Seq(T)] /\ g[m] = x
        /\ \A i \in 1..n : i # m => g[i] = f[i]
        BY <2>2
  <2> HIDE DEF g
  <2>4. ASSUME NEW i \in 1..m PROVE Concatenates(g, seqs, i)
    <3>1. CASE i = m
      <4>1. m # 1 => m - 1 \in 1..n /\ m - 1 # m
            OBVIOUS
      <4>2. m # 1 => g[m - 1] = f[m - 1]
            BY <2>3, <4>1
      <4> QED
          BY <2>3, <3>1, <4>2 DEF Concatenates, x
    <3>2. CASE i # m
      <4>1. i \in 1..(m - 1) /\ i \in 1..n /\ g[i] = f[i]
            BY <2>3, <3>2
      <4>2. Concatenates(f, seqs, i)
            BY <2>1, <4>1
      <4>3. i # 1 => i - 1 \in 1..n /\ i - 1 # m
            BY <4>1
      <4>4. i # 1 => g[i - 1] = f[i - 1]
            BY <2>3, <4>3
      <4> QED
          BY <4>1, <4>2, <4>4 DEF Concatenates
    <3> QED
        BY <3>1, <3>2
  <2>5. UpTo(g, m) /\ g \in [1..n -> Seq(T)] /\ m \in 0..n
        BY <2>3, <2>4
  <2> HIDE DEF UpTo
  <2> QED
      BY <2>5
<1>3. S \in SUBSET (0..n)
      OBVIOUS
<1>4. n \in S
  <2> HIDE DEF S
  <2> QED
      BY <1>1, <1>2, <1>3, StepByStep
<1> QED
    BY <1>4

LEMMA FlattenTyped ==
    ASSUME NEW T, NEW n \in Nat, NEW seqs \in [1..n -> Seq(T)]
    PROVE  FlattenSeq(seqs) \in Seq(T)
<1>1. seqs \in Seq(Seq(T)) /\ Len(seqs) = n
      OBVIOUS
<1> DEFINE Body(f) == [i \in 1..n |-> IF i = 1 THEN seqs[i] ELSE f[i - 1] \o seqs[i]]
           flat == CHOOSE f : f = Body(f)
<1>2. CASE n = 0
  <2>1. seqs = <<>>
        BY <1>1, <1>2
  <2>2. FlattenSeq(seqs) = seqs
        BY <1>1, <1>2 DEF FlattenSeq
  <2>3. <<>> \in Seq(T)
        OBVIOUS
  <2> HIDE DEF Body, flat
  <2> QED
      BY <2>1, <2>2, <2>3
<1>3. CASE n # 0
  <2>1. FlattenSeq(seqs) = flat[n]
        BY <1>1, <1>3 DEF FlattenSeq
  <2>2. PICK g \in [1..n -> Seq(T)] : \A i \in 1..n : Concatenates(g, seqs, i)
        BY ConcatenationExists
  <2>3. g = Body(g)
        BY <2>2 DEF Concatenates
  <2>4. flat = Body(flat)
    <3> HIDE DEF Body
    <3> QED
        BY <2>3
  <2> HIDE DEF flat
  <2> DEFINE S == {m \in 0..n : m = 0 \/ flat[m] \in Seq(T)}
  <2>5. 0 \in S /\ S \in SUBSET (0..n)
        OBVIOUS
  <2>6. ASSUME NEW m \in 1..n, m - 1 \in S PROVE m \in S
    <3>1. flat[m] = IF m = 1 THEN seqs[m] ELSE flat[m - 1] \o seqs[m]
          BY <2>4
    <3>2. seqs[m] \in Seq(T) /\ (m # 1 => flat[m - 1] \in Seq(T))
          BY <2>6
    <3>3. flat[m] \in Seq(T)
          BY <3>1, <3>2
    <3> QED
        BY <3>3
  <2>7. n \in S
    <3> HIDE DEF S
    <3> QED
        BY <2>5, <2>6, StepByStep
  <2> QED
      BY <1>3, <2>1, <2>7
<1> QED
    BY <1>2, <1>3

\* The fixed order of the agents is one.
LEMMA AgentListTyped ==
    Cardinality(Agents) \in Nat /\ AgentList \in [1..Cardinality(Agents) -> Agents]
<1>1. PICK n \in Nat : ExistsBijection(1..n, Agents)
      BY TeeAssumption, FS_NatBijection
<1>2. Cardinality(Agents) = n
      BY <1>1, FS_CountingElements
<1>3. PICK f : f \in Bijection(1..n, Agents)
      BY <1>1 DEF ExistsBijection
<1>4. f \in [1..n -> Agents] /\ IsInjective(f)
      BY <1>3 DEF Bijection, Injection
<1>5. AgentList \in [1..n -> Agents]
      BY <1>2, <1>4 DEF AgentList, SetToSeq
<1> QED
    BY <1>2, <1>5

Alerts == [agent : Agents, type : AlertTypes]

LEMMA AlertsTyped == SweepAlerts \in Seq(Alerts)
<1> DEFINE n == Cardinality(Agents)
           reported == [i \in DOMAIN AgentList |-> Reported(AgentList[i])]
           triggered == [i \in DOMAIN AgentList |-> Triggered(AgentList[i])]
<1>1. \A a \in Agents : \A type \in AlertTypes : Alert(a, type) \in Alerts
      BY DEF Alert, Alerts
<1>2. \A a \in Agents : Reported(a) \in Seq(Alerts) /\ Triggered(a) \in Seq(Alerts)
  <2> TAKE a \in Agents
  <2>1. /\ Alert(a, "expired") \in Alerts /\ Alert(a, "expiring_soon") \in Alerts
        /\ Alert(a, "failed") \in Alerts /\ Alert(a, "re_attestation_triggered") \in Alerts
        BY <1>1 DEF AlertTypes
  <2>2. Reported(a) \in {<<>>, <<Alert(a, "expired")>>, <<Alert(a, "expiring_soon")>>,
                         <<Alert(a, "failed")>>}
        BY DEF Reported
  <2>3. Triggered(a) \in {<<>>, <<Alert(a, "re_attestation_triggered")>>}
        BY DEF Triggered
  <2>4. /\ <<>> \in Seq(Alerts)
        /\ \A x \in Alerts : <<x>> \in Seq(Alerts)
        OBVIOUS
  <2> QED
      BY <2>1, <2>2, <2>3, <2>4, Zenon
<1>3. n \in Nat /\ AgentList \in [1..n -> Agents]
      BY AgentListTyped
<1> HIDE DEF n
<1>4. reported \in [1..n -> Seq(Alerts)] /\ triggered \in [1..n -> Seq(Alerts)]
      BY <1>2, <1>3
<1>5. InOrder(Reported) = FlattenSeq(reported) /\ InOrder(Triggered) = FlattenSeq(triggered)
      BY DEF InOrder
<1> HIDE DEF reported, triggered
<1>6. InOrder(Reported) \in Seq(Alerts) /\ InOrder(Triggered) \in Seq(Alerts)
      BY <1>3, <1>4, <1>5, FlattenTyped
<1> QED
    BY <1>6 DEF SweepAlerts

\* The buffer is bounded, whatever one sweep adds.
LEMMA BufferBounded ==
    ASSUME alerts \in Seq(Alerts), NEW new \in Seq(Alerts)
    PROVE  Buffered(new) \in Seq(Alerts) /\ Len(Buffered(new)) <= MaxRecentAlerts
<1> DEFINE all == alerts \o new
           n == Len(all)
           last == SubSeq(all, n - MaxRecentAlerts + 1, n)
<1>1. all \in Seq(Alerts) /\ n \in Nat /\ MaxRecentAlerts \in Nat \ {0}
      BY TeeAssumption
<1>2. Buffered(new) = IF n > MaxRecentAlerts THEN last ELSE all
      BY DEF Buffered
<1> HIDE DEF all
<1>3. n > MaxRecentAlerts => last \in Seq(Alerts) /\ Len(last) = MaxRecentAlerts
      BY <1>1
<1> HIDE DEF last
<1> QED
    BY <1>1, <1>2, <1>3

\* Types and bounds that the invariant of the chain and the requests leaves open.
BoundsInv ==
    /\ time <= MaxTime
    /\ alerts \in Seq(Alerts) /\ Len(alerts) <= MaxRecentAlerts
    /\ Len(txs) <= MaxTxs

LEMMA BoundsInit == TeeInit => BoundsInv
  BY TeeAssumption DEF TeeInit, BoundsInv

LEMMA BoundsNext == ChainInv /\ BoundsInv /\ [TeeNext]_teeVars => BoundsInv'
<1> SUFFICES ASSUME ChainInv, BoundsInv, [TeeNext]_teeVars PROVE BoundsInv'
    OBVIOUS
<1> USE DEF BoundsInv
<1>t. time \in Nat /\ txs \in Seq(Submissions) /\ MaxTime \in Nat /\ MaxTxs \in Nat
      BY TeeAssumption DEF ChainInv, StatesTyped
<1>1. CASE UNCHANGED <<time, alerts, txs>>
      BY <1>1
<1>2. ASSUME NEW a \in Agents, NEW status \in Outcomes, Attest(a, status)
      PROVE  BoundsInv'
  <2>1. CASE UNCHANGED txs
        BY <1>2, <2>1 DEF Attest
  <2>2. CASE SubmitOnChain(a)
    <3> DEFINE tx == [agent |-> a, expiresAt |-> time + Ttl]
    <3>1. Len(txs) < MaxTxs /\ txs' = Append(txs, tx)
          BY <2>2 DEF SubmitOnChain
    <3> HIDE DEF tx
    <3>2. Len(txs') = Len(txs) + 1 /\ Len(txs) \in Nat
          BY <1>t, <3>1
    <3> QED
        BY <1>t, <1>2, <3>1, <3>2 DEF Attest
  <2> QED
      BY <1>2, <2>1, <2>2 DEF Attest
<1>3. CASE SubmitAttestation
  <2>1. Len(txs') = Len(txs) - 1 /\ Len(txs) \in Nat
        BY <1>t, <1>3 DEF SubmitAttestation
  <2> QED
      BY <1>t, <1>3, <2>1 DEF SubmitAttestation
<1>4. CASE SubmissionFails
  <2>1. PICK k \in DOMAIN txs : txs' = RemoveAt(txs, k)
        BY <1>4 DEF SubmissionFails
  <2>2. k \in 1..Len(txs) /\ Len(txs) \in Nat
        BY <1>t, <2>1
  <2> DEFINE front == SubSeq(txs, 1, k - 1)
             back == SubSeq(txs, k + 1, Len(txs))
  <2>3. txs' = front \o back
        BY <2>1 DEF RemoveAt
  <2>4. /\ front \in Seq(Submissions) /\ Len(front) = k - 1
        /\ back \in Seq(Submissions) /\ Len(back) = Len(txs) - k
        BY <1>t, <2>2
  <2> HIDE DEF front, back
  <2>5. Len(txs') = Len(txs) - 1
        BY <2>2, <2>3, <2>4
  <2> QED
      BY <1>t, <1>4, <2>2, <2>5 DEF SubmissionFails
<1>5. CASE MonitorSweep
  <2>1. alerts' = Buffered(SweepAlerts)
        BY <1>5 DEF MonitorSweep
  <2>2. alerts' \in Seq(Alerts) /\ Len(alerts') <= MaxRecentAlerts
        BY <2>1, AlertsTyped, BufferBounded
  <2> QED
      BY <1>5, <2>2 DEF MonitorSweep
<1>6. CASE Restart
      BY <1>6, TeeAssumption DEF Restart
<1>7. CASE Tick
      BY <1>t, <1>7 DEF Tick
<1>8. ASSUME NEW a \in Agents, RevokeAttestation(a) \/ GetStatus(a) PROVE BoundsInv'
      BY <1>1, <1>8 DEF RevokeAttestation, GetStatus
<1>9. CASE Answer \/ UNCHANGED teeVars
      BY <1>1, <1>9 DEF Answer, teeVars
<1> QED
    BY <1>2, <1>3, <1>4, <1>5, <1>6, <1>7, <1>8, <1>9 DEF TeeNext

-----------------------------------------------------------------------------
(* Theorems. *)

\* The invariant of service, contract and requests.
LEMMA AnswerInvariant == TeeSpec => []AnswerInv
<1>1. TeeInit => AnswerInv
  <2>1. TeeInit => ReaderOK
        BY NoReaderTyped DEF TeeInit, ReaderOK
  <2> QED
        BY <2>1, ChainInvInit DEF AnswerInv
<1> QED
    BY <1>1, AnswerInvNext, PTL DEF TeeSpec

\* What the contract calls valid passed the service's checks, and is in the lifetime
\* it was given unless its transaction came too late (AttestationVerifier.sol).
THEOREM ChainTrustsReports == TeeSpec => []ChainTrustsPassedReports
<1>1. AnswerInv => ChainTrustsPassedReports
  <2> SUFFICES ASSUME AnswerInv, NEW a \in Agents, record[a].status = "VERIFIED",
                      time < record[a].expiresAt, ~record[a].late
               PROVE  passed[a] >= 0 /\ time < passed[a]
      BY DEF ChainTrustsPassedReports, AnswerInv, ChainInv, RecordedPassed
  <2>1. passed[a] >= 0 /\ record[a].expiresAt <= passed[a]
        BY DEF AnswerInv, ChainInv, RecordedPassed
  <2>2. time \in Nat /\ passed[a] \in Int /\ record[a].expiresAt \in Nat
        BY DEF AnswerInv, ChainInv, StatesTyped, Records
  <2> QED
        BY <2>1, <2>2
<1> QED
    BY <1>1, AnswerInvariant, PTL

\* An answer of GET /status that calls its result valid shows one that is, or that
\* ran out while the contract was asked (index.ts:176-212).
THEOREM StatusAnswers == TeeSpec => []StatusAnswerCoherent
<1>1. AnswerInv => StatusAnswerCoherent
      BY DEF AnswerInv, ReaderOK, StatusAnswerCoherent, Shows
<1> QED
    BY <1>1, AnswerInvariant, PTL

\* Results, records, submissions and requests keep their types, and no sweep makes
\* the alert buffer grow beyond its bound, however many alerts it adds.
THEOREM TeeTyped == TeeSpec => []TeeTypeOK
<1>1. AnswerInv /\ BoundsInv => TeeTypeOK
  <2> SUFFICES ASSUME AnswerInv, BoundsInv PROVE TeeTypeOK
      OBVIOUS
  <2>1. time \in 0..MaxTime
        BY TeeAssumption DEF AnswerInv, ChainInv, StatesTyped, BoundsInv
  <2>2. reader.at \in {"none", "asked", "answered"} /\ reader.local \in Results
        BY DEF AnswerInv, ReaderOK, Readers
  <2> QED
      BY <2>1, <2>2
         DEF AnswerInv, ChainInv, StatesTyped, Submissions, BoundsInv, Alerts, TeeTypeOK
<1>2. AnswerInv => ChainInv
      BY DEF AnswerInv
<1> QED
    BY <1>1, <1>2, AnswerInvariant, BoundsInit, BoundsNext, PTL DEF TeeSpec

-----------------------------------------------------------------------------
(* The WDK revenue agent.                                                      *)

-----------------------------------------------------------------------------
(* The inductive invariant. *)

\* The kind of transaction whose receipt is awaited at a place.
Awaited(place) ==
    CASE place = "transferred" -> "transfer"
      [] place = "processed" -> "process"
      [] place = "approved" -> "approve"
      [] place = "swapped" -> "swap"
      [] place = "bridged" -> "bridge"
      [] OTHER -> "nothing"

Typed ==
    /\ wallet \in Nat /\ box \in Nat /\ allowance \in Nat
    /\ mempool \in Seq(Txs)
    /\ proc \in [up : BOOLEAN, isRunning : BOOLEAN, seed : BOOLEAN, registered : BOOLEAN]
    /\ poll \in Work(PollPlaces) /\ defi \in Work(DefiPlaces)
    /\ past \in [income : Nat, swaps : Nat, faults : 0..MaxFaults, boots : 0..MaxBoots,
                 broken : BOOLEAN]

\* A receipt is there only where one is awaited.
ReceiptAwaited(work) == work.receipt # "none" => Awaited(work.at) # "nothing"

\* A loop has one transaction in flight at most, of the kind it awaits.
OneInFlight(queue, who, work) ==
    \A i \in DOMAIN queue : queue[i].owner = who =>
        /\ work.receipt = "none" /\ queue[i].kind = Awaited(work.at)
        /\ \A j \in DOMAIN queue : queue[j].owner = who => j = i

\* Before the first start there is nothing, after an exit nothing is awaited.
DownIsIdle ==
    /\ past.boots = 0 => ~proc.up /\ mempool = <<>>
    /\ ~proc.up => poll = At("off", 0) /\ defi = At("idle", 0)

\* No fault, no restart, no swap so far.
Undisturbed == past.faults = 0 /\ past.boots <= 1 /\ past.swaps = 0

\* Then the loop's own transaction is all there is, and will succeed.
LoopIsAlone ==
    Undisturbed /\ proc.up =>
        /\ poll.receipt # "reverted" /\ defi.at = "idle"
        /\ \A i \in DOMAIN mempool : mempool[i].owner = "poll" /\ Valid(mempool[i])

\* Every pending approval is a revocation or the swap's own.
OthersRevoke(queue) ==
    \A i \in DOMAIN queue :
        queue[i].kind = "approve" /\ queue[i].amount # 0 => queue[i].owner = "defi"

ApprovalIn(queue) == \E i \in DOMAIN queue : queue[i].kind = "approve"

\* As long as no swap was cut short: the approval of the swap in hand does not
\* fail, all others are revocations; and outside a swap there is no allowance
\* that a revocation in the mempool will not end.
RevocationPending ==
    ~past.broken =>
        /\ OthersRevoke(mempool)
        /\ defi.at = "approved" => defi.receipt # "reverted"
        /\ defi.at \in {"idle", "approve", "bridge", "bridged"} =>
             allowance = 0 \/ ApprovalIn(mempool)

WdkInv ==
    /\ Typed /\ ReceiptAwaited(poll) /\ ReceiptAwaited(defi)
    /\ OneInFlight(mempool, "poll", poll) /\ OneInFlight(mempool, "defi", defi)
    /\ DownIsIdle /\ LoopIsAlone /\ RevocationPending

-----------------------------------------------------------------------------
(* The mempool. *)

NoneInFlight(queue, who) == \A i \in DOMAIN queue : queue[i].owner # who

\* The mempool after a block, a submission or a loop that stopped waiting.
LEMMA TailOf ==
    ASSUME NEW q \in Seq(Txs), q # <<>>
    PROVE  /\ Head(q) \in Txs /\ 1 \in DOMAIN q /\ Head(q) = q[1] /\ Tail(q) \in Seq(Txs)
           /\ \A i \in DOMAIN Tail(q) : /\ i + 1 \in DOMAIN q /\ i + 1 # 1 /\ i \in Nat
                                        /\ Tail(q)[i] = q[i + 1]
           /\ \A i \in DOMAIN q : i # 1 =>
                /\ i - 1 \in DOMAIN Tail(q) /\ Tail(q)[i - 1] = q[i]
  OBVIOUS

LEMMA AppendTo ==
    ASSUME NEW q \in Seq(Txs), NEW tx \in Txs
    PROVE  /\ Append(q, tx) \in Seq(Txs)
           /\ \A i \in DOMAIN q : /\ i \in DOMAIN Append(q, tx) /\ i # Len(q) + 1
                                 /\ Append(q, tx)[i] = q[i]
           /\ \A i \in DOMAIN Append(q, tx) :
                i \in DOMAIN q \/ (i = Len(q) + 1 /\ Append(q, tx)[i] = tx)
           /\ Len(q) + 1 \in DOMAIN Append(q, tx) /\ Append(q, tx)[Len(q) + 1] = tx
  OBVIOUS

LEMMA ForgottenBy ==
    ASSUME mempool \in Seq(Txs), NEW owners, Forgotten(owners)
    PROVE  /\ mempool' \in Seq(Txs) /\ DOMAIN mempool' = DOMAIN mempool
           /\ \A i \in DOMAIN mempool :
                /\ mempool'[i].kind = mempool[i].kind
                /\ mempool'[i].amount = mempool[i].amount
                /\ mempool'[i].owner = IF mempool[i].owner \in owners THEN "nobody"
                                        ELSE mempool[i].owner
<1>1. \A i \in DOMAIN mempool : mempool[i] \in Txs
  OBVIOUS
<1> DEFINE Relabelled(i) == IF mempool[i].owner \in owners
                            THEN [mempool[i] EXCEPT !.owner = "nobody"] ELSE mempool[i]
<1>2. \A i \in DOMAIN mempool :
        /\ Relabelled(i) \in Txs
        /\ Relabelled(i).kind = mempool[i].kind /\ Relabelled(i).amount = mempool[i].amount
        /\ Relabelled(i).owner = IF mempool[i].owner \in owners THEN "nobody"
                                 ELSE mempool[i].owner
  BY <1>1 DEF Txs
<1>3. mempool' = [i \in DOMAIN mempool |-> Relabelled(i)]
  BY DEF Forgotten
<1> HIDE DEF Relabelled
<1>4. DOMAIN mempool' = 1..Len(mempool) /\ DOMAIN mempool = 1..Len(mempool) /\ Len(mempool) \in Nat
  BY <1>3
<1>5. mempool' \in [1..Len(mempool) -> Txs]
  BY <1>2, <1>3, <1>4
<1>6. mempool' \in Seq(Txs)
  BY <1>4, <1>5
<1>7. QED BY <1>2, <1>3, <1>4, <1>6

\* Who awaits nothing, or has the receipt, has nothing in flight.
LEMMA NotWaiting ==
    ASSUME NEW q \in Seq(Txs), NEW who, NEW work, OneInFlight(q, who, work),
           Awaited(work.at) = "nothing" \/ work.receipt # "none"
    PROVE  NoneInFlight(q, who)
<1>1. \A tx \in Txs : tx.kind # "nothing"
  BY DEF Txs
<1>2. QED BY <1>1 DEF OneInFlight, NoneInFlight

LEMMA TailInFlight ==
    ASSUME NEW q \in Seq(Txs), q # <<>>, NEW who, NEW work, OneInFlight(q, who, work)
    PROVE  /\ OneInFlight(Tail(q), who, work)
           /\ Head(q).owner = who =>
                /\ NoneInFlight(Tail(q), who) /\ work.receipt = "none"
                /\ Head(q).kind = Awaited(work.at)
<1> DEFINE t == Tail(q)
<1>1. /\ 1 \in DOMAIN q /\ Head(q) = q[1]
      /\ \A i \in DOMAIN t : i \in Nat /\ i + 1 \in DOMAIN q /\ i + 1 # 1 /\ t[i] = q[i + 1]
  BY TailOf
<1> HIDE DEF t
<1>2. OneInFlight(t, who, work)
  BY <1>1 DEF OneInFlight
<1>3. Head(q).owner = who => NoneInFlight(t, who)
  BY <1>1 DEF OneInFlight, NoneInFlight
<1>4. QED BY <1>1, <1>2, <1>3 DEF OneInFlight, t

LEMMA AppendInFlight ==
    ASSUME NEW q \in Seq(Txs), NEW tx \in Txs, NEW who, NEW work,
           \/ tx.owner # who /\ OneInFlight(q, who, work)
           \/ /\ NoneInFlight(q, who)
              /\ tx.owner = who => work.receipt = "none" /\ tx.kind = Awaited(work.at)
    PROVE  OneInFlight(Append(q, tx), who, work)
<1> DEFINE a == Append(q, tx)
           n == Len(q) + 1
<1>1. /\ \A i \in DOMAIN q : i \in DOMAIN a /\ i # n /\ a[i] = q[i]
      /\ \A i \in DOMAIN a : i \in DOMAIN q \/ (i = n /\ a[i] = tx)
  BY AppendTo
<1> HIDE DEF a, n
<1>2. OneInFlight(a, who, work)
  BY <1>1 DEF OneInFlight, NoneInFlight
<1>3. QED BY <1>2 DEF a

LEMMA ForgottenInFlight ==
    ASSUME mempool \in Seq(Txs), NEW owners, Forgotten(owners), NEW who, who # "nobody", NEW work,
           OneInFlight(mempool, who, work)
    PROVE  /\ OneInFlight(mempool', who, work)
           /\ who \in owners => NoneInFlight(mempool', who)
<1>1. DOMAIN mempool' = DOMAIN mempool
  BY ForgottenBy
<1>2. \A i \in DOMAIN mempool : /\ mempool'[i].kind = mempool[i].kind
                                /\ mempool'[i].owner = who => mempool[i].owner = who
                                /\ who \in owners => mempool'[i].owner # who
  BY ForgottenBy
<1>3. OneInFlight(mempool', who, work)
  BY <1>1, <1>2 DEF OneInFlight
<1>4. who \in owners => NoneInFlight(mempool', who)
  BY <1>1, <1>2 DEF NoneInFlight
<1>5. QED BY <1>3, <1>4

\* Nothing in flight is one in flight at most.
LEMMA NoneIsOne ==
    ASSUME NEW q, NEW who, NEW work, NoneInFlight(q, who)
    PROVE  OneInFlight(q, who, work)
  BY DEF OneInFlight, NoneInFlight

-----------------------------------------------------------------------------
(* Types. *)

\* What the loops do next is somewhere in their places.
LEMMA AtTyped ==
    ASSUME NEW amount \in Nat
    PROVE  /\ \A place \in PollPlaces : At(place, amount) \in Work(PollPlaces)
           /\ \A place \in DefiPlaces : At(place, amount) \in Work(DefiPlaces)
           /\ \A place : /\ At(place, amount).at = place /\ At(place, amount).amount = amount
                         /\ At(place, amount).receipt = "none"
  BY DEF At, Work

LEMMA AfterPollTyped ==
    /\ AfterPoll \in Work(PollPlaces) /\ AfterPoll.at \in {"off", "sleep"}
    /\ AfterPoll.receipt = "none"
<1>1. "off" \in PollPlaces /\ "sleep" \in PollPlaces
  BY DEF PollPlaces
<1>2. QED BY <1>1, AtTyped DEF AfterPoll

LEMMA TypedInit == WdkInit => Typed
<1> SUFFICES ASSUME WdkInit PROVE Typed
  OBVIOUS
<1>1. poll \in Work(PollPlaces) /\ defi \in Work(DefiPlaces)
  BY AtTyped DEF WdkInit, PollPlaces, DefiPlaces
<1>2. past \in [income : Nat, swaps : Nat, faults : 0..MaxFaults, boots : 0..MaxBoots,
                broken : BOOLEAN]
  BY WdkAssumption DEF WdkInit
<1>3. mempool \in Seq(Txs)
  BY DEF WdkInit
<1>4. QED BY <1>1, <1>2, <1>3 DEF WdkInit, Typed

\* A block: the balances stay natural because the transaction would succeed.
LEMMA TypedMine ==
    ASSUME Typed, OneInFlight(mempool, "poll", poll), OneInFlight(mempool, "defi", defi), Mine
    PROVE  Typed'
<1> DEFINE tx == Head(mempool)
<1>1. /\ tx \in Txs /\ mempool # <<>> /\ mempool' = Tail(mempool) /\ mempool' \in Seq(Txs)
  BY TailOf DEF Typed, Mine
<1> HIDE DEF tx
<1>2. PICK result \in {"success", "reverted"} :
        /\ result = "success" => Valid(tx)
        /\ IF result = "success" THEN Effect(tx) ELSE UNCHANGED <<wallet, box, allowance>>
        /\ poll' = IF tx.owner = "poll" THEN [poll EXCEPT !.receipt = result] ELSE poll
        /\ defi' = IF tx.owner = "defi" THEN [defi EXCEPT !.receipt = result] ELSE defi
  BY DEF Mine, tx
<1>3. tx.amount \in Nat
  BY <1>1 DEF Txs
<1>4. wallet' \in Nat /\ box' \in Nat /\ allowance' \in Nat
  <2>1. CASE result # "success"
    BY <1>2, <2>1 DEF Typed
  <2>2. CASE result = "success"
    <3>1. Valid(tx) /\ Effect(tx)
      BY <1>2, <2>2
    <3>2. wallet \in Nat /\ box \in Nat /\ allowance \in Nat
      BY DEF Typed
    <3>3. box - box \div VaultShare \in Nat
      BY <3>2, WdkAssumption
    <3>4. wallet + box - box \div VaultShare \in Nat
      BY <3>2, <3>3, WdkAssumption
    <3>5. QED BY <1>3, <3>1, <3>2, <3>4 DEF Valid, Effect
  <2>3. QED BY <2>1, <2>2
<1>5. poll' \in Work(PollPlaces) /\ defi' \in Work(DefiPlaces)
  BY <1>2 DEF Typed, Work
<1>6. QED BY <1>1, <1>4, <1>5 DEF Typed, Mine

\* The counters, one by one.
LEMMA PastTyped ==
    ASSUME Typed
    PROVE  /\ past.income \in Nat /\ past.faults \in 0..MaxFaults /\ past.boots \in 0..MaxBoots
           /\ \A n \in Nat : [past EXCEPT !.income = n] \in
                 [income : Nat, swaps : Nat, faults : 0..MaxFaults, boots : 0..MaxBoots,
                  broken : BOOLEAN]
           /\ \A n \in 0..MaxFaults : [past EXCEPT !.faults = n] \in
                 [income : Nat, swaps : Nat, faults : 0..MaxFaults, boots : 0..MaxBoots,
                  broken : BOOLEAN]
           /\ \A n \in 0..MaxBoots : [past EXCEPT !.boots = n] \in
                 [income : Nat, swaps : Nat, faults : 0..MaxFaults, boots : 0..MaxBoots,
                  broken : BOOLEAN]
<1> DEFINE F == 0..MaxFaults
           B == 0..MaxBoots
<1>1. past \in [income : Nat, swaps : Nat, faults : F, boots : B, broken : BOOLEAN]
  BY DEF Typed
<1> HIDE DEF F, B
<1>2. /\ past.income \in Nat /\ past.faults \in F /\ past.boots \in B
      /\ \A n \in Nat : [past EXCEPT !.income = n] \in
            [income : Nat, swaps : Nat, faults : F, boots : B, broken : BOOLEAN]
      /\ \A n \in F : [past EXCEPT !.faults = n] \in
            [income : Nat, swaps : Nat, faults : F, boots : B, broken : BOOLEAN]
      /\ \A n \in B : [past EXCEPT !.boots = n] \in
            [income : Nat, swaps : Nat, faults : F, boots : B, broken : BOOLEAN]
  BY <1>1
<1>3. QED BY <1>2 DEF F, B

\* A fault is one of the budget.
LEMMA FaultTyped ==
    ASSUME Typed, Fault
    PROVE  past' \in [income : Nat, swaps : Nat, faults : 0..MaxFaults, boots : 0..MaxBoots,
                      broken : BOOLEAN]
<1>1. past.faults \in 0..MaxFaults /\ past.faults < MaxFaults /\ MaxFaults \in Nat
  BY PastTyped, WdkAssumption DEF Fault
<1>2. past.faults + 1 \in 0..MaxFaults
  BY <1>1
<1>3. past' = [past EXCEPT !.faults = past.faults + 1]
  BY DEF Fault
<1>4. QED BY <1>2, <1>3, PastTyped

\* Payments, and the process that starts, is stopped or dies.
LEMMA TypedProcess ==
    ASSUME Typed,
           (\E amount \in Amounts : Income(amount)) \/ Boot \/ Shutdown \/ Exit
    PROVE  Typed'
<1> USE AtTyped, WdkAssumption
<1>1. CASE \E amount \in Amounts : Income(amount)
  <2>1. PICK amount \in Nat : Income(amount)
    BY <1>1
  <2>2. wallet' \in Nat /\ box' \in Nat
    <3>1. wallet \in Nat /\ box \in Nat
      BY DEF Typed
    <3>2. QED BY <2>1, <3>1 DEF Income
  <2>3. past' \in [income : Nat, swaps : Nat, faults : 0..MaxFaults, boots : 0..MaxBoots,
                   broken : BOOLEAN]
    <3>1. past.income + amount \in Nat /\ past' = [past EXCEPT !.income = past.income + amount]
      BY <2>1, PastTyped DEF Income
    <3>2. QED BY <3>1, PastTyped
  <2>4. QED BY <2>1, <2>2, <2>3 DEF Income, Typed
<1>2. CASE Boot
  <2>1. poll' \in Work(PollPlaces)
    BY <1>2 DEF Boot, PollPlaces
  <2>2. past' \in [income : Nat, swaps : Nat, faults : 0..MaxFaults, boots : 0..MaxBoots,
                   broken : BOOLEAN]
    <3>1. past.boots + 1 \in 0..MaxBoots
      <4>1. past.boots \in 0..MaxBoots /\ past.boots < MaxBoots
        BY <1>2, PastTyped DEF Boot
      <4>2. QED BY <4>1
    <3>2. past' = [past EXCEPT !.boots = past.boots + 1]
      BY <1>2 DEF Boot
    <3>3. QED BY <3>1, <3>2, PastTyped
  <2>3. proc' \in [up : BOOLEAN, isRunning : BOOLEAN, seed : BOOLEAN, registered : BOOLEAN]
    BY <1>2 DEF Boot, Typed, StillRegistered
  <2>4. wallet' \in Nat /\ allowance' \in Nat
    BY <1>2 DEF Boot, Typed
  <2>5. QED BY <1>2, <2>1, <2>2, <2>3, <2>4 DEF Boot, Typed
<1>3. CASE Shutdown
  <2>1. poll' \in Work(PollPlaces)
    BY <1>3 DEF Shutdown, PollPlaces, Typed
  <2>2. QED BY <1>3, <2>1 DEF Shutdown, Typed
<1>4. CASE Exit
  <2>1. poll' \in Work(PollPlaces) /\ defi' \in Work(DefiPlaces)
    BY <1>4 DEF Exit, PollPlaces, DefiPlaces
  <2>2. mempool' \in Seq(Txs)
    BY <1>4, ForgottenBy DEF Exit, Typed
  <2>3. past' \in [income : Nat, swaps : Nat, faults : 0..MaxFaults, boots : 0..MaxBoots,
                   broken : BOOLEAN]
    BY <1>4 DEF Exit, Typed
  <2>4. proc' \in [up : BOOLEAN, isRunning : BOOLEAN, seed : BOOLEAN, registered : BOOLEAN]
    BY <1>4 DEF Exit, Typed
  <2>5. QED BY <1>4, <2>1, <2>2, <2>3, <2>4 DEF Exit, Typed
<1>5. QED BY <1>1, <1>2, <1>3, <1>4

\* What a loop submits is a transaction, and the mempool grows by it.
LEMMA SubmittedTyped ==
    ASSUME Typed, NEW kind \in {"transfer", "process", "approve", "swap", "bridge"},
           NEW amount \in Nat, NEW owner \in {"poll", "defi", "nobody"},
           Submitted(kind, amount, owner)
    PROVE  /\ [kind |-> kind, amount |-> amount, owner |-> owner] \in Txs
           /\ mempool' \in Seq(Txs)
  BY AppendTo DEF Submitted, Typed, Txs

\* The polling loop.
LEMMA TypedPolling ==
    ASSUME Typed, Polling \/ PollFails
    PROVE  Typed'
<1> USE AtTyped
<1>1. /\ wallet \in Nat /\ box \in Nat /\ poll.amount \in Nat
      /\ {"wallet", "transfer", "transferred", "box", "process", "processed"} \subseteq PollPlaces
  BY DEF Typed, Work, PollPlaces
<1>2. poll' \in Work(PollPlaces)
  BY <1>1, AfterPollTyped
     DEF Polling, PollLoop, CheckWallet, CheckLockbox, TransferToLockbox, CallProcessRevenue,
         Skip, Confirmed, PollFails
<1>3. mempool' \in Seq(Txs)
  <2>1. CASE TransferToLockbox
    BY <1>1, <2>1, SubmittedTyped DEF TransferToLockbox
  <2>2. CASE CallProcessRevenue
    BY <1>1, <2>2, SubmittedTyped DEF CallProcessRevenue
  <2>3. CASE PollFails
    BY <2>3, ForgottenBy DEF PollFails, Typed
  <2>4. CASE UNCHANGED mempool
    BY <2>4 DEF Typed
  <2>5. QED BY <2>1, <2>2, <2>3, <2>4
            DEF Polling, PollLoop, CheckWallet, CheckLockbox, Skip, Confirmed
<1>4. past' \in [income : Nat, swaps : Nat, faults : 0..MaxFaults, boots : 0..MaxBoots,
                 broken : BOOLEAN]
  <2>1. past \in [income : Nat, swaps : Nat, faults : 0..MaxFaults, boots : 0..MaxBoots,
                  broken : BOOLEAN]
    BY DEF Typed
  <2>2. Fault \/ UNCHANGED past
    BY DEF Polling, PollLoop, CheckWallet, CheckLockbox, TransferToLockbox, CallProcessRevenue,
           Skip, Confirmed, PollFails
  <2>3. QED BY <2>1, <2>2, FaultTyped
<1>5. UNCHANGED <<wallet, box, allowance, proc, defi>>
  BY DEF Polling, PollLoop, CheckWallet, CheckLockbox, TransferToLockbox, CallProcessRevenue,
         Skip, Confirmed, PollFails
<1>6. QED BY <1>2, <1>3, <1>4, <1>5 DEF Typed

\* Swaps and bridge transfers.
LEMMA TypedSwapping ==
    ASSUME Typed,
           \/ \E amount \in Amounts : ExecuteSwap(amount) \/ BridgeUSDT0(amount)
           \/ Swapping \/ SwapFails
    PROVE  Typed'
<1> USE AtTyped
<1>1. defi.amount \in Nat /\ 0 \in Nat /\ Amounts \subseteq Nat
  BY WdkAssumption DEF Typed, Work
<1>2. {"idle", "approve", "approved", "swap", "swapped", "revoke", "bridge", "bridged"}
        \subseteq DefiPlaces
  BY DEF DefiPlaces
<1>3. defi' \in Work(DefiPlaces)
  <2>1. NextPlace \in DefiPlaces
    BY <1>2 DEF NextPlace
  <2>2. CASE Receipt
    BY <1>1, <2>1, <2>2 DEF Receipt
  <2>3. CASE \E amount \in Amounts : ExecuteSwap(amount) \/ BridgeUSDT0(amount)
    BY <1>1, <1>2, <2>3 DEF ExecuteSwap, BridgeUSDT0, Begin
  <2>4. CASE Send \/ Refuse \/ RevokeApproval \/ SwapFails
    BY <1>1, <1>2, <2>4 DEF Send, Refuse, RevokeApproval, SwapFails
  <2>5. QED BY <2>2, <2>3, <2>4 DEF Swapping
<1>4. mempool' \in Seq(Txs)
  <2>1. CASE Send
    BY <1>1, <2>1, SubmittedTyped DEF Send
  <2>2. CASE RevokeApproval
    BY <1>1, <2>2, SubmittedTyped DEF RevokeApproval
  <2>3. CASE SwapFails
    BY <2>3, ForgottenBy DEF SwapFails, Typed
  <2>4. CASE UNCHANGED mempool
    BY <2>4 DEF Typed
  <2>5. QED BY <2>1, <2>2, <2>3, <2>4 DEF Swapping, Refuse, Receipt, ExecuteSwap, BridgeUSDT0, Begin
<1>5. past' \in [income : Nat, swaps : Nat, faults : 0..MaxFaults, boots : 0..MaxBoots,
                 broken : BOOLEAN]
  <2>1. past \in [income : Nat, swaps : Nat, faults : 0..MaxFaults, boots : 0..MaxBoots,
                  broken : BOOLEAN]
    BY DEF Typed
  <2>2. CASE \E amount \in Amounts : ExecuteSwap(amount) \/ BridgeUSDT0(amount)
    <3>1. past.swaps + 1 \in Nat /\ past' = [past EXCEPT !.swaps = past.swaps + 1]
      BY <2>1, <2>2 DEF ExecuteSwap, BridgeUSDT0, Begin
    <3>2. QED BY <2>1, <3>1
  <2>3. CASE SwapFails
    <3>1. /\ past.faults + 1 \in 0..MaxFaults
          /\ past' = [past EXCEPT !.faults = past.faults + 1, !.broken = TRUE]
      BY <2>1, <2>3, WdkAssumption DEF SwapFails
    <3>2. QED BY <2>1, <3>1
  <2>4. CASE Fault \/ UNCHANGED past
    BY <2>1, <2>4, FaultTyped
  <2>5. QED BY <2>2, <2>3, <2>4 DEF Swapping, Send, Refuse, Receipt, RevokeApproval, GasTooDear
<1>6. UNCHANGED <<wallet, box, allowance, proc, poll>>
  BY DEF Swapping, Send, Refuse, Receipt, RevokeApproval, SwapFails, ExecuteSwap, BridgeUSDT0,
         Begin
<1>7. QED BY <1>3, <1>4, <1>5, <1>6 DEF Typed

-----------------------------------------------------------------------------
(* What is in flight. *)

InFlight ==
    /\ ReceiptAwaited(poll) /\ ReceiptAwaited(defi)
    /\ OneInFlight(mempool, "poll", poll) /\ OneInFlight(mempool, "defi", defi)

\* A loop that goes on to a place where nothing is awaited has no receipt there.
LEMMA FreshAt ==
    ASSUME NEW place, NEW amount
    PROVE  ReceiptAwaited(At(place, amount))
  BY DEF ReceiptAwaited, At

LEMMA InFlightMine == ASSUME Typed, InFlight, Mine PROVE InFlight'
<1> DEFINE tx == Head(mempool)
<1>1. mempool \in Seq(Txs) /\ mempool # <<>> /\ mempool' = Tail(mempool)
  BY DEF Typed, Mine
<1>2. \A who, work : OneInFlight(mempool, who, work) =>
        /\ OneInFlight(Tail(mempool), who, work)
        /\ tx.owner = who => NoneInFlight(Tail(mempool), who) /\ tx.kind = Awaited(work.at)
  BY <1>1, TailInFlight
<1>3. tx.kind # "nothing"
  BY <1>1, TailOf DEF Txs
<1> HIDE DEF tx
<1>4. PICK result \in {"success", "reverted"} :
        /\ poll' = IF tx.owner = "poll" THEN [poll EXCEPT !.receipt = result] ELSE poll
        /\ defi' = IF tx.owner = "defi" THEN [defi EXCEPT !.receipt = result] ELSE defi
  BY DEF Mine, tx
<1>5. poll'.at = poll.at /\ defi'.at = defi.at
  BY <1>4 DEF Typed, Work
<1>6. OneInFlight(mempool, "poll", poll)' /\ ReceiptAwaited(poll)'
  <2>1. CASE tx.owner = "poll"
    BY <1>1, <1>2, <1>3, <1>5, <2>1, NoneIsOne DEF InFlight, ReceiptAwaited
  <2>2. CASE tx.owner # "poll"
    BY <1>1, <1>2, <1>4, <2>2 DEF InFlight
  <2>3. QED BY <2>1, <2>2
<1>7. OneInFlight(mempool, "defi", defi)' /\ ReceiptAwaited(defi)'
  <2>1. CASE tx.owner = "defi"
    BY <1>1, <1>2, <1>3, <1>5, <2>1, NoneIsOne DEF InFlight, ReceiptAwaited
  <2>2. CASE tx.owner # "defi"
    BY <1>1, <1>2, <1>4, <2>2 DEF InFlight
  <2>3. QED BY <2>1, <2>2
<1>8. QED BY <1>6, <1>7 DEF InFlight

\* A loop whose place changes while nothing of it is in flight.
LEMMA InFlightKept ==
    ASSUME NEW q \in Seq(Txs), NEW who, NEW work, OneInFlight(q, who, work),
           Awaited(work.at) = "nothing" \/ work.receipt # "none", NEW next
    PROVE  OneInFlight(q, who, next)
  BY NotWaiting, NoneIsOne

\* A loop that submits the transaction it will wait for.
LEMMA InFlightSubmitted ==
    ASSUME mempool \in Seq(Txs), NEW who, NEW work, OneInFlight(mempool, who, work),
           Awaited(work.at) = "nothing", NEW next, next.receipt = "none",
           NEW kind, kind = Awaited(next.at), NEW amount, Submitted(kind, amount, who),
           [kind |-> kind, amount |-> amount, owner |-> who] \in Txs
    PROVE  OneInFlight(mempool', who, next)
<1> DEFINE tx == [kind |-> kind, amount |-> amount, owner |-> who]
<1>1. NoneInFlight(mempool, who)
  BY NotWaiting
<1>2. tx.owner = who /\ tx.kind = kind /\ tx \in Txs /\ mempool' = Append(mempool, tx)
  BY DEF Submitted
<1> HIDE DEF tx
<1>3. QED BY <1>1, <1>2, AppendInFlight

\* A loop beside which another submits.
LEMMA InFlightBeside ==
    ASSUME mempool \in Seq(Txs), NEW who, NEW work, OneInFlight(mempool, who, work),
           NEW kind, NEW amount, NEW owner, owner # who, Submitted(kind, amount, owner),
           [kind |-> kind, amount |-> amount, owner |-> owner] \in Txs
    PROVE  OneInFlight(mempool', who, work)
<1> DEFINE tx == [kind |-> kind, amount |-> amount, owner |-> owner]
<1>1. tx.owner # who /\ tx \in Txs /\ mempool' = Append(mempool, tx)
  BY DEF Submitted
<1> HIDE DEF tx
<1>2. QED BY <1>1, AppendInFlight

LEMMA InFlightProcess ==
    ASSUME Typed, InFlight, DownIsIdle,
           (\E amount \in Amounts : Income(amount)) \/ Boot \/ Shutdown \/ Exit
    PROVE  InFlight'
<1>1. mempool \in Seq(Txs)
  BY DEF Typed
<1>2. CASE \E amount \in Amounts : Income(amount)
  BY <1>2 DEF Income, InFlight, OneInFlight, ReceiptAwaited
<1>3. CASE Boot
  <2>1. Awaited(poll.at) = "nothing"
    BY <1>3 DEF Boot, DownIsIdle, Awaited, At
  <2>2. OneInFlight(mempool', "poll", poll')
    BY <1>1, <1>3, <2>1, InFlightKept DEF Boot, InFlight
  <2>3. OneInFlight(mempool', "defi", defi') /\ ReceiptAwaited(defi') /\ ReceiptAwaited(poll')
    BY <1>3, FreshAt DEF Boot, InFlight
  <2>4. QED BY <2>2, <2>3 DEF InFlight
<1>4. CASE Shutdown
  <2>1. OneInFlight(mempool', "poll", poll') /\ ReceiptAwaited(poll')
    <3>1. CASE poll.at = "sleep"
      <4>1. Awaited(poll.at) = "nothing"
        BY <3>1 DEF Awaited
      <4>2. QED BY <1>1, <1>4, <3>1, <4>1, InFlightKept, FreshAt DEF Shutdown, InFlight
    <3>2. CASE poll.at # "sleep"
      BY <1>4, <3>2 DEF Shutdown, InFlight
    <3>3. QED BY <3>1, <3>2
  <2>2. OneInFlight(mempool', "defi", defi') /\ ReceiptAwaited(defi')
    BY <1>4 DEF Shutdown, InFlight
  <2>3. QED BY <2>1, <2>2 DEF InFlight
<1>5. CASE Exit
  <2>1. Forgotten({"poll", "defi"}) /\ poll' = At("off", 0) /\ defi' = At("idle", 0)
    BY <1>5 DEF Exit
  <2>2. NoneInFlight(mempool', "poll") /\ NoneInFlight(mempool', "defi")
    BY <1>1, <2>1, ForgottenInFlight DEF InFlight
  <2>3. QED BY <2>1, <2>2, NoneIsOne, FreshAt DEF InFlight
<1>6. QED BY <1>2, <1>3, <1>4, <1>5

LEMMA InFlightPolling == ASSUME Typed, InFlight, Polling \/ PollFails PROVE InFlight'
<1>1. mempool \in Seq(Txs) /\ poll.amount \in Nat
  BY DEF Typed, Work
<1>2. CASE PollLoop \/ CheckWallet \/ CheckLockbox \/ Skip \/ Confirmed
  <2>1. Awaited(poll.at) = "nothing" \/ poll.receipt # "none"
    BY <1>2 DEF PollLoop, CheckWallet, CheckLockbox, Skip, Confirmed, Awaited
  <2>2. UNCHANGED <<mempool, defi>> /\ ReceiptAwaited(poll')
    BY <1>2, FreshAt DEF PollLoop, CheckWallet, CheckLockbox, Skip, Confirmed, AfterPoll
  <2>3. OneInFlight(mempool, "poll", poll')
    BY <1>1, <2>1, InFlightKept DEF InFlight
  <2>4. QED BY <2>2, <2>3 DEF InFlight
<1>3. CASE TransferToLockbox \/ CallProcessRevenue
  <2>1. PICK kind \in {"transfer", "process"} :
          /\ Submitted(kind, poll.amount, "poll") /\ kind = Awaited(poll'.at)
          /\ Awaited(poll.at) = "nothing" /\ poll'.receipt = "none" /\ ReceiptAwaited(poll')
    <3>1. CASE TransferToLockbox
      BY <3>1, AtTyped, FreshAt, <1>1 DEF TransferToLockbox, Awaited
    <3>2. CASE CallProcessRevenue
      BY <3>2, AtTyped, FreshAt, <1>1 DEF CallProcessRevenue, Awaited
    <3>3. QED BY <1>3, <3>1, <3>2
  <2>2. [kind |-> kind, amount |-> poll.amount, owner |-> "poll"] \in Txs
    BY <1>1, <2>1, SubmittedTyped
  <2>3. OneInFlight(mempool', "poll", poll')
    BY <1>1, <2>1, <2>2, InFlightSubmitted DEF InFlight
  <2>4. OneInFlight(mempool', "defi", defi)
    BY <1>1, <2>1, <2>2, InFlightBeside DEF InFlight
  <2>5. QED BY <1>3, <2>1, <2>3, <2>4 DEF InFlight, TransferToLockbox, CallProcessRevenue
<1>4. CASE PollFails
  <2>1. Forgotten({"poll"}) /\ ReceiptAwaited(poll') /\ defi' = defi
    BY <1>4, FreshAt DEF PollFails, AfterPoll
  <2>2. NoneInFlight(mempool', "poll") /\ OneInFlight(mempool', "defi", defi)
    BY <1>1, <2>1, ForgottenInFlight DEF InFlight
  <2>3. QED BY <2>1, <2>2, NoneIsOne DEF InFlight
<1>5. QED BY <1>2, <1>3, <1>4 DEF Polling

\* The place where a swap or bridge transfer waits for what it has sent.
LEMMA SendSubmits ==
    ASSUME Typed, Send
    PROVE  \E kind \in {"approve", "swap", "bridge"} :
             /\ Submitted(kind, defi.amount, "defi") /\ kind = Awaited(defi'.at)
             /\ defi.at \in {"approve", "swap", "bridge"} /\ Awaited(defi.at) = "nothing"
             /\ kind = "approve" => defi'.at = "approved"
             /\ defi'.at = "bridged" => defi.at = "bridge"
             /\ defi'.at \in {"approved", "swapped", "bridged"}
             /\ defi'.receipt = "none" /\ ReceiptAwaited(defi')
             /\ [kind |-> kind, amount |-> defi.amount, owner |-> "defi"] \in Txs
<1>1. defi.amount \in Nat
  BY DEF Typed, Work
<1>2. /\ defi'.receipt = "none" /\ ReceiptAwaited(defi')
      /\ \/ /\ defi.at = "approve" /\ Submitted("approve", defi.amount, "defi")
            /\ defi'.at = "approved"
         \/ /\ defi.at = "swap" /\ Submitted("swap", defi.amount, "defi") /\ defi'.at = "swapped"
         \/ /\ defi.at = "bridge" /\ Submitted("bridge", defi.amount, "defi")
            /\ defi'.at = "bridged"
  BY AtTyped, FreshAt, <1>1 DEF Send
<1>3. CASE defi.at = "approve" /\ Submitted("approve", defi.amount, "defi") /\ defi'.at = "approved"
  BY <1>1, <1>2, <1>3, SubmittedTyped DEF Awaited
<1>4. CASE defi.at = "swap" /\ Submitted("swap", defi.amount, "defi") /\ defi'.at = "swapped"
  BY <1>1, <1>2, <1>4, SubmittedTyped DEF Awaited
<1>5. CASE defi.at = "bridge" /\ Submitted("bridge", defi.amount, "defi") /\ defi'.at = "bridged"
  BY <1>1, <1>2, <1>5, SubmittedTyped DEF Awaited
<1>6. QED BY <1>2, <1>3, <1>4, <1>5

LEMMA InFlightSwapping ==
    ASSUME Typed, InFlight,
           \/ \E amount \in Amounts : ExecuteSwap(amount) \/ BridgeUSDT0(amount)
           \/ Swapping \/ SwapFails
    PROVE  InFlight'
<1>1. mempool \in Seq(Txs)
  BY DEF Typed
<1>2. CASE \/ \E amount \in Amounts : ExecuteSwap(amount) \/ BridgeUSDT0(amount)
           \/ Refuse \/ Receipt
  <2>1. Awaited(defi.at) = "nothing" \/ defi.receipt # "none"
    BY <1>2 DEF ExecuteSwap, BridgeUSDT0, Begin, Refuse, Receipt, Awaited
  <2>2. UNCHANGED <<mempool, poll>> /\ ReceiptAwaited(defi')
    BY <1>2, FreshAt DEF ExecuteSwap, BridgeUSDT0, Begin, Refuse, Receipt
  <2>3. OneInFlight(mempool, "defi", defi')
    BY <1>1, <2>1, InFlightKept DEF InFlight
  <2>4. QED BY <2>2, <2>3 DEF InFlight
<1>3. CASE Send
  <2>1. PICK kind \in {"approve", "swap", "bridge"} :
          /\ Submitted(kind, defi.amount, "defi") /\ kind = Awaited(defi'.at)
          /\ Awaited(defi.at) = "nothing" /\ defi'.receipt = "none" /\ ReceiptAwaited(defi')
          /\ [kind |-> kind, amount |-> defi.amount, owner |-> "defi"] \in Txs
    BY <1>3, SendSubmits
  <2>2. OneInFlight(mempool', "defi", defi')
    BY <1>1, <2>1, InFlightSubmitted DEF InFlight
  <2>3. OneInFlight(mempool', "poll", poll)
    BY <1>1, <2>1, InFlightBeside DEF InFlight
  <2>4. QED BY <1>3, <2>1, <2>2, <2>3 DEF InFlight, Send
<1>4. CASE RevokeApproval
  <2>1. Submitted("approve", 0, "nobody") /\ Awaited(defi.at) = "nothing" /\ ReceiptAwaited(defi')
    BY <1>4, FreshAt DEF RevokeApproval, Awaited
  <2>2. [kind |-> "approve", amount |-> 0, owner |-> "nobody"] \in Txs
    BY DEF Txs
  <2>3. OneInFlight(mempool', "poll", poll)
    BY <1>1, <2>1, <2>2, InFlightBeside DEF InFlight
  <2>4. OneInFlight(mempool, "defi", defi')
    BY <1>1, <2>1, InFlightKept DEF InFlight
  <2>5. OneInFlight(mempool', "defi", defi')
    BY <1>1, <2>1, <2>2, <2>4, InFlightBeside
  <2>6. QED BY <1>4, <2>1, <2>3, <2>5 DEF InFlight, RevokeApproval
<1>5. CASE SwapFails
  <2>1. Forgotten({"defi"}) /\ ReceiptAwaited(defi') /\ poll' = poll
    BY <1>5, FreshAt DEF SwapFails
  <2>2. NoneInFlight(mempool', "defi") /\ OneInFlight(mempool', "poll", poll)
    BY <1>1, <2>1, ForgottenInFlight DEF InFlight
  <2>3. QED BY <2>1, <2>2, NoneIsOne DEF InFlight
<1>6. QED BY <1>2, <1>3, <1>4, <1>5 DEF Swapping

-----------------------------------------------------------------------------
(* While the process is down. *)

LEMMA DownNext ==
    ASSUME Typed, InFlight, DownIsIdle, [WdkNext]_wdkVars
    PROVE  DownIsIdle'
<1>1. CASE Mine
  <2>1. poll.at = "off" /\ poll.receipt = "none" /\ poll = At("off", 0)
          => Head(mempool).owner # "poll"
    <3>1. mempool \in Seq(Txs) /\ mempool # <<>>
      BY <1>1 DEF Typed, Mine
    <3>2. Awaited("off") = "nothing" /\ Head(mempool).kind # "nothing"
      BY <3>1, TailOf DEF Awaited, Txs
    <3>3. QED BY <3>1, <3>2, TailInFlight DEF InFlight
  <2>2. defi = At("idle", 0) => Head(mempool).owner # "defi"
    <3>1. mempool \in Seq(Txs) /\ mempool # <<>>
      BY <1>1 DEF Typed, Mine
    <3>2. Awaited("idle") = "nothing" /\ Head(mempool).kind # "nothing" /\ At("idle", 0).at = "idle"
      BY <3>1, TailOf DEF Awaited, Txs, At
    <3>3. QED BY <3>1, <3>2, TailInFlight DEF InFlight
  <2>3. At("off", 0).at = "off" /\ At("off", 0).receipt = "none"
    BY DEF At
  <2>4. QED BY <1>1, <2>1, <2>2, <2>3 DEF Mine, DownIsIdle
<1>2. CASE \E amount \in Amounts : Income(amount)
  BY <1>2 DEF Income, DownIsIdle
<1>3. CASE Boot
  BY <1>3 DEF Boot, DownIsIdle, Typed
<1>4. CASE Shutdown
  BY <1>4 DEF Shutdown, DownIsIdle, Typed, At
<1>5. CASE Exit
  BY <1>5 DEF Exit, DownIsIdle, Typed
<1>6. CASE Polling \/ PollFails
  <2>1. poll.at # "off"
    BY <1>6 DEF Polling, PollLoop, CheckWallet, CheckLockbox, TransferToLockbox,
                CallProcessRevenue, Skip, Confirmed, PollFails, InFlight, ReceiptAwaited, Awaited
  <2>2. proc.up
    BY <2>1 DEF DownIsIdle, At
  <2>3. past'.boots = past.boots /\ proc' = proc
    BY <1>6 DEF Polling, PollLoop, CheckWallet, CheckLockbox, TransferToLockbox,
                CallProcessRevenue, Skip, Confirmed, PollFails, Fault, Typed
  <2>4. QED BY <2>2, <2>3 DEF DownIsIdle
<1>7. CASE \/ \E amount \in Amounts : ExecuteSwap(amount) \/ BridgeUSDT0(amount)
           \/ Swapping \/ SwapFails
  <2>1. proc.up
    BY <1>7 DEF ExecuteSwap, BridgeUSDT0, Begin, Swapping, Send, Refuse, Receipt, RevokeApproval,
                SwapFails, InFlight, ReceiptAwaited, Awaited, DownIsIdle, At
  <2>2. past'.boots = past.boots /\ proc' = proc
    BY <1>7 DEF ExecuteSwap, BridgeUSDT0, Begin, Swapping, Send, Refuse, Receipt, RevokeApproval,
                SwapFails, GasTooDear, Fault, Typed
  <2>3. QED BY <2>1, <2>2 DEF DownIsIdle
<1>8. CASE UNCHANGED wdkVars
  BY <1>8 DEF wdkVars, DownIsIdle
<1>9. QED BY <1>1, <1>2, <1>3, <1>4, <1>5, <1>6, <1>7, <1>8 DEF WdkNext

-----------------------------------------------------------------------------
(* The loop on its own. *)

LEMMA AloneMine ==
    ASSUME Typed, InFlight, LoopIsAlone, Mine, Undisturbed, proc.up
    PROVE  /\ poll'.receipt # "reverted" /\ defi'.at = "idle"
           /\ DOMAIN mempool' = {}
<1> DEFINE tx == Head(mempool)
<1>1. /\ mempool \in Seq(Txs) /\ mempool # <<>> /\ mempool' = Tail(mempool)
      /\ \A i \in DOMAIN mempool : mempool[i].owner = "poll" /\ Valid(mempool[i])
      /\ poll.receipt # "reverted" /\ defi.at = "idle"
  BY DEF Typed, Mine, LoopIsAlone
<1>2. tx.owner = "poll" /\ Valid(tx)
  BY <1>1, TailOf
<1>3. NoneInFlight(Tail(mempool), "poll") /\ tx.kind = Awaited(poll.at)
  BY <1>1, <1>2, TailInFlight DEF InFlight
<1>4. \A i \in DOMAIN Tail(mempool) : Tail(mempool)[i].owner = "poll"
  BY <1>1, TailOf
<1>5. DOMAIN mempool' = {}
  BY <1>1, <1>3, <1>4 DEF NoneInFlight
<1>6. tx.kind \notin {"swap", "bridge"}
  BY <1>3 DEF Awaited, Typed, Work, PollPlaces
<1> HIDE DEF tx
<1>7. poll' = [poll EXCEPT !.receipt = "success"] /\ defi' = defi
  BY <1>2, <1>6 DEF Mine, tx
<1>8. poll'.receipt = "success"
  BY <1>7 DEF Typed, Work
<1>9. QED BY <1>1, <1>5, <1>7, <1>8

\* What the loop submits would succeed when it is submitted, and nothing but
\* payments to the agent happens until the block.
LEMMA AlonePolling ==
    ASSUME Typed, InFlight, LoopIsAlone, Polling, Undisturbed', proc'.up
    PROVE  /\ poll'.receipt # "reverted" /\ defi'.at = "idle"
           /\ \A i \in DOMAIN mempool' : mempool'[i].owner = "poll" /\ Valid(mempool[i])'
<1>1. UNCHANGED <<wallet, box, allowance, proc, defi>>
  BY DEF Polling, PollLoop, CheckWallet, CheckLockbox, TransferToLockbox, CallProcessRevenue,
         Skip, Confirmed
<1>2. UNCHANGED past
  <2>1. Fault => past'.faults # 0
    BY DEF Fault, Typed
  <2>2. QED BY <2>1 DEF Polling, PollLoop, CheckWallet, CheckLockbox, TransferToLockbox,
                CallProcessRevenue, Skip, Confirmed, Undisturbed
<1>3. /\ mempool \in Seq(Txs) /\ poll.amount \in Nat /\ defi.at = "idle"
      /\ \A i \in DOMAIN mempool : mempool[i].owner = "poll" /\ Valid(mempool[i])
  BY <1>1, <1>2 DEF Typed, Work, LoopIsAlone, Undisturbed
<1>4. poll'.receipt = "none"
  BY <1>3, AtTyped, AfterPollTyped
     DEF Polling, PollLoop, CheckWallet, CheckLockbox, TransferToLockbox, CallProcessRevenue,
         Skip, Confirmed, At, AfterPoll
<1>5. ASSUME NEW i \in DOMAIN mempool' PROVE mempool'[i].owner = "poll" /\ Valid(mempool'[i])
  <2>1. CASE UNCHANGED mempool
    BY <1>3, <1>5, <2>1
  <2>2. CASE TransferToLockbox \/ CallProcessRevenue
    <3>1. PICK kind \in {"transfer", "process"} :
            /\ Submitted(kind, poll.amount, "poll") /\ Awaited(poll.at) = "nothing"
            /\ Valid([kind |-> kind, amount |-> poll.amount])
      BY <2>2 DEF TransferToLockbox, CallProcessRevenue, Awaited
    <3> DEFINE tx == [kind |-> kind, amount |-> poll.amount, owner |-> "poll"]
    <3>2. tx \in Txs /\ mempool' = Append(mempool, tx) /\ tx.owner = "poll"
      BY <1>3, <3>1, SubmittedTyped DEF Submitted
    <3>3. Valid(tx)
      BY <3>1 DEF Valid
    <3> HIDE DEF tx
    <3>4. DOMAIN mempool = {}
      BY <1>3, <3>1, NotWaiting DEF InFlight, NoneInFlight
    <3>5. mempool'[i] = tx
      BY <1>3, <1>5, <3>2, <3>4, AppendTo
    <3>6. QED BY <3>2, <3>3, <3>5
  <2>3. QED BY <2>1, <2>2 DEF Polling, PollLoop, CheckWallet, CheckLockbox, Skip, Confirmed
<1>6. \A i \in DOMAIN mempool' : Valid(mempool'[i]) => Valid(mempool[i])'
  BY <1>1 DEF Valid
<1>7. QED BY <1>1, <1>3, <1>4, <1>5, <1>6

LEMMA AloneNext ==
    ASSUME Typed, InFlight, DownIsIdle, LoopIsAlone, [WdkNext]_wdkVars
    PROVE  LoopIsAlone'
<1> SUFFICES ASSUME Undisturbed', proc'.up
             PROVE  /\ poll'.receipt # "reverted" /\ defi'.at = "idle"
                    /\ \A i \in DOMAIN mempool' : mempool'[i].owner = "poll" /\ Valid(mempool[i])'
  BY DEF LoopIsAlone
<1>1. CASE \E amount \in Amounts : Income(amount)
  <2>1. PICK amount \in Nat : Income(amount)
    BY <1>1, WdkAssumption
  <2>2. Undisturbed /\ proc.up
    BY <2>1 DEF Income, Undisturbed, Typed
  <2>3. \A tx : Valid(tx) => (tx.amount \in Nat => Valid(tx)')
    BY <2>1 DEF Income, Valid, Typed
  <2>4. \A i \in DOMAIN mempool : mempool[i].amount \in Nat
    <3>1. \A tx \in Txs : tx.amount \in Nat
      BY DEF Txs
    <3>2. QED BY <3>1 DEF Typed
  <2>5. UNCHANGED <<poll, defi, mempool>>
    BY <2>1 DEF Income
  <2>6. QED BY <2>2, <2>3, <2>4, <2>5 DEF LoopIsAlone
<1>2. CASE Mine
  BY <1>2, AloneMine DEF Mine, Undisturbed
<1>3. CASE Boot
  <2>1. past.boots = 0
    BY <1>3 DEF Boot, Undisturbed, Typed
  <2>2. DOMAIN mempool' = {} /\ defi = At("idle", 0) /\ poll' = At("wallet", 0) /\ defi' = defi
    BY <1>3, <2>1 DEF Boot, DownIsIdle, Typed
  <2>3. QED BY <2>2 DEF At
<1>4. CASE Shutdown
  <2>1. Undisturbed /\ proc.up /\ \A tx : Valid(tx) => Valid(tx)'
    BY <1>4 DEF Shutdown, Undisturbed, Typed, Valid
  <2>2. QED BY <1>4, <2>1 DEF Shutdown, LoopIsAlone, At
<1>5. CASE Exit
  BY <1>5 DEF Exit, Typed
<1>6. CASE Polling
  BY <1>6, AlonePolling
<1>7. CASE \/ \E amount \in Amounts : ExecuteSwap(amount) \/ BridgeUSDT0(amount)
           \/ Swapping \/ SwapFails \/ PollFails
  <2>1. ~ \E amount \in Amounts : ExecuteSwap(amount) \/ BridgeUSDT0(amount)
    BY DEF ExecuteSwap, BridgeUSDT0, Begin, Undisturbed, Typed
  <2>2. ~SwapFails /\ ~PollFails
    <3>1. SwapFails \/ PollFails => past'.faults = past.faults + 1 /\ past.faults \in Nat
      <4>1. past.faults \in Nat
        BY WdkAssumption DEF Typed
      <4>2. past.faults + 1 \in Nat
        BY <4>1
      <4>3. SwapFails => past'.faults = past.faults + 1
        BY DEF SwapFails, Typed
      <4>4. PollFails => past'.faults = past.faults + 1
        BY DEF PollFails, Fault, Typed
      <4>5. QED BY <4>1, <4>3, <4>4
    <3>2. QED BY <3>1 DEF Undisturbed
  <2>3. ~Swapping
    <3>1. Swapping => defi.at # "idle"
      BY DEF Swapping, Send, Refuse, Receipt, RevokeApproval, InFlight, ReceiptAwaited, Awaited
    <3>2. Swapping => UNCHANGED <<proc, past>> \/ Fault
      BY DEF Swapping, Send, Refuse, Receipt, RevokeApproval, GasTooDear
    <3>3. ~Fault
      BY DEF Fault, Undisturbed, Typed
    <3>4. Swapping => Undisturbed /\ proc.up
      BY <3>2, <3>3 DEF Undisturbed
    <3>5. QED BY <3>1, <3>4 DEF LoopIsAlone
  <2>4. QED BY <1>7, <2>1, <2>2, <2>3
<1>8. CASE UNCHANGED wdkVars
  <2>1. Undisturbed /\ proc.up /\ \A tx : Valid(tx) => Valid(tx)'
    BY <1>8 DEF wdkVars, Undisturbed, Valid
  <2>2. QED BY <1>8, <2>1 DEF wdkVars, LoopIsAlone
<1>9. QED BY <1>1, <1>2, <1>3, <1>4, <1>5, <1>6, <1>7, <1>8 DEF WdkNext

-----------------------------------------------------------------------------
(* Allowances. *)

\* The mempool grows by what is no approval, or a revocation, or the swap's own.
LEMMA RevocationAppend ==
    ASSUME NEW q \in Seq(Txs), NEW tx \in Txs, OthersRevoke(q),
           tx.kind = "approve" /\ tx.amount # 0 => tx.owner = "defi"
    PROVE  /\ OthersRevoke(Append(q, tx))
           /\ ApprovalIn(q) \/ tx.kind = "approve" => ApprovalIn(Append(q, tx))
<1> DEFINE a == Append(q, tx)
           n == Len(q) + 1
<1>1. /\ \A i \in DOMAIN q : i \in DOMAIN a /\ a[i] = q[i]
      /\ \A i \in DOMAIN a : i \in DOMAIN q \/ (i = n /\ a[i] = tx)
      /\ n \in DOMAIN a /\ a[n] = tx
  BY AppendTo
<1> HIDE DEF a, n
<1>2. OthersRevoke(a) /\ (ApprovalIn(q) \/ tx.kind = "approve" => ApprovalIn(a))
  BY <1>1 DEF OthersRevoke, ApprovalIn
<1>3. QED BY <1>2 DEF a

LEMMA RevocationMine ==
    ASSUME Typed, InFlight, RevocationPending, Mine
    PROVE  RevocationPending'
<1> SUFFICES ASSUME ~past.broken
             PROVE  /\ OthersRevoke(mempool')
                    /\ defi'.at = "approved" => defi'.receipt # "reverted"
                    /\ defi'.at \in {"idle", "approve", "bridge", "bridged"} =>
                         allowance' = 0 \/ ApprovalIn(mempool')
  BY DEF Mine, RevocationPending
<1> DEFINE tx == Head(mempool)
<1>1. /\ mempool \in Seq(Txs) /\ mempool # <<>> /\ mempool' = Tail(mempool) /\ tx \in Txs
      /\ OthersRevoke(mempool) /\ tx = mempool[1] /\ 1 \in DOMAIN mempool
      /\ \A i \in DOMAIN mempool' : i + 1 \in DOMAIN mempool /\ mempool'[i] = mempool[i + 1]
      /\ \A i \in DOMAIN mempool : i # 1 =>
           i - 1 \in DOMAIN mempool' /\ mempool'[i - 1] = mempool[i]
  BY TailOf DEF Typed, Mine, RevocationPending
<1>2. tx.owner = "defi" => tx.kind = Awaited(defi.at)
  BY <1>1, TailInFlight DEF InFlight
<1> HIDE DEF tx
<1>3. PICK result \in {"success", "reverted"} :
        /\ result = "reverted" => ~Valid(tx) \/ tx.kind \in {"swap", "bridge"}
        /\ IF result = "success" THEN Valid(tx) /\ Effect(tx)
           ELSE UNCHANGED <<wallet, box, allowance>>
        /\ defi' = IF tx.owner = "defi" THEN [defi EXCEPT !.receipt = result] ELSE defi
  BY DEF Mine, tx
<1>4. tx.kind = "approve" => result = "success"
  BY <1>3 DEF Valid
<1>5. OthersRevoke(mempool')
  BY <1>1 DEF OthersRevoke
<1>6. /\ defi'.at = defi.at
      /\ defi'.receipt = IF tx.owner = "defi" THEN result ELSE defi.receipt
  BY <1>3 DEF Typed, Work
<1>7. defi'.at = "approved" => defi'.receipt # "reverted"
  BY <1>2, <1>4, <1>6 DEF Awaited, RevocationPending
<1>8. ASSUME defi'.at \in {"idle", "approve", "bridge", "bridged"}
      PROVE  allowance' = 0 \/ ApprovalIn(mempool')
  <2>1. allowance = 0 \/ ApprovalIn(mempool)
    BY <1>6, <1>8 DEF RevocationPending
  <2>2. CASE tx.kind = "approve"
    <3>1. tx.owner # "defi"
      BY <1>2, <1>6, <1>8, <2>2 DEF Awaited
    <3>2. tx.amount = 0
      BY <1>1, <2>2, <3>1 DEF OthersRevoke
    <3>3. QED BY <1>3, <1>4, <2>2, <3>2 DEF Effect
  <2>3. CASE tx.kind # "approve"
    <3>1. CASE ApprovalIn(mempool)
      <4>1. PICK i \in DOMAIN mempool : mempool[i].kind = "approve"
        BY <3>1 DEF ApprovalIn
      <4>2. i # 1
        BY <1>1, <2>3, <4>1
      <4>3. i - 1 \in DOMAIN mempool' /\ mempool'[i - 1].kind = "approve"
        BY <1>1, <4>1, <4>2
      <4>4. QED BY <4>3 DEF ApprovalIn
    <3>2. CASE allowance = 0
      <4>1. tx.amount \in Nat
        BY <1>1 DEF Txs
      <4>2. allowance' = 0
        BY <1>3, <2>3, <3>2, <4>1 DEF Effect, Valid
      <4>3. QED BY <4>2
    <3>3. QED BY <2>1, <3>1, <3>2
  <2>4. QED BY <2>2, <2>3
<1>9. QED BY <1>5, <1>7, <1>8

\* Waiting ends, or an owner is forgotten that had nothing in flight: the
\* approvals stay whose they are.
LEMMA RevocationForgotten ==
    ASSUME Typed, NEW owners, Forgotten(owners),
           "defi" \notin owners \/ NoneInFlight(mempool, "defi"),
           OthersRevoke(mempool)
    PROVE  OthersRevoke(mempool') /\ (ApprovalIn(mempool) => ApprovalIn(mempool'))
  BY ForgottenBy DEF Typed, OthersRevoke, ApprovalIn, NoneInFlight

\* The process: after an exit in a swap nothing is claimed.
LEMMA RevocationProcess ==
    ASSUME Typed, InFlight, RevocationPending,
           (\E amount \in Amounts : Income(amount)) \/ Boot \/ Shutdown \/ Exit
    PROVE  RevocationPending'
<1>1. CASE \E amount \in Amounts : Income(amount)
  BY <1>1 DEF Income, RevocationPending, Typed
<1>2. CASE Boot
  <2>1. past'.broken = past.broken /\ UNCHANGED <<mempool, defi>>
    BY <1>2 DEF Boot, Typed
  <2>2. allowance' = allowance \/ allowance' = 0
    BY <1>2 DEF Boot
  <2>3. QED BY <2>1, <2>2 DEF RevocationPending
<1>3. CASE Shutdown
  BY <1>3 DEF Shutdown, RevocationPending
<1>4. CASE Exit
  <2> SUFFICES ASSUME ~past'.broken
               PROVE  OthersRevoke(mempool') /\ (allowance' = 0 \/ ApprovalIn(mempool'))
    BY <1>4 DEF Exit, RevocationPending, At
  <2>1. ~past.broken /\ defi.at = "idle"
    BY <1>4 DEF Exit, Typed
  <2>2. OthersRevoke(mempool) /\ (allowance = 0 \/ ApprovalIn(mempool))
    BY <2>1 DEF RevocationPending
  <2>3. NoneInFlight(mempool, "defi")
    BY <2>1, NotWaiting DEF Awaited, Typed, InFlight
  <2>4. QED BY <1>4, <2>2, <2>3, RevocationForgotten DEF Exit
<1>5. QED BY <1>1, <1>2, <1>3, <1>4

\* The polling loop submits no approval and forgets none.
LEMMA RevocationPolling ==
    ASSUME Typed, RevocationPending, Polling \/ PollFails
    PROVE  RevocationPending'
<1>1. UNCHANGED <<allowance, defi>> /\ (~past'.broken => ~past.broken)
  BY DEF Polling, PollLoop, CheckWallet, CheckLockbox, TransferToLockbox, CallProcessRevenue,
         Skip, Confirmed, PollFails, Fault, Typed
<1>2. ASSUME OthersRevoke(mempool)
      PROVE  OthersRevoke(mempool') /\ (ApprovalIn(mempool) => ApprovalIn(mempool'))
  <2>1. CASE TransferToLockbox \/ CallProcessRevenue
    <3>1. PICK kind \in {"transfer", "process"} : Submitted(kind, poll.amount, "poll")
      BY <2>1 DEF TransferToLockbox, CallProcessRevenue
    <3> DEFINE tx == [kind |-> kind, amount |-> poll.amount, owner |-> "poll"]
    <3>2. poll.amount \in Nat
      BY DEF Typed, Work
    <3>3. tx \in Txs /\ tx.kind # "approve" /\ mempool' = Append(mempool, tx)
      BY <3>1, <3>2, SubmittedTyped DEF Submitted
    <3> HIDE DEF tx
    <3>4. QED BY <1>2, <3>3, RevocationAppend DEF Typed
  <2>2. CASE PollFails
    BY <1>2, <2>2, RevocationForgotten DEF PollFails
  <2>3. CASE UNCHANGED mempool
    BY <1>2, <2>3
  <2>4. QED BY <2>1, <2>2, <2>3 DEF Polling, PollLoop, CheckWallet, CheckLockbox, Skip, Confirmed
<1>3. QED BY <1>1, <1>2 DEF RevocationPending

\* The swap: from the approval on it ends in a revocation or an exception.
LEMMA RevocationSwapping ==
    ASSUME Typed, InFlight, RevocationPending,
           \/ \E amount \in Amounts : ExecuteSwap(amount) \/ BridgeUSDT0(amount)
           \/ Swapping \/ SwapFails
    PROVE  RevocationPending'
<1>1. CASE \E amount \in Amounts : ExecuteSwap(amount) \/ BridgeUSDT0(amount)
  BY <1>1 DEF ExecuteSwap, BridgeUSDT0, Begin, RevocationPending, Typed, At
<1>2. CASE Send
  <2>1. PICK kind \in {"approve", "swap", "bridge"} :
          /\ Submitted(kind, defi.amount, "defi") /\ defi'.receipt = "none"
          /\ defi'.at \in {"approved", "swapped", "bridged"}
          /\ defi'.at = "bridged" => defi.at = "bridge"
          /\ [kind |-> kind, amount |-> defi.amount, owner |-> "defi"] \in Txs
    BY <1>2, SendSubmits
  <2> DEFINE tx == [kind |-> kind, amount |-> defi.amount, owner |-> "defi"]
  <2>2. tx \in Txs /\ tx.owner = "defi" /\ mempool' = Append(mempool, tx)
    BY <2>1 DEF Submitted
  <2> HIDE DEF tx
  <2>3. OthersRevoke(mempool) =>
          OthersRevoke(mempool') /\ (ApprovalIn(mempool) => ApprovalIn(mempool'))
    BY <2>2, RevocationAppend DEF Typed
  <2>4. UNCHANGED <<allowance, past>>
    BY <1>2 DEF Send
  <2>5. QED BY <2>1, <2>3, <2>4 DEF RevocationPending
<1>3. CASE Refuse
  <2>1. UNCHANGED <<allowance, mempool>> /\ (~past'.broken => ~past.broken)
    BY <1>3 DEF Refuse, GasTooDear, Fault, Typed
  <2>2. defi'.at \in {"idle", "revoke"} /\ (defi'.at = "idle" => defi.at = "approve")
    BY <1>3 DEF Refuse, At
  <2>3. QED BY <2>1, <2>2 DEF RevocationPending
<1>4. CASE Receipt
  <2>1. UNCHANGED <<allowance, mempool, past>> /\ defi'.at = NextPlace /\ defi'.receipt = "none"
    BY <1>4 DEF Receipt, At
  <2>2. NextPlace \in {"swap", "revoke"} \/ (NextPlace = "idle" /\ defi.at = "bridged")
          \/ (defi.at = "approved" /\ defi.receipt = "reverted")
    BY <1>4 DEF Receipt, NextPlace, InFlight, ReceiptAwaited, Awaited, Typed, Work, DefiPlaces
  <2>3. QED BY <2>1, <2>2 DEF RevocationPending
<1>5. CASE RevokeApproval
  <2> DEFINE tx == [kind |-> "approve", amount |-> 0, owner |-> "nobody"]
  <2>1. tx \in Txs /\ tx.kind = "approve" /\ tx.amount = 0 /\ mempool' = Append(mempool, tx)
    BY <1>5 DEF RevokeApproval, Submitted, Txs
  <2> HIDE DEF tx
  <2>2. OthersRevoke(mempool) => OthersRevoke(mempool') /\ ApprovalIn(mempool')
    BY <2>1, RevocationAppend DEF Typed
  <2>3. QED BY <1>5, <2>2 DEF RevokeApproval, RevocationPending, At
<1>6. CASE SwapFails
  BY <1>6 DEF SwapFails, RevocationPending, Typed
<1>7. QED BY <1>1, <1>2, <1>3, <1>4, <1>5, <1>6 DEF Swapping

-----------------------------------------------------------------------------
(* The theorems. *)

LEMMA WdkInvInit == WdkInit => WdkInv
<1> SUFFICES ASSUME WdkInit PROVE WdkInv
  OBVIOUS
<1>1. Typed
  BY TypedInit
<1>2. DOMAIN mempool = {}
  BY DEF WdkInit
<1>3. /\ OneInFlight(mempool, "poll", poll) /\ OneInFlight(mempool, "defi", defi)
      /\ ReceiptAwaited(poll) /\ ReceiptAwaited(defi)
  BY <1>2, FreshAt DEF WdkInit, OneInFlight
<1>4. DownIsIdle /\ LoopIsAlone
  BY DEF WdkInit, DownIsIdle, LoopIsAlone
<1>5. RevocationPending
  BY <1>2 DEF WdkInit, RevocationPending, OthersRevoke, At
<1>6. QED BY <1>1, <1>3, <1>4, <1>5 DEF WdkInv

LEMMA WdkInvNext == WdkInv /\ [WdkNext]_wdkVars => WdkInv'
<1> SUFFICES ASSUME WdkInv, [WdkNext]_wdkVars PROVE WdkInv'
  OBVIOUS
<1>1. Typed /\ InFlight /\ DownIsIdle /\ LoopIsAlone /\ RevocationPending
  BY DEF WdkInv, InFlight
<1>2. Typed' /\ InFlight' /\ RevocationPending'
  <2>1. CASE Mine
    BY <1>1, <2>1, TypedMine, InFlightMine, RevocationMine DEF InFlight
  <2>2. CASE (\E amount \in Amounts : Income(amount)) \/ Boot \/ Shutdown \/ Exit
    BY <1>1, <2>2, TypedProcess, InFlightProcess, RevocationProcess
  <2>3. CASE Polling \/ PollFails
    BY <1>1, <2>3, TypedPolling, InFlightPolling, RevocationPolling
  <2>4. CASE \/ \E amount \in Amounts : ExecuteSwap(amount) \/ BridgeUSDT0(amount)
             \/ Swapping \/ SwapFails
    BY <1>1, <2>4, TypedSwapping, InFlightSwapping, RevocationSwapping
  <2>5. CASE UNCHANGED wdkVars
    BY <1>1, <2>5 DEF wdkVars, Typed, InFlight, RevocationPending
  <2>6. QED BY <2>1, <2>2, <2>3, <2>4, <2>5 DEF WdkNext
<1>3. DownIsIdle' /\ LoopIsAlone'
  BY <1>1, DownNext, AloneNext
<1>4. QED BY <1>2, <1>3 DEF WdkInv, InFlight

\* Balances stay natural: a block takes from the wallet and the allowance only
\* what is there; and a receipt is only there where one is awaited.
THEOREM WdkTyped == WdkSpec => []WdkTypeOK
<1>1. WdkInv => WdkTypeOK
  <2> SUFFICES ASSUME WdkInv PROVE WdkTypeOK
    OBVIOUS
  <2>1. past.faults \in 0..MaxFaults /\ past.boots \in 0..MaxBoots
    BY DEF WdkInv, Typed
  <2>2. poll.at \in PollPlaces /\ defi.at \in DefiPlaces
    BY DEF WdkInv, Typed, Work
  <2>3. /\ poll.receipt # "none" => poll.at \in {"transferred", "processed"}
        /\ defi.receipt # "none" => defi.at \in {"approved", "swapped", "bridged"}
    BY <2>2 DEF WdkInv, ReceiptAwaited, Awaited, PollPlaces, DefiPlaces
  <2>4. QED BY <2>1, <2>3 DEF WdkInv, Typed, WdkTypeOK
<1>2. QED BY <1>1, WdkInvInit, WdkInvNext, PTL DEF WdkSpec

\* Undisturbed by faults, restarts and swaps, the polling loop never has a
\* transaction that reverts, whatever is paid to wallet and lockbox meanwhile.
THEOREM LoopNeverReverts == WdkSpec => []RevertsNeedARace
<1>1. WdkInv => RevertsNeedARace
  <2> SUFFICES ASSUME WdkInv, poll.receipt = "reverted",
                      ~(past.faults > 0 \/ past.boots > 1 \/ past.swaps > 0)
               PROVE  FALSE
    BY DEF RevertsNeedARace
  <2>1. past.faults \in Nat /\ past.boots \in Nat /\ past.swaps \in Nat
    BY WdkAssumption DEF WdkInv, Typed
  <2>2. Undisturbed
    BY <2>1 DEF Undisturbed
  <2>3. proc.up
    BY DEF WdkInv, DownIsIdle, At
  <2>4. QED BY <2>2, <2>3 DEF WdkInv, LoopIsAlone
<1>2. QED BY <1>1, WdkInvInit, WdkInvNext, PTL DEF WdkSpec

\* Without an exception in a swap, the router is left no allowance once the
\* mempool is empty, whatever reverted.
THEOREM SwapsRevoke == WdkSpec => []AllowanceIsRevoked
<1>1. WdkInv => AllowanceIsRevoked
  BY DEF WdkInv, RevocationPending, ApprovalIn, AllowanceIsRevoked
<1>2. QED BY <1>1, WdkInvInit, WdkInvNext, PTL DEF WdkSpec
=============================================================================
