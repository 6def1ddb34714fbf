----------------------------- MODULE Onboarding -----------------------------
(***************************************************************************)
(* Registering an agent from the web app (pages/AgentOnboarding.tsx,       *)
(* hooks/useAgentRegistry.ts, hooks/useNewAgents.ts): a form in three      *)
(* steps, a request to the relay of the wallet service, which sends        *)
(* registerAgent and waits for its receipt, and the list of this session's *)
(* agents the marketplace shows.                                           *)
(*                                                                         *)
(* A page that is left loses its state, not the handlers that run: their   *)
(* setters do nothing any more, the list is still written.                 *)
(***************************************************************************)
EXTENDS WalletSession, Sequences

CONSTANTS
    Forms,       \* complete contents of the form
    Blank        \* one that is not

ASSUME OnboardingAssumption == Blank \notin Forms

VARIABLES
    page,       \* the page mounted and its state
    requests,   \* registrations asked for: by whom, with what, how far they came
    chain,      \* the registry, the relay's transaction in the mempool
    serving,    \* the request the relay is serving, 0 for none
    listed      \* the agents registered in this session

onboardingVars == <<page, requests, chain, serving, listed>>

\* The page as it mounts.
Onboard == [at |-> "onboard", step |-> 1, form |-> Blank,
            deploying |-> FALSE, deployed |-> FALSE, id |-> 0, error |-> FALSE]
OnPage == page.at = "onboard"
\* The last step shows the agent that is live, its Back button gone.
Live == OnPage /\ page.step = 3 /\ page.deployed

Stages == {"sent", "submitted", "mined", "answered", "failed"}

\* A request nobody waits for on either side is forgotten.
Over == [wallet |-> None, form |-> Blank, at |-> "failed", id |-> 0, open |-> FALSE, here |-> FALSE]
Settled(r) == IF ~r.open /\ r.at \in {"answered", "failed"} THEN Over ELSE r
Becomes(i, r) == requests' = [requests EXCEPT ![i] = Settled(r)]

OnboardingInit ==
    /\ requests = <<>> /\ serving = 0 /\ listed = <<>>
    /\ chain = [registered |-> <<>>, pending |-> FALSE, wallet |-> None, form |-> Blank, of |-> 0]

-----------------------------------------------------------------------------
(* The form. *)

Edit(form) ==
    /\ page' = [page EXCEPT !.form = form]
    /\ UNCHANGED <<requests, chain, serving, listed, walletVars>>

\* selectEcosystem, offered with a wallet, of a form whose details are there.
ChooseEcosystem(form) == OnPage /\ page.step = 1 /\ Connected /\ page.form # Blank /\ Edit(form)

\* Token, name, description and category; without them the form is not complete.
EditIdentity(form) == OnPage /\ page.step = 2 /\ Edit(form)

\* Smart wallet, code hash and attestation, which nothing requires.
EditTrust(form) == OnPage /\ page.step = 2 /\ page.form # Blank /\ Edit(form)

CanProceed == (page.step = 1 /\ Connected) \/ (page.step = 2 /\ page.form # Blank)

NextStep ==
    /\ OnPage /\ CanProceed
    /\ page' = [page EXCEPT !.step = @ + 1]
    /\ UNCHANGED <<requests, chain, serving, listed, walletVars>>

\* Also while a registration is on its way, not once it is done.
BackStep ==
    /\ OnPage /\ page.step > 1 /\ ~Live
    /\ page' = [page EXCEPT !.step = @ - 1]
    /\ UNCHANGED <<requests, chain, serving, listed, walletVars>>

\* The review, with its button enabled.
CanDeploy == OnPage /\ page.step = 3 /\ ~Live /\ ~page.deploying

\* handleDeploy up to its await: nothing happens without a wallet, which nobody
\* looked at again since the first step.  (The panel of a pending backup covers
\* the page.)
Deploy ==
    /\ CanDeploy /\ Connected /\ Spend("deploys")
    /\ requests' = Append(requests,
         [wallet |-> session.wallet, form |-> page.form, at |-> "sent", id |-> 0,
          open |-> TRUE, here |-> TRUE])
    /\ page' = [page EXCEPT !.deploying = TRUE, !.error = FALSE, !.id = 0]
    /\ UNCHANGED <<chain, serving, listed, store, session, op, view, user>>

DismissError ==
    /\ OnPage /\ page.step = 3 /\ ~Live /\ page.error
    /\ page' = [page EXCEPT !.error = FALSE]
    /\ UNCHANGED <<requests, chain, serving, listed, walletVars>>

-----------------------------------------------------------------------------
(* The relay serves one request at a time: its handler never awaits. *)

At(i, stage) == Becomes(i, [requests[i] EXCEPT !.at = stage])

\* registerAgent is signed with the nonce of the last block, so that a transaction
\* still in the mempool is replaced or the new one refused.
RelaySubmits(i) ==
    /\ serving = 0 /\ requests[i].at = "sent"
    /\ \/ /\ chain' = [chain EXCEPT !.pending = TRUE, !.of = i,
                         !.wallet = requests[i].wallet, !.form = requests[i].form]
          /\ At(i, "submitted") /\ serving' = i
       \/ /\ chain.pending
          /\ At(i, "failed") /\ UNCHANGED <<chain, serving>>
    /\ UNCHANGED <<page, listed, walletVars>>

Registered(wallet) == \E i \in DOMAIN chain.registered : chain.registered[i].wallet = wallet

\* The transaction's block.  A wallet is registered once; the deployment of its
\* vault may revert all of it, here with a fault.
MineRegistration ==
    /\ chain.pending
    /\ LET minted == Append(chain.registered, [wallet |-> chain.wallet, form |-> chain.form])
           result == IF Registered(chain.wallet) THEN {chain.registered}
                     ELSE {minted} \cup IF budget.faults > 0 THEN {chain.registered} ELSE {}
       IN \E registered \in result :
            LET id == IF registered = minted THEN Len(minted) ELSE 0 IN
            /\ chain' = [chain EXCEPT !.registered = registered, !.pending = FALSE,
                                      !.of = 0, !.wallet = None, !.form = Blank]
            /\ requests' = IF chain.of = 0 THEN requests
                           ELSE [requests EXCEPT ![chain.of].id = id, ![chain.of].at = "mined"]
            /\ IF id = 0 /\ ~Registered(chain.wallet) THEN Fault ELSE UNCHANGED budget
    /\ UNCHANGED <<page, serving, listed, store, session, op, view, user>>

\* The receipt is answered, reverted or not: an id that is missing tells.
RelayAnswers ==
    /\ serving # 0 /\ requests[serving].at = "mined"
    /\ At(serving, "answered") /\ serving' = 0
    /\ UNCHANGED <<page, chain, listed, walletVars>>

\* The node refuses, or 120 seconds pass without a receipt: an error is answered,
\* the transaction is still in the mempool.
RelayFails ==
    /\ serving # 0 /\ requests[serving].at = "submitted" /\ Fault
    /\ At(serving, "failed") /\ serving' = 0
    /\ chain' = [chain EXCEPT !.of = 0]
    /\ UNCHANGED <<page, listed, store, session, op, view, user>>

-----------------------------------------------------------------------------
(* The handler goes on, on its page or after it was left. *)

\* Variant: the entry is made from the form as it is when the answer comes.
EntryOfNow(r) ==
    [id |-> r.id, wallet |-> r.wallet, form |-> IF OnPage THEN page.form ELSE r.form]
\* addNewAgent's argument: what the closure of the click holds.
Entry(r) == [id |-> r.id, wallet |-> r.wallet, form |-> r.form]

\* Variant: no finally.
WithErrorOnly == [page EXCEPT !.error = TRUE]
\* The catch and the finally.
WithError == [page EXCEPT !.error = TRUE, !.deploying = FALSE]

Closed(i) == Becomes(i, [requests[i] EXCEPT !.open = FALSE])

\* An answer without error is a success, with an id or without.
DeployAnswered(i) ==
    /\ requests[i].open /\ requests[i].at = "answered"
    /\ Closed(i)
    /\ page' = IF requests[i].here
               THEN [page EXCEPT !.deployed = TRUE, !.deploying = FALSE, !.id = requests[i].id]
               ELSE page
    /\ listed' = IF requests[i].id # 0 THEN Append(listed, Entry(requests[i])) ELSE listed
    /\ UNCHANGED <<chain, serving, walletVars>>

DeployRejected(i) ==
    /\ requests[i].open
    /\ IF requests[i].at = "failed" THEN UNCHANGED budget ELSE Fault
    /\ Closed(i)
    /\ page' = IF requests[i].here THEN WithError ELSE page
    /\ UNCHANGED <<chain, serving, listed, store, session, op, view, user>>

\* Pages are left and mounted; a reload also ends every handler and the list.
PageLeft == requests' = [i \in DOMAIN requests |-> [requests[i] EXCEPT !.here = FALSE]]
PageUnloaded ==
    /\ requests' = [i \in DOMAIN requests |->
         Settled([requests[i] EXCEPT !.here = FALSE, !.open = FALSE])]
    /\ listed' = <<>>

-----------------------------------------------------------------------------
FormClicks ==
    \/ \E form \in Forms : ChooseEcosystem(form) \/ EditIdentity(form) \/ EditTrust(form)
    \/ NextStep \/ BackStep \/ Deploy \/ DismissError

Relaying ==
    \/ \E i \in DOMAIN requests : RelaySubmits(i)
    \/ MineRegistration \/ RelayAnswers

Deploying == \E i \in DOMAIN requests :
    DeployAnswered(i) \/ (requests[i].at = "failed" /\ DeployRejected(i))

-----------------------------------------------------------------------------
(* Properties. *)

\* The page of the form shows one registration at a time, of its own mount; a
\* request that is served is the one the relay's transaction is for.
OnboardingTypeOK ==
    /\ OnPage => page.step \in 1..3 /\ page.id \in 0..Len(chain.registered)
    /\ \A i \in DOMAIN requests :
         /\ requests[i].at \in Stages
         /\ requests[i].open /\ requests[i].here => OnPage /\ page.deploying
         /\ requests[i].at \in {"submitted", "mined"} => serving = i
    /\ chain.of # 0 => chain.pending /\ serving = chain.of

\* Each agent listed is registered on chain under its id, by the wallet and with
\* the form of the click, and listed once: through edits of the form while the
\* relay works, pages left, wallets changed, requests repeated after an error and
\* transactions replaced (AgentOnboarding.tsx:121-148).
ListedAsRegistered ==
    \A i \in DOMAIN listed :
        /\ listed[i].id \in DOMAIN chain.registered
        /\ chain.registered[listed[i].id] = [wallet |-> listed[i].wallet, form |-> listed[i].form]
        /\ \A j \in DOMAIN listed : listed[j].id = listed[i].id => j = i
=============================================================================
