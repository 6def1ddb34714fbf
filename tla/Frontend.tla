------------------------------ MODULE Frontend ------------------------------
(***************************************************************************)
(* The web app (frontend/src): the pages that have a state, mounted one at *)
(* a time, on one wallet session.  The marketplace lists the agents        *)
(* registered in this session before the ones it comes with; the page of an*)
(* agent takes a deposit, which two timers simulate.                       *)
(*                                                                         *)
(* Timers fire in the order of their kind; how long they run is not        *)
(* modelled.                                                               *)
(***************************************************************************)
EXTENDS Onboarding

CONSTANTS
    Demo,     \* ids of the agents the app comes with, none of them in default
    Texts,    \* what is typed in the search box
    NoText,
    Hits,     \* the forms whose name has the text in it
    Filters,  \* settings of the risk pills and the smart wallet toggle
    NoFilter,
    Keeps     \* the forms and the demo agents a setting lets through

ASSUME FrontendAssumption ==
    /\ Demo \subseteq Nat
    /\ NoText \in Texts /\ None \notin Texts
    /\ Hits \in [Texts -> SUBSET Forms] /\ Hits[NoText] = Forms
    /\ NoFilter \in Filters /\ Keeps \in [Filters -> [forms : SUBSET Forms, demo : SUBSET Demo]]
    /\ Keeps[NoFilter] = [forms |-> Forms, demo |-> Demo]

frontendVars == <<walletVars, onboardingVars>>

Marketplace == [at |-> "agents", input |-> NoText, search |-> NoText, timer |-> None,
                filter |-> NoFilter]
AgentDetail(id) == [at |-> "detail", id |-> id, sheet |-> FALSE,
                    deposit |-> "idle", confirms |-> 0, resets |-> 0]

FrontendInit == WalletInit /\ OnboardingInit /\ page = Marketplace

Clicked == UNCHANGED <<requests, chain, serving, listed, walletVars>>

-----------------------------------------------------------------------------
(* Going from page to page. *)

\* The cards of the marketplace, as it is filtered.
Shown == {i \in DOMAIN listed :
            listed[i].form \in Hits[page.search] \cap Keeps[page.filter].forms}
Cards == {listed[i].id : i \in Shown} \cup
         IF page.search = NoText THEN Keeps[page.filter].demo ELSE {}

Go(to) ==
    /\ page.at # to.at
    /\ page' = to /\ PageLeft
    /\ UNCHANGED <<chain, serving, listed, walletVars>>

\* A card's link.  The page finds the agents the app comes with, no others.
OpenCard == page.at = "agents" /\ \E id \in Cards : Go(AgentDetail(id))

\* A reload mounts the page anew; what was asked of the servers goes on there.
Fresh ==
    CASE page.at = "onboard" -> Onboard
      [] page.at = "agents" -> Marketplace
      [] page.at = "detail" -> AgentDetail(page.id)
Reload ==
    /\ LoadWallet /\ PageUnloaded
    /\ page' = Fresh
    /\ UNCHANGED <<chain, serving>>

-----------------------------------------------------------------------------
(* The marketplace. *)

\* Variant: the timer of the keystroke before is left to run, this one sets none.
TimedFirst(text) == IF page.timer # None THEN page.timer ELSE text
\* The effect's cleanup clears the last timer, a new one has this text.
Timed(text) == text

TypeSearch(text) ==
    /\ page.at = "agents" /\ page.input # text /\ Spend("keys")
    /\ page' = [page EXCEPT !.input = text, !.timer = Timed(text)]
    /\ UNCHANGED <<requests, chain, serving, listed, store, session, op, view, user>>

\* A risk pill or the toggle.  The order of the cards is left out.
PickFilter(filter) ==
    /\ page.at = "agents" /\ page.filter # filter /\ Spend("keys")
    /\ page' = [page EXCEPT !.filter = filter]
    /\ UNCHANGED <<requests, chain, serving, listed, store, session, op, view, user>>

Debounced ==
    /\ page.at = "agents" /\ page.timer # None
    /\ page' = [page EXCEPT !.search = page.timer, !.timer = None]
    /\ Clicked

-----------------------------------------------------------------------------
(* The page of an agent. *)

\* "Agent not found" has nothing but a way back.
Found == page.at = "detail" /\ page.id \in Demo

\* On a phone the panel is a sheet over the page, which its X, its backdrop or a
\* drag closes; a deposit goes on behind it.
SheetShown == Found /\ page.sheet
OpenSheet ==
    /\ Found /\ ~SheetShown /\ Spend("deposits")
    /\ page' = [page EXCEPT !.sheet = TRUE]
    /\ UNCHANGED <<requests, chain, serving, listed, store, session, op, view, user>>
CloseSheet ==
    /\ SheetShown
    /\ page' = [page EXCEPT !.sheet = FALSE]
    /\ Clicked

\* The button, of the panel or of the sheet, is disabled while a deposit is pending.
CanDeposit == Found /\ Connected /\ page.deposit # "pending"

\* handleDeposit, of an amount within the capacity; any other only shows an error.
Deposit ==
    /\ CanDeposit /\ Spend("deposits")
    /\ page' = [page EXCEPT !.deposit = "pending", !.confirms = @ + 1]
    /\ UNCHANGED <<requests, chain, serving, listed, store, session, op, view, user>>

DepositConfirmed ==
    /\ page.at = "detail" /\ page.confirms > 0
    /\ page' = [page EXCEPT !.deposit = "success", !.confirms = @ - 1, !.resets = @ + 1]
    /\ Clicked

\* The second timer, whatever the page shows by then.
DepositReset ==
    /\ page.at = "detail" /\ page.resets > 0
    /\ page' = [page EXCEPT !.deposit = "idle", !.resets = @ - 1]
    /\ Clicked

-----------------------------------------------------------------------------
Wallet(A) == A /\ UNCHANGED onboardingVars

Timers == Debounced \/ DepositConfirmed \/ DepositReset

FrontendNext ==
    \/ Wallet(WalletClicks) \/ Wallet(WalletRequests) \/ Wallet(WalletFailures)
    \/ Reload \/ Go(Onboard) \/ Go(Marketplace) \/ OpenCard
    \/ FormClicks \/ Relaying \/ RelayFails
    \/ \E i \in DOMAIN requests : DeployAnswered(i) \/ DeployRejected(i)
    \/ \E text \in Texts : TypeSearch(text)
    \/ \E filter \in Filters : PickFilter(filter)
    \/ OpenSheet \/ CloseSheet \/ Deposit \/ Timers

\* Requests are answered, by the API and the relay, blocks go on, handlers
\* run.  The user need not do anything.
FrontendSpec ==
    /\ FrontendInit /\ [][FrontendNext]_frontendVars
    /\ WF_frontendVars(Wallet(WalletRequests))
    /\ WF_frontendVars(Relaying) /\ WF_frontendVars(Deploying)

-----------------------------------------------------------------------------
(* Properties. *)

\* The parts', and: the results of the marketplace are those of the text in the
\* box once no timer runs (AgentMarketplace.tsx:97-100), a deposit that is pending
\* has a timer that ends it (AgentDetail.tsx:183-186).
FrontendTypeOK ==
    /\ WalletTypeOK /\ OnboardingTypeOK
    /\ page.at = "agents" =>
         /\ {page.input, page.search} \subseteq Texts /\ page.filter \in Filters
         /\ page.timer = None => page.search = page.input
    /\ page.at = "detail" =>
         /\ page.deposit \in {"idle", "pending", "success"} /\ page.resets \in Nat
         /\ page.deposit = "pending" => page.confirms > 0

\* "Connecting..." and "Registering On-Chain..." end, through errors, lost answers
\* and transactions that stay in the mempool, unless the page is left before
\* (WDKProvider.tsx:85-88, AgentOnboarding.tsx:149-165).
SpinnersStop ==
    /\ session.loading ~> ~session.loading
    /\ OnPage /\ page.deploying ~> ~(OnPage /\ page.deploying)
=============================================================================
