--------------------------- MODULE WalletSession ---------------------------
(***************************************************************************)
(* The wallet of the web app (frontend/src/lib/wdk.ts, WDKProvider.tsx,    *)
(* WDKWalletButton.tsx): a seed phrase in localStorage, the session React  *)
(* keeps of it, and requests to the WDK API, which holds nothing.  A seed  *)
(* stands for the wallet derived from it.                                  *)
(*                                                                         *)
(* One tab.  Of the wallet buttons on a page one is modelled; it is shown  *)
(* while no wallet is, so its Connected view and its refresh are never     *)
(* seen, and connecting unmounts it.  Answers come at any time; an answer  *)
(* that is an error or none is a fault of the budget.                      *)
(***************************************************************************)
EXTENDS Naturals

CONSTANTS
    Seeds,      \* the seed phrases there are
    Brought,    \* those the user has when first coming to the app
    None,
    Budgets     \* bounds, one of which is chosen: reloads, faults, wallets created
                \* or restored, registrations, keystrokes, deposits

ASSUME WalletAssumption ==
    /\ Brought \subseteq Seeds /\ None \notin Seeds
    /\ Budgets \subseteq [{"loads", "faults", "wallets", "deploys", "keys", "deposits"} -> Nat]

VARIABLES
    store,     \* the seed in localStorage
    session,   \* the provider's state: the wallet, whose backup may be pending, ...
    op,        \* the operation in progress: its kind, the request it awaits, its seed
    view,      \* the panel of the wallet button
    user,      \* seeds the user has written down, seeds that were drawn
    budget     \* what is left of it

walletVars == <<store, session, op, view, user, budget>>

NoOp == [kind |-> "none", at |-> "request", seed |-> None]
Operation(kind, seed) == [kind |-> kind, at |-> "request", seed |-> seed]

\* The provider as it mounts.
Mounted(loading) ==
    [wallet |-> None, backup |-> FALSE, loading |-> loading, account |-> None, error |-> FALSE]

Connected == session.wallet # None /\ ~session.backup
ButtonShown == session.wallet = None /\ ~session.loading

\* The panels that wait for the user: the phrase of a new wallet, a phrase to enter.
BackupPanel == session.wallet # None /\ session.backup
Restorable == ButtonShown /\ view = "restoring" /\ ~session.error

WalletInit ==
    /\ store = None /\ session = Mounted(FALSE) /\ op = NoOp /\ view = "idle"
    /\ user = [saved |-> Brought, drawn |-> Brought]
    /\ budget \in Budgets

Spend(what) == budget[what] > 0 /\ budget' = [budget EXCEPT ![what] = @ - 1]
Fault == Spend("faults")

-----------------------------------------------------------------------------
(* Loading the page. *)

\* The mount of the provider: autoRestore begins if a seed is stored.
LoadWallet ==
    /\ Spend("loads")
    /\ session' = Mounted(store # None)
    /\ op' = IF store # None THEN Operation("auto", store) ELSE NoOp
    /\ view' = "idle"
    /\ UNCHANGED <<store, user>>

\* tryAutoRestore: any failure of the request forgets the seed.
AutoRestoreFails ==
    /\ op.kind = "auto" /\ op.at = "request" /\ Fault
    /\ store' = None
    /\ session' = [session EXCEPT !.loading = FALSE]
    /\ op' = NoOp
    /\ UNCHANGED <<view, user>>

-----------------------------------------------------------------------------
(* The wallet button's panels. *)

Show(panel) ==
    /\ ButtonShown
    /\ view' = panel
    /\ UNCHANGED <<store, op, user, budget>>

OpenPanel == view = "idle" /\ ~session.error /\ Show("choose") /\ UNCHANGED session
ChooseRestore == view = "choose" /\ ~session.error /\ Show("restoring") /\ UNCHANGED session
BackToChoice == Restorable /\ Show("choose") /\ UNCHANGED session

\* The arrow of the first panel; the backdrop, which creating disables.
ClosePanel ==
    /\ view # "creating" /\ (view # "idle" \/ session.error)
    /\ Show("idle")
    /\ session' = [session EXCEPT !.error = FALSE]

TryAgain ==
    /\ session.error /\ Show("choose")
    /\ session' = [session EXCEPT !.error = FALSE]

-----------------------------------------------------------------------------
(* Creating and restoring. *)

\* handleCreate and createWallet, which returns at once while an operation is in
\* progress: then nothing is created and nobody told.
CreateWallet ==
    /\ ButtonShown /\ view = "choose" /\ ~session.error
    /\ IF op.kind # "none" THEN op' = op /\ view' = "idle" /\ UNCHANGED budget
       ELSE /\ op' = Operation("create", None) /\ view' = "creating"
            /\ user.drawn # Seeds /\ Spend("wallets")
    /\ UNCHANGED <<store, session, user>>

\* handleRestore and restoreWallet, the same; its panel stays.
RestoreWallet(seed) ==
    /\ Restorable
    /\ IF op.kind # "none" THEN op' = op /\ view' = "idle" /\ UNCHANGED budget
       ELSE op' = Operation("restore", seed) /\ view' = view /\ Spend("wallets")
    /\ UNCHANGED <<store, session, user>>

\* The API's answer: the seed is stored, the wallet shown, a backup asked for if
\* the seed is new, and the balances of the stored seed requested.
WalletAnswered ==
    /\ op.kind # "none" /\ op.at = "request"
    /\ \E seed \in IF op.kind = "create" THEN Seeds \ user.drawn ELSE {op.seed} :
         /\ store' = seed
         /\ session' = [session EXCEPT !.wallet = seed, !.backup = op.kind = "create"]
         /\ op' = [op EXCEPT !.at = "balance", !.seed = seed]
         /\ user' = [user EXCEPT !.drawn = @ \cup {seed}]
    /\ view' = IF op.kind = "create" THEN view ELSE "idle"
    /\ UNCHANGED budget

\* Variant: the panel stays where it is.
PanelStays == view
\* What a failed operation leaves of the panel.
PanelAfterError == "idle"

OperationFails ==
    /\ op.kind \in {"create", "restore"} /\ op.at = "request" /\ Fault
    /\ session' = [session EXCEPT !.error = TRUE]
    /\ op' = NoOp /\ view' = PanelAfterError
    /\ UNCHANGED <<store, user>>

\* The balances, which end the operation whether they come or not.  The wallet
\* may have been disconnected meanwhile.
BalanceAnswered(account) ==
    /\ op.at = "balance"
    /\ session' = [session EXCEPT !.account = account, !.loading = FALSE]
    /\ op' = NoOp
    /\ view' = IF op.kind = "create" /\ session.backup THEN "idle" ELSE view
    /\ UNCHANGED <<store, user>>

GotBalance == BalanceAnswered(op.seed) /\ UNCHANGED budget
BalanceFails == BalanceAnswered(session.account) /\ Fault

-----------------------------------------------------------------------------
(* The connected wallet. *)

\* handleConfirmBackup: the user has saved the phrase.
ConfirmBackup ==
    /\ BackupPanel
    /\ session' = [session EXCEPT !.backup = FALSE]
    /\ user' = [user EXCEPT !.saved = @ \cup {session.wallet}]
    /\ view' = "idle"
    /\ UNCHANGED <<store, op, budget>>

\* Variant: the seed is left in localStorage.
StoreKept == store
\* clearStoredSeedPhrase
StoreCleared == None

\* disconnect, from the header, also while balances are awaited.
Disconnect ==
    /\ Connected
    /\ store' = StoreCleared
    /\ session' = Mounted(session.loading)
    /\ view' = "idle"
    /\ UNCHANGED <<op, user, budget>>

-----------------------------------------------------------------------------
WalletRequests == WalletAnswered \/ GotBalance
WalletFailures == AutoRestoreFails \/ OperationFails \/ BalanceFails
WalletClicks ==
    \/ OpenPanel \/ ChooseRestore \/ BackToChoice \/ ClosePanel \/ TryAgain
    \/ CreateWallet \/ ConfirmBackup \/ Disconnect
    \/ \E seed \in user.saved : RestoreWallet(seed)

-----------------------------------------------------------------------------
(* Properties. *)

\* A backup is pending of a wallet only, the creating panel (which cannot be
\* closed) is shown while a wallet is being created only, a wallet's API answer
\* is awaited only where one was asked for.
WalletTypeOK ==
    /\ store \in Seeds \cup {None}
    /\ session \in [wallet : Seeds \cup {None}, backup : BOOLEAN, loading : BOOLEAN,
                    account : Seeds \cup {None}, error : BOOLEAN]
    /\ op \in [kind : {"none", "auto", "create", "restore"}, at : {"request", "balance"},
               seed : Seeds \cup {None}]
    /\ session.backup => session.wallet # None
    /\ session.loading <=> op.kind = "auto"
    /\ view \in {"idle", "choose", "creating", "restoring"}
    /\ view = "creating" => op.kind = "create"

\* The seed in localStorage is that of the wallet shown, once autoRestore has its
\* answer: balances, which are asked for with the stored seed, are the wallet's,
\* and a reload returns to it (wdk.ts:90-100, WDKProvider.tsx:148-155).  Creating,
\* restoring and disconnecting overlap with answers that are still due.
StoreMirrorsWallet ==
    store = session.wallet \/ (op.kind = "auto" /\ op.at = "request")
=============================================================================
