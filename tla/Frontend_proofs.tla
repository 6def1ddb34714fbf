-------------------------- MODULE Frontend_proofs --------------------------
(***************************************************************************)
(* Proofs about the web app, for every set of seeds, forms, texts, filters *)
(* and demo agents, and for budgets of any size: the type invariant, the   *)
(* seed in localStorage, the list of this session's agents.                *)
(*                                                                         *)
(* The inductive invariant has three parts, each closed under the steps    *)
(* that touch its variables: the wallet's, the requests' and the page's.   *)
(***************************************************************************)
EXTENDS Frontend, TLAPS

-----------------------------------------------------------------------------
(* The wallet. *)

\* What the user knows are seeds.
UserOK == user \in [saved : SUBSET Seeds, drawn : SUBSET Seeds]

\* The panel of a wallet being created outlives the API's answer only while the
\* phrase is to be backed up: the balances' answer then closes it.
CreatingAwaitsBackup == view = "creating" /\ op.at = "balance" => session.backup

\* No wallet is shown while autoRestore waits, so that nobody can disconnect it.
RestoringShowsNone == op.kind = "auto" /\ op.at = "request" => session.wallet = None

\* A wallet is restored from a seed.
RestoredFromSeed == op.kind \in {"auto", "restore"} => op.seed \in Seeds

WalletInv ==
    /\ WalletTypeOK /\ UserOK /\ RestoredFromSeed
    /\ CreatingAwaitsBackup /\ RestoringShowsNone /\ StoreMirrorsWallet

seenVars == <<store, session, op, view, user>>

\* The app starts with the wallet's invariant.
LEMMA WalletInvInit == WalletInit => WalletInv
  BY WalletAssumption
     DEF WalletInit, WalletInv, WalletTypeOK, UserOK, RestoredFromSeed, CreatingAwaitsBackup,
         RestoringShowsNone, StoreMirrorsWallet, Mounted, NoOp

\* Steps that leave the wallet alone leave its invariant.
LEMMA WalletInvKept == WalletInv /\ UNCHANGED seenVars => WalletInv'
  BY DEF WalletInv, seenVars, WalletTypeOK, UserOK, RestoredFromSeed, CreatingAwaitsBackup,
         RestoringShowsNone, StoreMirrorsWallet

\* A reload: a stored seed is restored, none is shown until then.
LEMMA WalletInvLoad == WalletInv /\ LoadWallet => WalletInv'
<1> SUFFICES ASSUME WalletInv, LoadWallet PROVE WalletInv'
    OBVIOUS
<1> USE WalletAssumption
    DEF Mounted, Operation, NoOp, WalletInv, WalletTypeOK, UserOK, RestoredFromSeed,
        CreatingAwaitsBackup, RestoringShowsNone, StoreMirrorsWallet
<1>1. CASE store = None
  <2>1. session' = Mounted(FALSE) /\ op' = NoOp
        BY <1>1 DEF LoadWallet
  <2> QED
        BY <1>1, <2>1 DEF LoadWallet
<1>2. CASE store # None
  <2>1. session' = Mounted(TRUE) /\ op' = Operation("auto", store)
        BY <1>2 DEF LoadWallet
  <2> QED
        BY <1>2, <2>1 DEF LoadWallet
<1> QED
    BY <1>1, <1>2

\* The clicks on the wallet button and its panels, and on Disconnect.
LEMMA WalletInvClicks == WalletInv /\ WalletClicks => WalletInv'
<1> SUFFICES ASSUME WalletInv, WalletClicks PROVE WalletInv'
    OBVIOUS
<1> USE WalletAssumption
    DEF WalletInv, WalletTypeOK, UserOK, RestoredFromSeed, CreatingAwaitsBackup,
        RestoringShowsNone, StoreMirrorsWallet
<1>1. CASE OpenPanel
      BY <1>1 DEF OpenPanel, Show
<1>2. CASE ChooseRestore
      BY <1>2 DEF ChooseRestore, Show
<1>3. CASE BackToChoice
      BY <1>3 DEF BackToChoice, Show
<1>4. CASE ClosePanel
      BY <1>4 DEF ClosePanel, Show
<1>5. CASE TryAgain
      BY <1>5 DEF TryAgain, Show
<1>6. CASE CreateWallet
      BY <1>6 DEF CreateWallet, Operation, ButtonShown
<1>7. CASE ConfirmBackup
      BY <1>7 DEF ConfirmBackup, BackupPanel
<1>8. CASE Disconnect
      BY <1>8 DEF Disconnect, StoreCleared, Mounted, Connected
<1>9. ASSUME NEW seed \in user.saved, RestoreWallet(seed) PROVE WalletInv'
      BY <1>9 DEF RestoreWallet, Restorable, ButtonShown, Operation
<1> QED
    BY <1>1, <1>2, <1>3, <1>4, <1>5, <1>6, <1>7, <1>8, <1>9 DEF WalletClicks

\* The answers of the API, errors included.
LEMMA WalletInvAnswers == WalletInv /\ (WalletRequests \/ WalletFailures) => WalletInv'
<1> SUFFICES ASSUME WalletInv, WalletRequests \/ WalletFailures PROVE WalletInv'
    OBVIOUS
<1> USE WalletAssumption
    DEF WalletInv, WalletTypeOK, UserOK, RestoredFromSeed, CreatingAwaitsBackup,
        RestoringShowsNone, StoreMirrorsWallet
<1>1. CASE WalletAnswered
  <2>1. PICK seed \in IF op.kind = "create" THEN Seeds \ user.drawn ELSE {op.seed} :
          /\ store' = seed
          /\ session' = [session EXCEPT !.wallet = seed, !.backup = op.kind = "create"]
          /\ op' = [op EXCEPT !.at = "balance", !.seed = seed]
          /\ user' = [user EXCEPT !.drawn = @ \cup {seed}]
        BY <1>1 DEF WalletAnswered
  <2>2. seed \in Seeds /\ op.kind \in {"auto", "create", "restore"}
        BY <1>1, <2>1 DEF WalletAnswered
  <2>3. CASE op.kind = "create"
    <3>1. session' = [session EXCEPT !.wallet = seed, !.backup = TRUE]
          BY <2>1, <2>3
    <3>2. /\ session'.wallet = seed /\ session'.backup /\ ~session'.loading
          /\ op'.kind = "create" /\ op'.at = "balance" /\ op'.seed = seed
          BY <2>1, <2>3, <2>2, <3>1
    <3>3. WalletTypeOK'
          BY <1>1, <2>1, <2>3, <2>2, <3>1, <3>2 DEF WalletAnswered
    <3> QED
          BY <2>1, <2>2, <3>2, <3>3
  <2>4. CASE op.kind # "create"
    <3>1. session' = [session EXCEPT !.wallet = seed, !.backup = FALSE]
          BY <2>1, <2>4
    <3> QED
          BY <1>1, <2>1, <2>4, <2>2, <3>1 DEF WalletAnswered
  <2> QED
        BY <2>3, <2>4
<1>2. ASSUME NEW account \in Seeds \cup {None}, BalanceAnswered(account) PROVE WalletInv'
      BY <1>2 DEF BalanceAnswered, NoOp
<1>3. CASE GotBalance
      BY <1>2, <1>3 DEF GotBalance
<1>4. CASE BalanceFails
      BY <1>2, <1>4 DEF BalanceFails
<1>5. CASE AutoRestoreFails
      BY <1>5 DEF AutoRestoreFails, NoOp
<1>6. CASE OperationFails
      BY <1>6 DEF OperationFails, NoOp, PanelAfterError
<1> QED
    BY <1>1, <1>3, <1>4, <1>5, <1>6 DEF WalletRequests, WalletFailures

-----------------------------------------------------------------------------
(* The requests, the relay and the list. *)

Wallets == Seeds \cup {None}
Contents == Forms \cup {Blank}
Requests == [wallet : Wallets, form : Contents, at : Stages, id : Nat,
             open : BOOLEAN, here : BOOLEAN]

RequestsTyped ==
    /\ requests \in Seq(Requests) /\ serving \in Nat
    /\ chain \in [registered : Seq([wallet : Wallets, form : Contents]), pending : BOOLEAN,
                  wallet : Wallets, form : Contents, of : Nat]
    /\ listed \in Seq([id : Nat, wallet : Wallets, form : Contents])

\* The relay serves one request; the transaction it waits for carries its data.
RelayOK ==
    /\ \A i \in DOMAIN requests : requests[i].at \in {"submitted", "mined"} => serving = i
    /\ serving # 0 => serving \in DOMAIN requests
    /\ chain.of # 0 =>
         /\ chain.pending /\ serving = chain.of
         /\ requests[chain.of].at = "submitted"
         /\ requests[chain.of].wallet = chain.wallet /\ requests[chain.of].form = chain.form

\* An id is given to one request by a block, and is that of its registration; it is
\* not in the list yet, since the handler that lists it forgets the request.
IdsOK ==
    \A i \in DOMAIN requests : requests[i].id # 0 =>
        /\ requests[i].at \in {"mined", "answered"}
        /\ requests[i].id \in DOMAIN chain.registered
        /\ chain.registered[requests[i].id]
             = [wallet |-> requests[i].wallet, form |-> requests[i].form]
        /\ \A j \in DOMAIN requests : requests[j].id = requests[i].id => j = i
        /\ \A k \in DOMAIN listed : listed[k].id # requests[i].id

ListInv == RequestsTyped /\ RelayOK /\ IdsOK /\ ListedAsRegistered

\* A request that is forgotten is still a request.
LEMMA SettledType ==
    ASSUME NEW r \in Requests
    PROVE  Settled(r) \in Requests /\ Settled(r) \in {r, Over}
  BY DEF Settled, Over, Requests, Wallets, Contents, Stages

\* What Becomes does to the sequence.
LEMMA BecomesType ==
    ASSUME requests \in Seq(Requests), NEW i \in DOMAIN requests, NEW r \in Requests,
           Becomes(i, r)
    PROVE  /\ requests' \in Seq(Requests) /\ DOMAIN requests' = DOMAIN requests
           /\ requests'[i] = Settled(r)
           /\ \A j \in DOMAIN requests : j # i => requests'[j] = requests[j]
  <1>1. Settled(r) \in Requests
        BY SettledType
  <1> QED
      BY <1>1 DEF Becomes

\* The changes made to requests keep what was asked for, and the id.
LEMMA ShutType ==
    ASSUME NEW r \in Requests, NEW q,
           q \in {[r EXCEPT !.here = FALSE], [r EXCEPT !.open = FALSE],
                 [r EXCEPT !.here = FALSE, !.open = FALSE]}
    PROVE  /\ q \in Requests /\ q.id = r.id /\ q.at = r.at
           /\ q.wallet = r.wallet /\ q.form = r.form
  BY DEF Requests

\* The same of a stage that changes.
LEMMA StagedType ==
    ASSUME NEW r \in Requests, NEW at \in Stages
    PROVE  LET q == [r EXCEPT !.at = at] IN
           /\ q \in Requests /\ q.id = r.id /\ q.at = at
           /\ q.wallet = r.wallet /\ q.form = r.form
  BY DEF Requests

\* Steps that register nothing and list nothing: ids are kept or forgotten.
LEMMA IdsKept ==
    ASSUME ListInv, RequestsTyped', DOMAIN requests' = DOMAIN requests,
           chain'.registered = chain.registered, listed' \in {listed, <<>>},
           \A i \in DOMAIN requests : requests'[i].id # 0 =>
               /\ requests'[i].id = requests[i].id
               /\ requests'[i].at \in {"mined", "answered"}
               /\ requests'[i].wallet = requests[i].wallet
               /\ requests'[i].form = requests[i].form
    PROVE  IdsOK' /\ ListedAsRegistered'
<1>1. ASSUME NEW i \in DOMAIN requests, requests'[i].id # 0
      PROVE  /\ requests'[i].at \in {"mined", "answered"}
             /\ requests'[i].id \in DOMAIN chain'.registered
             /\ chain'.registered[requests'[i].id]
                  = [wallet |-> requests'[i].wallet, form |-> requests'[i].form]
             /\ \A j \in DOMAIN requests : requests'[j].id = requests'[i].id => j = i
             /\ \A k \in DOMAIN listed : listed[k].id # requests'[i].id
      BY <1>1 DEF ListInv, IdsOK
<1>2. CASE listed' = listed
  <2>1. ListedAsRegistered'
        BY <1>2 DEF ListInv, ListedAsRegistered
  <2> QED
        BY <1>1, <1>2, <2>1 DEF IdsOK
<1>3. CASE listed' = <<>>
  <2>1. DOMAIN listed' = {}
        BY <1>3
  <2>2. ListedAsRegistered'
        BY <2>1 DEF ListedAsRegistered
  <2> QED
        BY <1>1, <2>1, <2>2 DEF IdsOK
<1> QED
    BY <1>2, <1>3

\* At the start nothing is asked for, registered or listed.
LEMMA ListInvInit == OnboardingInit => ListInv
  BY DEF OnboardingInit, ListInv, RequestsTyped, RelayOK, IdsOK, ListedAsRegistered,
         Wallets, Contents

\* Steps that touch neither requests nor chain nor list.
LEMMA ListInvKept == ListInv /\ UNCHANGED <<requests, chain, serving, listed>> => ListInv'
  BY DEF ListInv, RequestsTyped, RelayOK, IdsOK, ListedAsRegistered

\* Leaving a page: requests keep all but the page they were made on.
LEMMA ListInvLeft ==
    ListInv /\ PageLeft /\ UNCHANGED <<chain, serving, listed>> => ListInv'
<1> SUFFICES ASSUME ListInv, PageLeft, UNCHANGED <<chain, serving, listed>> PROVE ListInv'
    OBVIOUS
<1>1. /\ requests' \in Seq(Requests) /\ DOMAIN requests' = DOMAIN requests
      /\ \A i \in DOMAIN requests : requests'[i] = [requests[i] EXCEPT !.here = FALSE]
  <2>1. \A i \in DOMAIN requests : [requests[i] EXCEPT !.here = FALSE] \in Requests
    <3>1. \A i \in DOMAIN requests : requests[i] \in Requests
          BY DEF ListInv, RequestsTyped
    <3> QED
          BY <3>1, ShutType
  <2>2. DOMAIN requests = 1..Len(requests) /\ Len(requests) \in Nat
        BY DEF ListInv, RequestsTyped
  <2>3. requests' \in [1..Len(requests) -> Requests]
        BY <2>1, <2>2 DEF PageLeft
  <2> QED
        BY <2>2, <2>3 DEF PageLeft
<1>2. \A i \in DOMAIN requests :
         /\ requests'[i].id = requests[i].id /\ requests'[i].at = requests[i].at
         /\ requests'[i].wallet = requests[i].wallet /\ requests'[i].form = requests[i].form
  <2>1. \A i \in DOMAIN requests : requests[i] \in Requests
        BY DEF ListInv, RequestsTyped
  <2>2. \A r \in Requests :
           /\ [r EXCEPT !.here = FALSE].id = r.id /\ [r EXCEPT !.here = FALSE].at = r.at
           /\ [r EXCEPT !.here = FALSE].wallet = r.wallet
           /\ [r EXCEPT !.here = FALSE].form = r.form
        BY ShutType
  <2> QED
        BY <1>1, <2>1, <2>2
<1>3. RequestsTyped'
      BY <1>1 DEF ListInv, RequestsTyped
<1>4. IdsOK' /\ ListedAsRegistered'
      BY <1>1, <1>2, <1>3, IdsKept DEF ListInv, IdsOK
<1>5. RelayOK'
      BY <1>1, <1>2 DEF ListInv, RelayOK
<1> QED
    BY <1>3, <1>4, <1>5 DEF ListInv

\* A reload: every handler ends, requests nobody serves are forgotten.
LEMMA ListInvUnloaded ==
    ListInv /\ PageUnloaded /\ UNCHANGED <<chain, serving>> => ListInv'
<1> SUFFICES ASSUME ListInv, PageUnloaded, UNCHANGED <<chain, serving>> PROVE ListInv'
    OBVIOUS
<1> DEFINE shut(i) == [requests[i] EXCEPT !.here = FALSE, !.open = FALSE]
<1>1. \A i \in DOMAIN requests :
         /\ shut(i) \in Requests
         /\ shut(i).id = requests[i].id /\ shut(i).at = requests[i].at
         /\ shut(i).wallet = requests[i].wallet /\ shut(i).form = requests[i].form
  <2>1. \A i \in DOMAIN requests : requests[i] \in Requests
        BY DEF ListInv, RequestsTyped
  <2> QED
        BY <2>1, ShutType
<1>2. /\ requests' = [i \in DOMAIN requests |-> Settled(shut(i))]
      /\ listed' = <<>>
      BY DEF PageUnloaded
<1>3. \A i \in DOMAIN requests :
        Settled(shut(i)) \in Requests /\ Settled(shut(i)) \in {shut(i), Over}
      BY <1>1, SettledType
<1>4. \A i \in DOMAIN requests :
         requests[i].at \in {"submitted", "mined"} => Settled(shut(i)) = shut(i)
      BY <1>1 DEF Settled
<1> HIDE DEF shut
<1>5. /\ requests' \in Seq(Requests) /\ DOMAIN requests' = DOMAIN requests
      /\ \A i \in DOMAIN requests : requests'[i] \in {shut(i), Over}
  <2>1. DOMAIN requests = 1..Len(requests) /\ Len(requests) \in Nat
        BY DEF ListInv, RequestsTyped
  <2>2. requests' \in [1..Len(requests) -> Requests]
        BY <1>2, <1>3, <2>1
  <2> QED
        BY <1>2, <1>3, <2>1, <2>2
<1>6. RequestsTyped'
      BY <1>2, <1>5 DEF ListInv, RequestsTyped
<1>7. IdsOK' /\ ListedAsRegistered'
  <2>1. \A i \in DOMAIN requests : requests'[i].id # 0 => requests'[i] = shut(i)
        BY <1>5 DEF Over
  <2>2. \A i \in DOMAIN requests : requests[i].id # 0 => requests[i].at \in {"mined", "answered"}
        BY DEF ListInv, IdsOK
  <2>3. \A i \in DOMAIN requests : requests'[i].id # 0 =>
           /\ requests'[i].id = requests[i].id
           /\ requests'[i].at \in {"mined", "answered"}
           /\ requests'[i].wallet = requests[i].wallet
           /\ requests'[i].form = requests[i].form
        BY <1>1, <2>1, <2>2
  <2>4. /\ DOMAIN requests' = DOMAIN requests /\ listed' \in {listed, <<>>}
        /\ chain'.registered = chain.registered
        BY <1>2, <1>5
  <2> QED
        BY <1>6, <2>3, <2>4, IdsKept
<1>8. RelayOK'
  <2>1. \A i \in DOMAIN requests :
          /\ requests'[i].at \in {"submitted", "mined"} => requests'[i].at = requests[i].at
          /\ requests[i].at \in {"submitted", "mined"} => requests'[i] = shut(i)
        BY <1>1, <1>2, <1>5, <1>4 DEF Over
  <2> QED
        BY <1>1, <1>5, <2>1 DEF ListInv, RelayOK
<1> QED
    BY <1>6, <1>7, <1>8 DEF ListInv

\* A relayed request: submitted, or refused while another is in the mempool.
LEMMA ListInvSubmits ==
    ASSUME ListInv, NEW i \in DOMAIN requests, RelaySubmits(i)
    PROVE  ListInv'
<1>1. /\ requests[i] \in Requests /\ requests[i].at = "sent" /\ serving = 0
      /\ requests[i].id = 0 /\ i \in Nat \ {0} /\ chain.of = 0
  <2>1. requests[i] \in Requests /\ i \in Nat \ {0}
        BY DEF ListInv, RequestsTyped
  <2>2. requests[i].at = "sent" /\ serving = 0
        BY DEF RelaySubmits
  <2> QED
        BY <2>1, <2>2 DEF ListInv, IdsOK, RelayOK
<1>2. ASSUME NEW at \in {"submitted", "failed"}, At(i, at)
      PROVE  /\ requests' \in Seq(Requests) /\ DOMAIN requests' = DOMAIN requests
             /\ \A j \in DOMAIN requests : j # i => requests'[j] = requests[j]
             /\ requests'[i] \in Requests /\ requests'[i].id = 0
             /\ requests'[i].at = at
             /\ at = "submitted" => /\ requests'[i].wallet = requests[i].wallet
                                    /\ requests'[i].form = requests[i].form
  <2> DEFINE r == [requests[i] EXCEPT !.at = at]
  <2>1. /\ r \in Requests /\ r.id = 0 /\ r.at = at
        /\ r.wallet = requests[i].wallet /\ r.form = requests[i].form
    <3>1. at \in Stages
          BY <1>2 DEF Stages
    <3> QED
          BY <3>1, <1>1, StagedType
  <2>2. Becomes(i, r)
        BY <1>2 DEF At
  <2> HIDE DEF r
  <2>3. requests \in Seq(Requests)
        BY DEF ListInv, RequestsTyped
  <2>4. Settled(r) \in Requests /\ Settled(r).id = 0 /\ Settled(r).at = at
        /\ (at = "submitted" => Settled(r) = r)
        BY <2>1, SettledType DEF Settled, Over
  <2> QED
        BY <2>1, <2>2, <2>3, <2>4, BecomesType
<1>3. CASE At(i, "submitted") /\ serving' = i
           /\ chain' = [chain EXCEPT !.pending = TRUE, !.of = i,
                          !.wallet = requests[i].wallet, !.form = requests[i].form]
  <2>1. /\ chain'.registered = chain.registered /\ chain'.pending /\ chain'.of = i
        /\ chain'.wallet = requests[i].wallet /\ chain'.form = requests[i].form
        BY <1>3, <1>1 DEF ListInv, RequestsTyped
  <2>2. RequestsTyped'
        BY <1>1, <1>2, <1>3 DEF ListInv, RequestsTyped, RelaySubmits, Requests
  <2>3. IdsOK' /\ ListedAsRegistered'
    <3>1. \A j \in DOMAIN requests : requests'[j].id # 0 => requests'[j] = requests[j]
          BY <1>2, <1>3
    <3> QED
          BY <1>2, <1>3, <2>1, <2>2, <3>1, IdsKept DEF RelaySubmits, ListInv, IdsOK
  <2>4. RelayOK'
        BY <1>1, <1>2, <1>3, <2>1 DEF ListInv, RelayOK
  <2> QED
        BY <2>2, <2>3, <2>4 DEF ListInv
<1>4. CASE At(i, "failed") /\ UNCHANGED <<chain, serving>>
  <2>2. RequestsTyped'
        BY <1>1, <1>2, <1>4 DEF ListInv, RequestsTyped, RelaySubmits
  <2>3. IdsOK' /\ ListedAsRegistered'
    <3>1. \A j \in DOMAIN requests : requests'[j].id # 0 => requests'[j] = requests[j]
          BY <1>2, <1>4
    <3> QED
          BY <1>2, <1>4, <2>2, <3>1, IdsKept DEF RelaySubmits, ListInv, IdsOK
  <2>4. RelayOK'
        BY <1>1, <1>2, <1>4 DEF ListInv, RelayOK
  <2> QED
        BY <2>2, <2>3, <2>4 DEF ListInv
<1> QED
    BY <1>3, <1>4 DEF RelaySubmits

\* The relay's answer, or its failure: the request goes on.
LEMMA ListInvRelayed ==
    ASSUME ListInv, RelayAnswers \/ RelayFails
    PROVE  ListInv'
<1>1. /\ requests \in Seq(Requests) /\ serving \in DOMAIN requests
      /\ requests[serving].at \in {"mined", "submitted"}
      /\ requests[serving].at = "mined" => chain.of = 0
      /\ requests[serving].at = "submitted" => requests[serving].id = 0
      BY DEF ListInv, RequestsTyped, RelayOK, IdsOK, RelayAnswers, RelayFails
<1>2. PICK at \in {"answered", "failed"} :
         /\ At(serving, at) /\ serving' = 0
         /\ at = "failed" => requests[serving].id = 0
      BY <1>1 DEF RelayAnswers, RelayFails
<1>3. /\ chain'.registered = chain.registered /\ chain'.of = 0 /\ listed' = listed
      /\ chain' \in {chain, [chain EXCEPT !.of = 0]}
      BY <1>1 DEF RelayAnswers, RelayFails, ListInv, RequestsTyped
<1>4. /\ requests' \in Seq(Requests) /\ DOMAIN requests' = DOMAIN requests
      /\ \A j \in DOMAIN requests : j # serving => requests'[j] = requests[j]
      /\ requests'[serving].at \in {"answered", "failed"}
      /\ requests'[serving].id # 0 =>
           /\ requests'[serving].id = requests[serving].id
           /\ requests'[serving].at = "answered"
           /\ requests'[serving].wallet = requests[serving].wallet
           /\ requests'[serving].form = requests[serving].form
  <2> DEFINE r == [requests[serving] EXCEPT !.at = at]
  <2>1. requests[serving] \in Requests /\ at \in Stages
        BY <1>1 DEF Stages
  <2>2. /\ r \in Requests /\ r.id = requests[serving].id /\ r.at = at
        /\ r.wallet = requests[serving].wallet /\ r.form = requests[serving].form
        BY <2>1, StagedType
  <2>3. Becomes(serving, r)
        BY <1>2 DEF At
  <2> HIDE DEF r
  <2>4. Settled(r) \in {r, Over}
        BY <2>2, SettledType
  <2>5. Over.id = 0 /\ Over.at = "failed"
        BY DEF Over
  <2> QED
        BY <1>1, <1>2, <2>2, <2>3, <2>4, <2>5, BecomesType
<1>5. RequestsTyped'
  <2>1. chain' \in [registered : Seq([wallet : Wallets, form : Contents]), pending : BOOLEAN,
                   wallet : Wallets, form : Contents, of : Nat]
    <3> DEFINE S == Seq([wallet : Wallets, form : Contents])
    <3>1. chain \in [registered : S, pending : BOOLEAN, wallet : Wallets, form : Contents, of : Nat]
          BY DEF ListInv, RequestsTyped
    <3> HIDE DEF S
    <3>2. chain' \in [registered : S, pending : BOOLEAN, wallet : Wallets, form : Contents,
                     of : Nat]
          BY <1>3, <3>1
    <3> QED
          BY <3>2 DEF S
  <2> QED
        BY <1>2, <1>3, <1>4, <2>1 DEF ListInv, RequestsTyped
<1>6. IdsOK' /\ ListedAsRegistered'
  <2>1. \A j \in DOMAIN requests : requests'[j].id # 0 =>
           /\ requests'[j].id = requests[j].id
           /\ requests'[j].at \in {"mined", "answered"}
           /\ requests'[j].wallet = requests[j].wallet
           /\ requests'[j].form = requests[j].form
        BY <1>4 DEF ListInv, IdsOK
  <2> QED
        BY <1>3, <1>4, <1>5, <2>1, IdsKept
<1>7. RelayOK'
  <2>1. ASSUME NEW j \in DOMAIN requests, requests'[j].at \in {"submitted", "mined"}
        PROVE  FALSE
        BY <1>1, <1>4, <2>1 DEF ListInv, RelayOK
  <2> QED
        BY <1>2, <1>3, <1>4, <2>1 DEF RelayOK
<1> QED
    BY <1>5, <1>6, <1>7 DEF ListInv

\* The transaction's block: an id that no request and no entry has yet goes to the
\* request it is for.
LEMMA ListInvMined == ListInv /\ MineRegistration => ListInv'
<1> SUFFICES ASSUME ListInv, MineRegistration PROVE ListInv'
    OBVIOUS
<1> DEFINE entry == [wallet |-> chain.wallet, form |-> chain.form]
           minted == Append(chain.registered, entry)
<1>1. PICK registered \in {chain.registered, minted} :
        LET id == IF registered = minted THEN Len(minted) ELSE 0 IN
        /\ chain' = [chain EXCEPT !.registered = registered, !.pending = FALSE,
                                  !.of = 0, !.wallet = None, !.form = Blank]
        /\ requests' = IF chain.of = 0 THEN requests
                       ELSE [requests EXCEPT ![chain.of].id = id, ![chain.of].at = "mined"]
      BY DEF MineRegistration
<1>2. listed' = listed /\ serving' = serving
      BY DEF MineRegistration
<1> DEFINE n == Len(chain.registered)
           id == IF registered = minted THEN n + 1 ELSE 0
<1>3. /\ entry \in [wallet : Wallets, form : Contents]
      /\ chain.registered \in Seq([wallet : Wallets, form : Contents])
      /\ n \in Nat /\ Len(minted) = n + 1 /\ minted # chain.registered
      /\ minted \in Seq([wallet : Wallets, form : Contents])
      /\ \A k \in 1..n : minted[k] = chain.registered[k]
      /\ minted[n + 1] = entry
  <2>1. chain.registered \in Seq([wallet : Wallets, form : Contents])
        BY DEF ListInv, RequestsTyped
  <2>2. entry \in [wallet : Wallets, form : Contents]
        BY DEF ListInv, RequestsTyped
  <2> HIDE DEF entry
  <2> QED
        BY <2>1, <2>2
<1>4. /\ chain'.registered = registered /\ chain'.of = 0
      /\ chain' \in [registered : Seq([wallet : Wallets, form : Contents]), pending : BOOLEAN,
                     wallet : Wallets, form : Contents, of : Nat]
  <2>1. None \in Wallets /\ Blank \in Contents
        BY DEF Wallets, Contents
  <2>2. registered \in Seq([wallet : Wallets, form : Contents])
        BY <1>3
  <2> QED
        BY <1>1, <2>1, <2>2 DEF ListInv, RequestsTyped
<1>5. requests' = IF chain.of = 0 THEN requests
                  ELSE [requests EXCEPT ![chain.of] =
                          [requests[chain.of] EXCEPT !.id = id, !.at = "mined"]]
      BY <1>1, <1>3
<1> HIDE DEF minted, n, id, entry
<1>6. \A i \in DOMAIN requests : requests[i] \in Requests
      BY DEF ListInv, RequestsTyped
<1>7. id \in Nat /\ (id # 0 => id = n + 1 /\ registered = minted)
      BY <1>3 DEF id
<1>8. /\ requests' \in Seq(Requests) /\ DOMAIN requests' = DOMAIN requests
      /\ \A i \in DOMAIN requests :
           \/ requests'[i] = requests[i] /\ i # chain.of
           \/ /\ i = chain.of /\ requests[i].at = "submitted" /\ serving = i
              /\ requests'[i].at = "mined" /\ requests'[i].id = id
              /\ requests'[i].wallet = chain.wallet /\ requests'[i].form = chain.form
  <2>1. CASE chain.of = 0
        BY <1>5, <2>1 DEF ListInv, RequestsTyped
  <2>2. CASE chain.of # 0
    <3> DEFINE r == [requests[chain.of] EXCEPT !.id = id, !.at = "mined"]
    <3>1. /\ chain.of \in DOMAIN requests /\ requests[chain.of].at = "submitted"
          /\ serving = chain.of /\ requests[chain.of].wallet = chain.wallet
          /\ requests[chain.of].form = chain.form
          BY <2>2 DEF ListInv, RelayOK
    <3>2. r \in Requests /\ r.at = "mined" /\ r.id = id
          /\ r.wallet = chain.wallet /\ r.form = chain.form
      <4>1. "mined" \in Stages
            BY DEF Stages
      <4>2. requests[chain.of] \in Requests
            BY <1>6, <3>1
      <4> QED
            BY <1>7, <3>1, <4>1, <4>2 DEF Requests
    <3>3. requests' = [requests EXCEPT ![chain.of] = r]
          BY <1>5, <2>2
    <3> HIDE DEF r
    <3>4. requests \in Seq(Requests)
          BY DEF ListInv, RequestsTyped
    <3> QED
          BY <3>1, <3>2, <3>3, <3>4
  <2> QED
        BY <2>1, <2>2
<1>9. /\ DOMAIN chain.registered = 1..n /\ n \in Nat
      /\ \A k \in 1..n : k \in DOMAIN registered /\ registered[k] = chain.registered[k]
      /\ id # 0 => id \in DOMAIN registered /\ registered[id] = entry
      BY <1>3, <1>7 DEF n
<1>10. RequestsTyped'
      BY <1>2, <1>4, <1>8 DEF ListInv, RequestsTyped
<1>11. ListedAsRegistered'
      BY <1>2, <1>4, <1>9 DEF ListInv, ListedAsRegistered
<1>12. IdsOK'
  <2>1. SUFFICES ASSUME NEW i \in DOMAIN requests, requests'[i].id # 0
                 PROVE  /\ requests'[i].at \in {"mined", "answered"}
                        /\ requests'[i].id \in DOMAIN registered
                        /\ registered[requests'[i].id]
                             = [wallet |-> requests'[i].wallet, form |-> requests'[i].form]
                        /\ \A j \in DOMAIN requests :
                             requests'[j].id = requests'[i].id => j = i
                        /\ \A k \in DOMAIN listed : listed[k].id # requests'[i].id
        BY <1>2, <1>4, <1>8 DEF IdsOK
  <2>2. \A j \in DOMAIN requests : requests[j].id # 0 => requests[j].id \in 1..n
        BY <1>9 DEF ListInv, IdsOK
  <2>3. \A k \in DOMAIN listed : listed[k].id \in 1..n
        BY <1>9 DEF ListInv, ListedAsRegistered
  <2>4. CASE requests'[i] = requests[i] /\ i # chain.of
        BY <1>7, <1>8, <1>9, <2>1, <2>2, <2>4 DEF ListInv, IdsOK
  <2>5. CASE i = chain.of /\ requests'[i].at = "mined" /\ requests'[i].id = id
             /\ requests'[i].wallet = chain.wallet /\ requests'[i].form = chain.form
        BY <1>7, <1>8, <1>9, <2>1, <2>2, <2>3, <2>5 DEF entry
  <2> QED
        BY <1>8, <2>4, <2>5
<1>13. RelayOK'
      BY <1>2, <1>4, <1>8 DEF ListInv, RelayOK
<1> QED
    BY <1>10, <1>11, <1>12, <1>13 DEF ListInv

\* The answers the handler of a click gets.
LEMMA ListInvAnswered ==
    ASSUME ListInv, NEW i \in DOMAIN requests, DeployAnswered(i)
    PROVE  ListInv'
<1> DEFINE r == [requests[i] EXCEPT !.open = FALSE]
<1>1. requests[i] \in Requests /\ requests \in Seq(Requests)
      BY DEF ListInv, RequestsTyped
<1>2. r \in Requests /\ r.at = "answered" /\ ~r.open
      BY <1>1 DEF DeployAnswered, Requests
<1>3. Settled(r) = Over /\ Becomes(i, r)
      BY <1>2 DEF Settled, DeployAnswered, Closed
<1> HIDE DEF r
<1>4. Over.id = 0 /\ Over.at = "failed"
      BY DEF Over
<1>5. /\ requests' \in Seq(Requests) /\ DOMAIN requests' = DOMAIN requests
      /\ requests'[i].id = 0 /\ requests'[i].at = "failed"
      /\ \A j \in DOMAIN requests : j # i => requests'[j] = requests[j]
      BY <1>1, <1>2, <1>3, <1>4, BecomesType
<1>6. chain' = chain /\ serving' = serving /\ requests[i].at = "answered"
      BY DEF DeployAnswered
<1>7. RelayOK'
      BY <1>5, <1>6 DEF ListInv, RelayOK
<1>8. CASE requests[i].id = 0
  <2>1. listed' = listed
        BY <1>8 DEF DeployAnswered
  <2>2. RequestsTyped'
        BY <1>5, <1>6, <2>1 DEF ListInv, RequestsTyped
  <2>3. IdsOK' /\ ListedAsRegistered'
    <3>1. \A j \in DOMAIN requests : requests'[j].id # 0 => requests'[j] = requests[j]
          BY <1>5
    <3> QED
          BY <1>5, <1>6, <2>1, <2>2, <3>1, IdsKept DEF ListInv, IdsOK
  <2> QED
        BY <1>7, <2>2, <2>3 DEF ListInv
<1>9. CASE requests[i].id # 0
  <2> DEFINE e == Entry(requests[i])
             m == Len(listed)
  <2>1. /\ e \in [id : Nat, wallet : Wallets, form : Contents] /\ e.id = requests[i].id
        /\ e.wallet = requests[i].wallet /\ e.form = requests[i].form
        BY <1>1 DEF Entry, Requests
  <2>2. listed' = Append(listed, e)
        BY <1>9 DEF DeployAnswered
  <2>3. /\ e.id \in DOMAIN chain.registered
        /\ chain.registered[e.id] = [wallet |-> e.wallet, form |-> e.form]
        /\ \A k \in DOMAIN listed : listed[k].id # e.id
        /\ \A j \in DOMAIN requests : j # i => requests[j].id # e.id
        BY <1>9, <2>1 DEF ListInv, IdsOK
  <2>4. listed \in Seq([id : Nat, wallet : Wallets, form : Contents])
        BY DEF ListInv, RequestsTyped
  <2> HIDE DEF e
  <2>5. /\ listed' \in Seq([id : Nat, wallet : Wallets, form : Contents])
        /\ m \in Nat /\ DOMAIN listed = 1..m /\ DOMAIN listed' = 1..(m + 1)
        /\ \A k \in 1..m : listed'[k] = listed[k]
        /\ listed'[m + 1] = e
        BY <2>1, <2>2, <2>4
  <2> HIDE DEF m
  <2>6. RequestsTyped'
        BY <1>5, <1>6, <2>5 DEF ListInv, RequestsTyped
  <2>7. \A k \in 1..(m + 1) : k \in 1..m \/ k = m + 1
        BY <2>5
  <2>8. ListedAsRegistered'
    <3>1. ASSUME NEW k \in 1..(m + 1)
          PROVE  /\ listed'[k].id \in DOMAIN chain.registered
                 /\ chain.registered[listed'[k].id]
                      = [wallet |-> listed'[k].wallet, form |-> listed'[k].form]
          BY <2>3, <2>5, <2>7 DEF ListInv, ListedAsRegistered
    <3>2. ASSUME NEW k \in 1..(m + 1), NEW j \in 1..(m + 1), listed'[j].id = listed'[k].id
          PROVE  j = k
      <4>1. \A x, y \in 1..m : listed[x].id = listed[y].id => x = y
            BY <2>5 DEF ListInv, ListedAsRegistered
      <4>2. \A x \in 1..m : listed'[x].id # e.id
            BY <2>3, <2>5
      <4>3. CASE j \in 1..m /\ k \in 1..m
            BY <2>5, <3>2, <4>1, <4>3
      <4>4. CASE j = m + 1 \/ k = m + 1
            BY <2>5, <2>7, <3>2, <4>2, <4>4
      <4> QED
            BY <2>7, <4>3, <4>4
    <3> QED
          BY <1>6, <2>5, <3>1, <3>2 DEF ListedAsRegistered
  <2>9. IdsOK'
    <3>1. SUFFICES ASSUME NEW j \in DOMAIN requests, requests'[j].id # 0
                   PROVE  /\ requests'[j].at \in {"mined", "answered"}
                          /\ requests'[j].id \in DOMAIN chain.registered
                          /\ chain.registered[requests'[j].id]
                               = [wallet |-> requests'[j].wallet, form |-> requests'[j].form]
                          /\ \A k \in DOMAIN requests :
                               requests'[k].id = requests'[j].id => k = j
                          /\ \A k \in DOMAIN listed' : listed'[k].id # requests'[j].id
          BY <1>5, <1>6 DEF IdsOK
    <3>2. j # i /\ requests'[j] = requests[j] /\ requests[j].id # 0
          BY <1>5, <3>1
    <3>3. \A k \in DOMAIN requests : requests'[k].id = requests'[j].id => k = j
          BY <1>5, <3>2 DEF ListInv, IdsOK
    <3>4. \A k \in DOMAIN listed' : listed'[k].id # requests'[j].id
      <4>1. \A k \in 1..m : listed[k].id # requests[j].id
            BY <2>5, <3>2 DEF ListInv, IdsOK
      <4> QED
            BY <2>3, <2>5, <2>7, <3>2, <4>1
    <3>5. /\ requests[j].at \in {"mined", "answered"}
          /\ requests[j].id \in DOMAIN chain.registered
          /\ chain.registered[requests[j].id]
               = [wallet |-> requests[j].wallet, form |-> requests[j].form]
          BY <3>2 DEF ListInv, IdsOK
    <3> QED
          BY <3>2, <3>3, <3>4, <3>5
  <2> QED
        BY <1>7, <2>6, <2>8, <2>9 DEF ListInv
<1> QED
    BY <1>8, <1>9

\* An error, which lists nothing.
LEMMA ListInvRejected ==
    ASSUME ListInv, NEW i \in DOMAIN requests, DeployRejected(i)
    PROVE  ListInv'
<1> DEFINE r == [requests[i] EXCEPT !.open = FALSE]
<1>1. requests[i] \in Requests /\ requests \in Seq(Requests)
      BY DEF ListInv, RequestsTyped
<1>2. /\ r \in Requests /\ r.id = requests[i].id /\ r.at = requests[i].at /\ ~r.open
      /\ r.wallet = requests[i].wallet /\ r.form = requests[i].form
      BY <1>1 DEF Requests
<1>3. Becomes(i, r)
      BY DEF DeployRejected, Closed
<1> HIDE DEF r
<1>4. /\ Settled(r) \in {r, Over} /\ Over.id = 0 /\ Over.at = "failed"
      /\ r.at = "submitted" => Settled(r) = r
      BY <1>2, SettledType DEF Over, Settled
<1>5. /\ requests' \in Seq(Requests) /\ DOMAIN requests' = DOMAIN requests
      /\ requests'[i] \in {r, Over} /\ (r.at = "submitted" => requests'[i] = r)
      /\ \A j \in DOMAIN requests : j # i => requests'[j] = requests[j]
      BY <1>1, <1>2, <1>3, <1>4, BecomesType
<1>6. chain' = chain /\ serving' = serving /\ listed' = listed
      BY DEF DeployRejected
<1>7. RelayOK'
      BY <1>2, <1>4, <1>5, <1>6 DEF ListInv, RelayOK
<1>8. RequestsTyped'
      BY <1>5, <1>6 DEF ListInv, RequestsTyped
<1>9. IdsOK' /\ ListedAsRegistered'
  <2>1. \A j \in DOMAIN requests : requests'[j].id # 0 =>
           /\ requests'[j].id = requests[j].id
           /\ requests'[j].at \in {"mined", "answered"}
           /\ requests'[j].wallet = requests[j].wallet
           /\ requests'[j].form = requests[j].form
        BY <1>2, <1>4, <1>5 DEF ListInv, IdsOK
  <2> QED
        BY <1>5, <1>6, <1>8, <2>1, IdsKept
<1> QED
    BY <1>7, <1>8, <1>9 DEF ListInv

-----------------------------------------------------------------------------
(* The page. *)

OnboardPages == [at : {"onboard"}, step : 1..3, form : Contents, deploying : BOOLEAN,
                 deployed : BOOLEAN, id : Nat, error : BOOLEAN]
AgentsPages == [at : {"agents"}, input : Texts, search : Texts, timer : Texts \cup {None},
                filter : Filters]
DetailPages == [at : {"detail"}, id : Nat, sheet : BOOLEAN,
                deposit : {"idle", "pending", "success"}, confirms : Nat, resets : Nat]

Waits(r) == r.open /\ r.here

\* The handler that has a page to write to is the one the page waits for.
WaitsOK ==
    /\ \A i \in DOMAIN requests : Waits(requests[i]) => OnPage /\ page.deploying
    /\ \A i, j \in DOMAIN requests : Waits(requests[i]) /\ Waits(requests[j]) => i = j

\* A timer of the search box has the text of the last keystroke; a pending deposit
\* has a timer that confirms it.
PageOK ==
    /\ page \in OnboardPages \cup AgentsPages \cup DetailPages
    /\ OnPage => page.id \in 0..Len(chain.registered)
    /\ page.at = "agents" =>
         IF page.timer = None THEN page.search = page.input ELSE page.timer = page.input
    /\ page.at = "detail" => (page.deposit = "pending" => page.confirms > 0)

FrontendInv == WalletInv /\ ListInv /\ PageOK /\ WaitsOK

\* Which page it is tells its fields.
LEMMA PageKinds ==
    ASSUME page \in OnboardPages \cup AgentsPages \cup DetailPages
    PROVE  /\ OnPage => page \in OnboardPages
           /\ page.at = "agents" => page \in AgentsPages
           /\ page.at = "detail" => page \in DetailPages
  BY DEF OnboardPages, AgentsPages, DetailPages, OnPage

\* The invariant says what the type invariant of the specification says.
LEMMA InvTypes == FrontendInv => FrontendTypeOK
<1> SUFFICES ASSUME FrontendInv PROVE FrontendTypeOK
    OBVIOUS
<1>1. OnboardingTypeOK
  <2>1. \A i \in DOMAIN requests : requests[i].at \in Stages
    <3>1. \A i \in DOMAIN requests : requests[i] \in Requests
          BY DEF FrontendInv, ListInv, RequestsTyped
    <3> QED
          BY <3>1 DEF Requests
  <2>2. OnPage => page.step \in 1..3 /\ page.id \in 0..Len(chain.registered)
        BY PageKinds DEF FrontendInv, PageOK, OnboardPages
  <2> QED
        BY <2>1, <2>2 DEF FrontendInv, ListInv, RelayOK, WaitsOK, Waits, OnboardingTypeOK
<1>2. page.at = "agents" =>
        {page.input, page.search} \subseteq Texts /\ page.filter \in Filters
          /\ (page.timer = None => page.search = page.input)
      BY PageKinds DEF FrontendInv, PageOK, AgentsPages
<1>3. page.at = "detail" =>
        /\ page.deposit \in {"idle", "pending", "success"} /\ page.resets \in Nat
        /\ page.deposit = "pending" => page.confirms > 0
      BY PageKinds DEF FrontendInv, PageOK, DetailPages
<1> QED
    BY <1>1, <1>2, <1>3 DEF FrontendInv, WalletInv, FrontendTypeOK

\* Pages as they mount.
LEMMA Mounts ==
    /\ Onboard \in OnboardPages /\ Marketplace \in AgentsPages
    /\ \A id \in Nat : AgentDetail(id) \in DetailPages
  BY FrontendAssumption
     DEF Onboard, Marketplace, AgentDetail, OnboardPages, AgentsPages, DetailPages, Contents

\* The pages of the marketplace's cards.
LEMMA CardsAreIds == FrontendInv /\ page.at = "agents" => Cards \subseteq Nat
<1> SUFFICES ASSUME FrontendInv, page.at = "agents" PROVE Cards \subseteq Nat
    OBVIOUS
<1>1. \A i \in DOMAIN listed : listed[i].id \in Nat
  <2>1. \A i \in DOMAIN listed : listed[i] \in [id : Nat, wallet : Wallets, form : Contents]
    <3> DEFINE E == [id : Nat, wallet : Wallets, form : Contents]
    <3>1. listed \in Seq(E)
          BY DEF FrontendInv, ListInv, RequestsTyped
    <3> HIDE DEF E
    <3>2. \A i \in DOMAIN listed : listed[i] \in E
          BY <3>1
    <3> QED
          BY <3>2 DEF E
  <2> QED
        BY <2>1
<1>2. Keeps[page.filter].demo \subseteq Nat
  <2>1. page.filter \in Filters
        BY PageKinds DEF FrontendInv, PageOK, AgentsPages
  <2> QED
        BY <2>1, FrontendAssumption
<1> QED
    BY <1>1, <1>2 DEF Cards, Shown

\* Whoever does not mount, ask or register anything leaves the waiting as it is.
LEMMA WaitsKept ==
    ASSUME WaitsOK, DOMAIN requests' = DOMAIN requests,
           \A i \in DOMAIN requests : Waits(requests'[i]) => Waits(requests[i]),
           OnPage /\ page.deploying => (OnPage /\ page.deploying)'
    PROVE  WaitsOK'
  BY DEF WaitsOK

\* A change of one request that makes nobody wait.
LEMMA BecomesWaits ==
    ASSUME requests \in Seq(Requests), NEW i \in DOMAIN requests, NEW r \in Requests,
           Becomes(i, r), r.open => requests[i].open, r.here => requests[i].here
    PROVE  /\ DOMAIN requests' = DOMAIN requests
           /\ \A j \in DOMAIN requests : Waits(requests'[j]) => Waits(requests[j])
           /\ Waits(requests'[i]) => r.open
  <1>1. Waits(Settled(r)) => Waits(r)
        BY DEF Waits, Settled, Over
  <1> QED
      BY <1>1, BecomesType DEF Waits

\* The wallet's steps leave page and requests alone.
LEMMA PageInvKept ==
    PageOK /\ WaitsOK /\ UNCHANGED <<page, requests, chain>> => PageOK' /\ WaitsOK'
  BY DEF PageOK, WaitsOK, OnPage, Waits

\* The relay's steps and blocks leave the page alone, and no id is lost.
LEMMA PageInvRelaying ==
    ASSUME ListInv, PageOK, WaitsOK, Relaying \/ RelayFails
    PROVE  PageOK' /\ WaitsOK'
<1>1. requests \in Seq(Requests) /\ \A i \in DOMAIN requests : requests[i] \in Requests
      BY DEF ListInv, RequestsTyped
<1>2. ASSUME NEW i \in DOMAIN requests, NEW at \in Stages, At(i, at)
      PROVE  /\ DOMAIN requests' = DOMAIN requests
             /\ \A j \in DOMAIN requests : Waits(requests'[j]) => Waits(requests[j])
  <2> DEFINE r == [requests[i] EXCEPT !.at = at]
  <2>1. r \in Requests
        BY <1>1, StagedType
  <2>2. r.open = requests[i].open /\ r.here = requests[i].here
        BY <1>1 DEF Requests
  <2>3. Becomes(i, r)
        BY <1>2 DEF At
  <2> HIDE DEF r
  <2> QED
        BY <1>1, <2>1, <2>2, <2>3, BecomesWaits
<1>3. {"submitted", "failed", "answered"} \subseteq Stages
      BY DEF Stages
<1>4. serving # 0 => serving \in DOMAIN requests
      BY DEF ListInv, RelayOK
<1>5. page' = page
      BY DEF Relaying, RelayFails, RelaySubmits, MineRegistration, RelayAnswers
<1>6. ASSUME NEW n \in Nat, n = Len(chain.registered), Len(chain'.registered) \in {n, n + 1}
      PROVE  PageOK'
      BY <1>5, <1>6 DEF PageOK, OnPage
<1>7. Len(chain.registered) \in Nat
  <2>1. chain.registered \in Seq([wallet : Wallets, form : Contents])
        BY DEF ListInv, RequestsTyped
  <2> QED
        BY <2>1
<1>8. ASSUME NEW i \in DOMAIN requests, RelaySubmits(i)
      PROVE  PageOK' /\ WaitsOK'
  <2>1. chain'.registered = chain.registered
        BY <1>8 DEF RelaySubmits, ListInv, RequestsTyped
  <2>2. At(i, "submitted") \/ At(i, "failed")
        BY <1>8 DEF RelaySubmits
  <2> QED
        BY <1>2, <1>3, <1>5, <1>6, <1>7, <2>1, <2>2, WaitsKept DEF OnPage
<1>9. CASE RelayAnswers \/ RelayFails
  <2>1. chain'.registered = chain.registered
        BY <1>9 DEF RelayAnswers, RelayFails, ListInv, RequestsTyped
  <2>2. serving # 0 /\ (At(serving, "answered") \/ At(serving, "failed"))
        BY <1>9 DEF RelayAnswers, RelayFails
  <2> QED
        BY <1>2, <1>3, <1>4, <1>5, <1>6, <1>7, <2>1, <2>2, WaitsKept DEF OnPage
<1>10. CASE MineRegistration
  <2> DEFINE minted == Append(chain.registered, [wallet |-> chain.wallet, form |-> chain.form])
  <2>1. PICK registered \in {chain.registered, minted} :
          LET id == IF registered = minted THEN Len(minted) ELSE 0 IN
          /\ chain' = [chain EXCEPT !.registered = registered, !.pending = FALSE,
                                    !.of = 0, !.wallet = None, !.form = Blank]
          /\ requests' = IF chain.of = 0 THEN requests
                         ELSE [requests EXCEPT ![chain.of].id = id, ![chain.of].at = "mined"]
        BY <1>10 DEF MineRegistration
  <2>2. Len(minted) = Len(chain.registered) + 1
    <3>1. chain.registered \in Seq([wallet : Wallets, form : Contents])
          BY DEF ListInv, RequestsTyped
    <3> QED
          BY <3>1
  <2>3. chain'.registered = registered
        BY <2>1 DEF ListInv, RequestsTyped
  <2>4. DOMAIN requests' = DOMAIN requests
        BY <2>1
  <2>5. \A j \in DOMAIN requests : Waits(requests'[j]) => Waits(requests[j])
        BY <1>1, <2>1 DEF Requests, Waits
  <2> QED
        BY <1>5, <1>6, <1>7, <2>2, <2>3, <2>4, <2>5, WaitsKept DEF OnPage
<1> QED
    BY <1>8, <1>9, <1>10 DEF Relaying

\* Clicks on the form other than its last button.
LEMMA PageInvForm ==
    ASSUME PageOK, WaitsOK, FormClicks, ~Deploy
    PROVE  PageOK' /\ WaitsOK'
<1>1. OnPage /\ page \in OnboardPages
      BY PageKinds
         DEF PageOK, FormClicks, ChooseEcosystem, EditIdentity, EditTrust, NextStep, BackStep,
             DismissError
<1>2. UNCHANGED <<requests, chain>>
      BY DEF FormClicks, ChooseEcosystem, EditIdentity, EditTrust, NextStep, BackStep,
             DismissError, Edit
<1>3. /\ page' \in OnboardPages
      /\ page'.at = page.at /\ page'.id = page.id /\ page'.deploying = page.deploying
  <2>1. ASSUME NEW form \in Forms, page' = [page EXCEPT !.form = form]
        PROVE  <1>3!:
        BY <1>1, <2>1 DEF OnboardPages, Contents
  <2>2. CASE NextStep
        BY <1>1, <2>2 DEF NextStep, CanProceed, OnboardPages
  <2>3. CASE BackStep
        BY <1>1, <2>3 DEF BackStep, OnboardPages
  <2>4. CASE DismissError
        BY <1>1, <2>4 DEF DismissError, OnboardPages
  <2> QED
        BY <2>1, <2>2, <2>3, <2>4
           DEF FormClicks, ChooseEcosystem, EditIdentity, EditTrust, Edit
<1>4. PageOK'
      BY <1>1, <1>2, <1>3 DEF PageOK, OnPage
<1> QED
    BY <1>2, <1>3, <1>4, WaitsKept DEF OnPage

\* handleDeploy: the page waits for the new request, which nobody did before.
LEMMA InvDeploy ==
    ASSUME FrontendInv, Deploy
    PROVE  ListInv' /\ PageOK' /\ WaitsOK'
<1> DEFINE r == [wallet |-> session.wallet, form |-> page.form, at |-> "sent", id |-> 0,
                 open |-> TRUE, here |-> TRUE]
           n == Len(requests)
<1>1. OnPage /\ page \in OnboardPages /\ ~page.deploying
      BY PageKinds DEF FrontendInv, PageOK, Deploy, CanDeploy
<1>2. r \in Requests /\ r.id = 0 /\ r.at = "sent"
  <2>1. session.wallet \in Wallets
        BY DEF FrontendInv, WalletInv, WalletTypeOK, Wallets
  <2>2. page.form \in Contents
        BY <1>1 DEF OnboardPages
  <2> QED
        BY <2>1, <2>2 DEF Requests, Stages
<1>3. requests' = Append(requests, r) /\ chain' = chain /\ serving' = serving /\ listed' = listed
      BY DEF Deploy
<1>4. page' = [page EXCEPT !.deploying = TRUE, !.error = FALSE, !.id = 0]
      BY DEF Deploy
<1> HIDE DEF r
<1>5. /\ requests' \in Seq(Requests) /\ n \in Nat
      /\ DOMAIN requests = 1..n /\ DOMAIN requests' = 1..(n + 1)
      /\ \A j \in 1..n : requests'[j] = requests[j]
      /\ requests'[n + 1] = r
  <2>1. requests \in Seq(Requests)
        BY DEF FrontendInv, ListInv, RequestsTyped
  <2> QED
        BY <1>2, <1>3, <2>1
<1> HIDE DEF n
<1>6. \A j \in 1..(n + 1) : j \in 1..n \/ j = n + 1
      BY <1>5
<1>7. page' \in OnboardPages /\ page'.at = "onboard" /\ page'.deploying /\ page'.id = 0
      BY <1>1, <1>4 DEF OnboardPages
<1>8. PageOK'
  <2>1. Len(chain.registered) \in Nat
    <3>1. chain.registered \in Seq([wallet : Wallets, form : Contents])
          BY DEF FrontendInv, ListInv, RequestsTyped
    <3> QED
          BY <3>1
  <2> QED
        BY <1>3, <1>7, <2>1 DEF PageOK
<1>9. WaitsOK'
  <2>1. \A j \in 1..n : ~Waits(requests'[j])
        BY <1>1, <1>5 DEF FrontendInv, WaitsOK
  <2> QED
        BY <1>5, <1>6, <1>7, <2>1 DEF WaitsOK, OnPage
<1>10. RelayOK'
      BY <1>2, <1>3, <1>5, <1>6 DEF FrontendInv, ListInv, RelayOK
<1>11. IdsOK'
  <2>1. \A j \in 1..(n + 1) : requests'[j].id # 0 => j \in 1..n /\ requests'[j] = requests[j]
        BY <1>2, <1>5, <1>6
  <2>2. IdsOK
        BY DEF FrontendInv, ListInv
  <2> QED
        BY <1>3, <1>5, <2>1, <2>2 DEF IdsOK
<1>12. RequestsTyped' /\ ListedAsRegistered'
      BY <1>3, <1>5 DEF FrontendInv, ListInv, RequestsTyped, ListedAsRegistered
<1> QED
    BY <1>8, <1>9, <1>10, <1>11, <1>12 DEF ListInv

\* The handler writes to the page that waits for it.
LEMMA PageInvAnswers ==
    ASSUME ListInv, PageOK, WaitsOK,
           NEW i \in DOMAIN requests, DeployAnswered(i) \/ DeployRejected(i)
    PROVE  PageOK' /\ WaitsOK'
<1> DEFINE r == [requests[i] EXCEPT !.open = FALSE]
<1>1. requests[i] \in Requests /\ requests \in Seq(Requests)
      BY DEF ListInv, RequestsTyped
<1>2. r \in Requests /\ ~r.open /\ r.here = requests[i].here
      BY <1>1 DEF Requests
<1>3. Becomes(i, r)
      BY DEF DeployAnswered, DeployRejected, Closed
<1> HIDE DEF r
<1>4. /\ DOMAIN requests' = DOMAIN requests /\ ~Waits(requests'[i])
      /\ \A j \in DOMAIN requests : Waits(requests'[j]) => Waits(requests[j])
      BY <1>1, <1>2, <1>3, BecomesWaits
<1>5. requests[i].open /\ chain' = chain
      BY DEF DeployAnswered, DeployRejected
<1>6. CASE ~requests[i].here
  <2>1. page' = page
        BY <1>6 DEF DeployAnswered, DeployRejected
  <2> QED
        BY <1>4, <1>5, <2>1, WaitsKept DEF PageOK, OnPage
<1>7. CASE requests[i].here
  <2>1. Waits(requests[i])
        BY <1>5, <1>7 DEF Waits
  <2>2. OnPage /\ page \in OnboardPages
        BY <2>1, PageKinds DEF WaitsOK, PageOK
  <2>3. \A j \in DOMAIN requests : ~Waits(requests'[j])
        BY <1>4, <2>1 DEF WaitsOK
  <2>4. WaitsOK'
        BY <1>4, <2>3 DEF WaitsOK
  <2>5. /\ page' \in OnboardPages /\ page'.at = "onboard"
        /\ page'.id \in {page.id, requests[i].id}
        BY <1>1, <1>7, <2>2 DEF DeployAnswered, DeployRejected, WithError, OnboardPages, Requests
  <2>6. requests[i].id \in 0..Len(chain.registered)
    <3>1. chain.registered \in Seq([wallet : Wallets, form : Contents])
          BY DEF ListInv, RequestsTyped
    <3>2. Len(chain.registered) \in Nat /\ DOMAIN chain.registered = 1..Len(chain.registered)
          BY <3>1
    <3>3. requests[i].id = 0 \/ requests[i].id \in DOMAIN chain.registered
          BY DEF ListInv, IdsOK
    <3> QED
          BY <3>2, <3>3
  <2> QED
        BY <1>5, <2>2, <2>4, <2>5, <2>6 DEF PageOK
<1> QED
    BY <1>6, <1>7

\* Another page: nobody waits for it.
LEMMA PageInvMounted ==
    ASSUME ListInv, PageLeft \/ PageUnloaded, chain' = chain,
           \/ page' = Onboard \/ page' = Marketplace
           \/ \E id \in Nat : page' = AgentDetail(id)
    PROVE  PageOK' /\ WaitsOK'
<1>1. \A i \in DOMAIN requests' : ~Waits(requests'[i])
  <2>1. \A i \in DOMAIN requests : requests[i] \in Requests
        BY DEF ListInv, RequestsTyped
  <2>2. CASE PageLeft
        BY <2>1, <2>2 DEF PageLeft, Waits, Requests
  <2>3. CASE PageUnloaded
    <3>1. \A i \in DOMAIN requests :
             ~Waits(Settled([requests[i] EXCEPT !.here = FALSE, !.open = FALSE]))
          BY <2>1 DEF Settled, Over, Waits, Requests
    <3> QED
          BY <2>3, <3>1 DEF PageUnloaded
  <2> QED
        BY <2>2, <2>3
<1>2. Len(chain.registered) \in Nat
  <2>1. chain.registered \in Seq([wallet : Wallets, form : Contents])
        BY DEF ListInv, RequestsTyped
  <2> QED
        BY <2>1
<1>3. page' \in OnboardPages \cup AgentsPages \cup DetailPages
      BY Mounts
<1>4. PageOK'
      BY <1>2, <1>3 DEF PageOK, OnPage, Onboard, Marketplace, AgentDetail
<1> QED
    BY <1>1, <1>4 DEF WaitsOK

\* The search box, the filters, the timers, the deposit.
LEMMA PageInvViews ==
    ASSUME PageOK, WaitsOK, UNCHANGED <<requests, chain>>,
           \/ \E text \in Texts : TypeSearch(text)
           \/ \E filter \in Filters : PickFilter(filter)
           \/ OpenSheet \/ CloseSheet \/ Deposit \/ Timers
    PROVE  PageOK' /\ WaitsOK'
<1>1. CASE \/ \E text \in Texts : TypeSearch(text)
           \/ \E filter \in Filters : PickFilter(filter)
           \/ Debounced
  <2>1. page.at = "agents" /\ page \in AgentsPages
        BY <1>1, PageKinds DEF PageOK, TypeSearch, PickFilter, Debounced
  <2>2. ASSUME NEW text \in Texts, TypeSearch(text)
        PROVE  /\ page' \in AgentsPages /\ page'.at = "agents"
               /\ page'.timer = page'.input /\ page'.timer # None
        BY <2>1, <2>2, FrontendAssumption DEF TypeSearch, Timed, AgentsPages
  <2>3. ASSUME NEW filter \in Filters, PickFilter(filter)
        PROVE  /\ page' \in AgentsPages /\ page'.at = "agents" /\ page'.timer = page.timer
               /\ page'.input = page.input /\ page'.search = page.search
        BY <2>1, <2>3 DEF PickFilter, AgentsPages
  <2>4. CASE Debounced
    <3>1. page.timer \in Texts
          BY <2>1, <2>4 DEF Debounced, AgentsPages
    <3>2. page' = [page EXCEPT !.search = page.timer, !.timer = None]
          BY <2>4 DEF Debounced
    <3>3. /\ page' \in AgentsPages /\ page'.at = "agents" /\ page'.timer = None
          /\ page'.input = page.input /\ page'.search = page.timer
          BY <2>1, <3>1, <3>2 DEF AgentsPages
    <3>4. page.timer = page.input
          BY <2>1, <2>4 DEF PageOK, Debounced
    <3> QED
          BY <2>1, <3>3, <3>4, WaitsKept DEF PageOK, OnPage
  <2> QED
        BY <1>1, <2>1, <2>2, <2>3, <2>4, WaitsKept DEF PageOK, OnPage
<1>2. CASE OpenSheet \/ CloseSheet \/ Deposit \/ DepositConfirmed \/ DepositReset
  <2>1. page.at = "detail" /\ page \in DetailPages
        BY <1>2, PageKinds
           DEF PageOK, OpenSheet, CloseSheet, Deposit, CanDeposit, SheetShown, Found,
               DepositConfirmed, DepositReset
  <2>2. /\ page' \in DetailPages /\ page'.at = "detail"
        /\ page'.deposit = "pending" => page'.confirms > 0
    <3>1. ASSUME NEW b \in BOOLEAN, page' = [page EXCEPT !.sheet = b]
          PROVE  <2>2!:
      <4>1. page.deposit = "pending" => page.confirms > 0
            BY <2>1 DEF PageOK
      <4> QED
            BY <2>1, <3>1, <4>1 DEF DetailPages
    <3>2. page.confirms \in Nat /\ page.resets \in Nat
          BY <2>1 DEF DetailPages
    <3>3. CASE Deposit
      <4> DEFINE c == page.confirms + 1
      <4>1. page' = [page EXCEPT !.deposit = "pending", !.confirms = c]
            BY <3>3 DEF Deposit
      <4>2. c \in Nat /\ c > 0
            BY <3>2
      <4> HIDE DEF c
      <4> QED
            BY <2>1, <4>1, <4>2 DEF DetailPages
    <3>4. CASE DepositConfirmed
      <4> DEFINE c == page.confirms - 1
                 k == page.resets + 1
      <4>1. page' = [page EXCEPT !.deposit = "success", !.confirms = c, !.resets = k]
            BY <3>4 DEF DepositConfirmed
      <4>2. c \in Nat /\ k \in Nat
            BY <3>4, <3>2 DEF DepositConfirmed
      <4> HIDE DEF c, k
      <4> QED
            BY <2>1, <4>1, <4>2 DEF DetailPages
    <3>5. CASE DepositReset
      <4> DEFINE k == page.resets - 1
      <4>1. page' = [page EXCEPT !.deposit = "idle", !.resets = k]
            BY <3>5 DEF DepositReset
      <4>2. k \in Nat
            BY <3>5, <3>2 DEF DepositReset
      <4> HIDE DEF k
      <4> QED
            BY <2>1, <4>1, <4>2 DEF DetailPages
    <3> QED
          BY <1>2, <3>1, <3>3, <3>4, <3>5 DEF OpenSheet, CloseSheet
  <2> QED
        BY <2>1, <2>2, WaitsKept DEF PageOK, OnPage
<1> QED
    BY <1>1, <1>2 DEF Timers

-----------------------------------------------------------------------------
(* The invariant of the app. *)

\* The app starts with it.
LEMMA FrontendInvInit == FrontendInit => FrontendInv
<1> SUFFICES ASSUME FrontendInit PROVE FrontendInv
    OBVIOUS
<1>1. page = Marketplace /\ requests = <<>> /\ chain.registered = <<>>
      BY DEF FrontendInit, OnboardingInit
<1>2. PageOK
      BY <1>1, Mounts DEF PageOK, Marketplace, OnPage
<1>3. WaitsOK
      BY <1>1 DEF WaitsOK
<1> QED
    BY <1>2, <1>3, WalletInvInit, ListInvInit DEF FrontendInv, FrontendInit

\* Every step of the app keeps it.
LEMMA FrontendInvNext == FrontendInv /\ [FrontendNext]_frontendVars => FrontendInv'
<1> SUFFICES ASSUME FrontendInv, [FrontendNext]_frontendVars PROVE FrontendInv'
    OBVIOUS
<1>0. WalletInv /\ ListInv /\ PageOK /\ WaitsOK
      BY DEF FrontendInv
<1>1. CASE UNCHANGED frontendVars
      BY <1>0, <1>1, WalletInvKept, ListInvKept, PageInvKept
         DEF frontendVars, walletVars, onboardingVars, seenVars, FrontendInv
<1>2. CASE Wallet(WalletClicks) \/ Wallet(WalletRequests) \/ Wallet(WalletFailures)
      BY <1>0, <1>2, WalletInvClicks, WalletInvAnswers, ListInvKept, PageInvKept
         DEF Wallet, onboardingVars, FrontendInv
<1>3. CASE Reload
  <2>1. page' \in {Onboard, Marketplace} \/ \E id \in Nat : page' = AgentDetail(id)
    <3>1. page.at \in {"onboard", "agents", "detail"} /\ (page.at = "detail" => page.id \in Nat)
          BY <1>0, PageKinds DEF PageOK, OnboardPages, AgentsPages, DetailPages
    <3> QED
          BY <1>3, <3>1 DEF Reload, Fresh
  <2> QED
        BY <1>0, <1>3, <2>1, WalletInvLoad, ListInvUnloaded, PageInvMounted
           DEF Reload, FrontendInv
<1>4. ASSUME NEW to, Go(to), to \in {Onboard, Marketplace} \/ \E id \in Nat : to = AgentDetail(id)
      PROVE  FrontendInv'
      BY <1>0, <1>4, WalletInvKept, ListInvLeft, PageInvMounted
         DEF Go, walletVars, seenVars, FrontendInv
<1>5. CASE OpenCard
  <2>1. PICK id \in Cards : Go(AgentDetail(id))
        BY <1>5 DEF OpenCard
  <2>2. id \in Nat
        BY <1>5, <2>1, CardsAreIds DEF OpenCard
  <2> QED
        BY <1>4, <2>1, <2>2
<1>6. CASE FormClicks
  <2>1. UNCHANGED seenVars
        BY <1>6 DEF FormClicks, ChooseEcosystem, EditIdentity, EditTrust, Edit, NextStep,
                    BackStep, Deploy, DismissError, walletVars, seenVars
  <2>2. CASE Deploy
        BY <1>0, <2>1, <2>2, WalletInvKept, InvDeploy DEF FrontendInv
  <2>3. CASE ~Deploy
    <3>1. UNCHANGED <<requests, chain, serving, listed>>
          BY <1>6, <2>3 DEF FormClicks, ChooseEcosystem, EditIdentity, EditTrust, Edit,
                            NextStep, BackStep, DismissError
    <3> QED
          BY <1>0, <1>6, <2>1, <2>3, <3>1, WalletInvKept, ListInvKept, PageInvForm
             DEF FrontendInv
  <2> QED
        BY <2>2, <2>3
<1>7. CASE Relaying \/ RelayFails
  <2>1. UNCHANGED seenVars
        BY <1>7 DEF Relaying, RelayFails, RelaySubmits, MineRegistration, RelayAnswers,
                    walletVars, seenVars
  <2>2. ListInv'
        BY <1>0, <1>7, ListInvSubmits, ListInvMined, ListInvRelayed DEF Relaying
  <2> QED
        BY <1>0, <1>7, <2>1, <2>2, WalletInvKept, PageInvRelaying DEF FrontendInv
<1>8. ASSUME NEW i \in DOMAIN requests, DeployAnswered(i) \/ DeployRejected(i)
      PROVE  FrontendInv'
  <2>1. UNCHANGED seenVars
        BY <1>8 DEF DeployAnswered, DeployRejected, walletVars, seenVars
  <2> QED
        BY <1>0, <1>8, <2>1, WalletInvKept, ListInvAnswered, ListInvRejected, PageInvAnswers
           DEF FrontendInv
<1>9. CASE \/ \E text \in Texts : TypeSearch(text)
           \/ \E filter \in Filters : PickFilter(filter)
           \/ OpenSheet \/ CloseSheet \/ Deposit \/ Timers
  <2>1. UNCHANGED <<requests, chain, serving, listed>> /\ UNCHANGED seenVars
        BY <1>9 DEF TypeSearch, PickFilter, OpenSheet, CloseSheet, Deposit, Timers, Debounced,
                    DepositConfirmed, DepositReset, Clicked, walletVars, seenVars
  <2> QED
        BY <1>0, <1>9, <2>1, WalletInvKept, ListInvKept, PageInvViews DEF FrontendInv
<1> QED
    BY <1>1, <1>2, <1>3, <1>4, <1>5, <1>6, <1>7, <1>8, <1>9 DEF FrontendNext

\* The invariant the theorems below rest on.
LEMMA FrontendInvAlways == FrontendSpec => []FrontendInv
  BY FrontendInvInit, FrontendInvNext, PTL DEF FrontendSpec

\* Types, and what each page relies on: results are those of the search box once no
\* timer runs, a pending deposit has a timer, a page shows at most one registration.
THEOREM FrontendTyped == FrontendSpec => []FrontendTypeOK
  BY FrontendInvAlways, InvTypes, PTL

\* The seed in localStorage is that of the wallet shown, once autoRestore has its
\* answer, whatever answers are due when wallets are created, restored, disconnected.
THEOREM StoreMirrors == FrontendSpec => []StoreMirrorsWallet
<1>1. FrontendInv => StoreMirrorsWallet
      BY DEF FrontendInv, WalletInv
<1> QED
    BY <1>1, FrontendInvAlways, PTL

\* The session's list shows what is registered on chain, each agent once, for any
\* number of requests, reloads, replaced transactions and lost answers.
THEOREM ListedAreRegistered == FrontendSpec => []ListedAsRegistered
<1>1. FrontendInv => ListedAsRegistered
      BY DEF FrontendInv, ListInv
<1> QED
    BY <1>1, FrontendInvAlways, PTL
=============================================================================
