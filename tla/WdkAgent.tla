------------------------------ MODULE WdkAgent ------------------------------
(***************************************************************************)
(* The revenue agent (agents/wdk-agent/src): one process that polls its    *)
(* wallet, sends what it finds to the lockbox and calls processRevenue,    *)
(* and whose wallet also serves swaps and bridge transfers.                *)
(*                                                                         *)
(* Every await ends a step.  The gas price, the estimate and the submission*)
(* of a transaction are one step: what changes between them can as well    *)
(* change between the submission and the block, where the transaction then *)
(* reverts.  A receipt that never comes, an RPC error, a submission that   *)
(* throws and a gas price over the maximum draw on MaxFaults.  A process   *)
(* that dies leaves its transactions in the mempool.                       *)
(***************************************************************************)
EXTENDS Integers, Sequences, FiniteSets

CONSTANTS
    Threshold,     \* minRevenueThreshold
    VaultShare,    \* of VaultShare tokens processed the vault gets one
    Amounts,       \* amounts of a payment, a swap or a bridge transfer
    MaxIncome,     \* bound: revenue that ever arrives
    MaxSwaps,      \* bound: swaps and bridge transfers asked for
    MaxFaults,     \* bound: errors, timeouts and gas price peaks
    MaxBoots       \* bound: starts of the process

ASSUME WdkAssumption ==
    /\ Threshold \in Nat \ {0} /\ VaultShare \in Nat \ {0}
    /\ Amounts \subseteq Nat \ {0}
    /\ {MaxIncome, MaxSwaps, MaxFaults, MaxBoots} \subseteq Nat

VARIABLES
    wallet,     \* USDT of the WDK wallet
    box,        \* USDT in the lockbox
    allowance,  \* what the router may take from the wallet
    mempool,    \* the wallet's submitted transactions, in nonce order
    proc,       \* the process: up, isRunning; its seed set, its wallet registered
    poll,       \* the polling loop: where it stands, the balance it read, its receipt
    defi,       \* the swap or bridge transfer in hand, the same
    past        \* counts and bounds; broken: a swap was cut short

wdkVars == <<wallet, box, allowance, mempool, proc, poll, defi, past>>

PollPlaces == {"off", "sleep", "wallet", "transfer", "transferred", "box", "process", "processed"}
DefiPlaces == {"idle", "approve", "approved", "swap", "swapped", "revoke", "bridge", "bridged"}
Work(places) == [at : places, amount : Nat, receipt : {"none", "success", "reverted"}]
Txs == [kind : {"transfer", "process", "approve", "swap", "bridge"}, amount : Nat,
        owner : {"poll", "defi", "nobody"}]

At(place, amount) == [at |-> place, amount |-> amount, receipt |-> "none"]

WdkInit ==
    /\ wallet = 0 /\ box = 0 /\ allowance = 0 /\ mempool = <<>>
    /\ \E seed, registered \in BOOLEAN :
         proc = [up |-> FALSE, isRunning |-> FALSE, seed |-> seed, registered |-> registered]
    /\ poll = At("off", 0) /\ defi = At("idle", 0)
    /\ past = [income |-> 0, swaps |-> 0, faults |-> 0, boots |-> 0, broken |-> FALSE]

-----------------------------------------------------------------------------
(* The chain. *)

\* A customer pays the agent's wallet, or the lockbox directly.
Income(amount) ==
    /\ past.income + amount <= MaxIncome
    /\ past' = [past EXCEPT !.income = @ + amount]
    /\ \/ wallet' = wallet + amount /\ UNCHANGED box
       \/ box' = box + amount /\ UNCHANGED wallet
    /\ UNCHANGED <<allowance, mempool, proc, poll, defi>>

\* Would the transaction succeed in the present state?  This is also the estimate.
Valid(tx) ==
    \/ tx.kind \in {"transfer", "bridge"} /\ wallet >= tx.amount
    \/ tx.kind = "process" /\ box > 0 /\ proc.registered
    \/ tx.kind = "approve"
    \/ tx.kind = "swap" /\ wallet >= tx.amount /\ allowance >= tx.amount

\* transfer, processRevenue (the vault's part leaves, the remainder returns to
\* the agent's wallet), approve, and the router's and the bridge's pulls.
Effect(tx) ==
    /\ wallet' = IF tx.kind = "process" THEN wallet + box - box \div VaultShare
                 ELSE IF tx.kind = "approve" THEN wallet ELSE wallet - tx.amount
    /\ box' = IF tx.kind = "process" THEN 0
              ELSE IF tx.kind = "transfer" THEN box + tx.amount ELSE box
    /\ allowance' = IF tx.kind = "approve" THEN tx.amount
                    ELSE IF tx.kind = "swap" THEN allowance - tx.amount ELSE allowance

\* A block takes the next transaction.  Swaps and bridges may also fail for
\* reasons of their own.
Mine ==
    /\ mempool # <<>>
    /\ LET tx == Head(mempool) IN
       \E result \in {"success", "reverted"} :
         /\ result = "success" => Valid(tx)
         /\ result = "reverted" => ~Valid(tx) \/ tx.kind \in {"swap", "bridge"}
         /\ IF result = "success" THEN Effect(tx) ELSE UNCHANGED <<wallet, box, allowance>>
         /\ poll' = IF tx.owner = "poll" THEN [poll EXCEPT !.receipt = result] ELSE poll
         /\ defi' = IF tx.owner = "defi" THEN [defi EXCEPT !.receipt = result] ELSE defi
    /\ mempool' = Tail(mempool)
    /\ UNCHANGED <<proc, past>>

Submitted(kind, amount, owner) ==
    mempool' = Append(mempool, [kind |-> kind, amount |-> amount, owner |-> owner])

\* Nobody waits any more for the receipts of these owners.
Forgotten(owners) ==
    mempool' = [i \in DOMAIN mempool |->
                  IF mempool[i].owner \in owners THEN [mempool[i] EXCEPT !.owner = "nobody"]
                                                 ELSE mempool[i]]

Fault ==
    /\ past.faults < MaxFaults
    /\ past' = [past EXCEPT !.faults = @ + 1]

-----------------------------------------------------------------------------
(* The process. *)

\* createAgentWallet: the wallet is the last process's if the environment has its
\* seed.  Else a new seed is drawn, which is shown to nobody.
SameWallet == proc.seed \/ past.boots = 0

\* The registered wallet differs from a new one; the diagnostics warn and go on.
StillRegistered == proc.registered /\ SameWallet

\* main: the wallet, then the monitor, whose first poll begins at once.  What the
\* wallet of a lost seed holds is out of reach.  (Its transactions are let settle
\* before.)
Boot ==
    /\ ~proc.up /\ past.boots < MaxBoots
    /\ SameWallet \/ mempool = <<>>
    /\ wallet' = IF SameWallet THEN wallet ELSE 0
    /\ allowance' = IF SameWallet THEN allowance ELSE 0
    /\ past' = [past EXCEPT !.boots = @ + 1]
    /\ proc' = [proc EXCEPT !.up = TRUE, !.isRunning = TRUE, !.registered = StillRegistered]
    /\ poll' = At("wallet", 0)
    /\ UNCHANGED <<box, mempool, defi>>

\* The first signal: stop() clears the timer, a poll in flight goes on.
Shutdown ==
    /\ proc.isRunning
    /\ proc' = [proc EXCEPT !.isRunning = FALSE]
    /\ poll' = IF poll.at = "sleep" THEN At("off", 0) ELSE poll
    /\ UNCHANGED <<wallet, box, allowance, mempool, defi, past>>

\* The exit three seconds after it or at the second signal, an uncaught
\* exception, a kill: whatever was in flight is cut short.
Exit ==
    /\ proc.up
    /\ proc' = [proc EXCEPT !.up = FALSE, !.isRunning = FALSE]
    /\ Forgotten({"poll", "defi"})
    /\ poll' = At("off", 0) /\ defi' = At("idle", 0)
    /\ past' = [past EXCEPT !.broken = @ \/ defi.at # "idle"]
    /\ UNCHANGED <<wallet, box, allowance>>

-----------------------------------------------------------------------------
(* The polling loop. *)

\* Variant: the receipt of the last poll is left in place.
AfterPollUncleared == [poll EXCEPT !.at = IF proc.isRunning THEN "sleep" ELSE "off"]

\* The finally of pollLoop: the next timer, unless the monitor was stopped.
AfterPoll == At(IF proc.isRunning THEN "sleep" ELSE "off", 0)

\* The timer: pollLoop.
PollLoop ==
    /\ poll.at = "sleep" /\ proc.isRunning
    /\ poll' = At("wallet", 0)
    /\ UNCHANGED <<wallet, box, allowance, mempool, proc, defi, past>>

CheckWallet ==
    /\ poll.at = "wallet"
    /\ poll' = IF wallet >= Threshold THEN At("transfer", wallet) ELSE At("box", 0)
    /\ UNCHANGED <<wallet, box, allowance, mempool, proc, defi, past>>

CheckLockbox ==
    /\ poll.at = "box"
    /\ poll' = IF box > 0 THEN At("process", box) ELSE AfterPoll
    /\ UNCHANGED <<wallet, box, allowance, mempool, proc, defi, past>>

\* Variant: the receipt of the transfer is not awaited.
TransferUnawaited ==
    /\ poll.at = "transfer"
    /\ Valid([kind |-> "transfer", amount |-> poll.amount])
    /\ Submitted("transfer", poll.amount, "poll")
    /\ poll' = At("box", 0)
    /\ UNCHANGED <<wallet, box, allowance, proc, defi, past>>

\* transferToLockbox up to the submission: all of the balance read before.
TransferToLockbox ==
    /\ poll.at = "transfer"
    /\ Valid([kind |-> "transfer", amount |-> poll.amount])
    /\ Submitted("transfer", poll.amount, "poll")
    /\ poll' = At("transferred", poll.amount)
    /\ UNCHANGED <<wallet, box, allowance, proc, defi, past>>

CallProcessRevenue ==
    /\ poll.at = "process"
    /\ Valid([kind |-> "process", amount |-> poll.amount])
    /\ Submitted("process", poll.amount, "poll")
    /\ poll' = At("processed", poll.amount)
    /\ UNCHANGED <<wallet, box, allowance, proc, defi, past>>

\* Gas too dear, or an estimate that fails: the transaction is skipped and the
\* poll goes on as if it were done.
Skip ==
    /\ poll.at \in {"transfer", "process"}
    /\ IF Valid([kind |-> poll.at, amount |-> poll.amount]) THEN Fault ELSE UNCHANGED past
    /\ poll' = IF poll.at = "transfer" THEN At("box", 0) ELSE AfterPoll
    /\ UNCHANGED <<wallet, box, allowance, mempool, proc, defi>>

\* A receipt, of success or not: a revert is counted and logged, nothing more.
Confirmed ==
    /\ poll.receipt # "none"
    /\ poll' = IF poll.at = "transferred" THEN At("box", 0) ELSE AfterPoll
    /\ UNCHANGED <<wallet, box, allowance, mempool, proc, defi, past>>

\* Variant: a failed poll is not followed by another.
PollFailsForGood ==
    /\ poll.at \notin {"off", "sleep"} /\ Fault
    /\ Forgotten({"poll"})
    /\ poll' = At("off", 0)
    /\ UNCHANGED <<wallet, box, allowance, proc, defi>>

\* A read, a submission or the wait for a receipt throws: the rest of the poll is
\* dropped, a transaction in the mempool is not.
PollFails ==
    /\ poll.at \notin {"off", "sleep"} /\ Fault
    /\ Forgotten({"poll"})
    /\ poll' = AfterPoll
    /\ UNCHANGED <<wallet, box, allowance, proc, defi>>

-----------------------------------------------------------------------------
(* Swaps and bridge transfers, one at a time. *)

\* The checkGasPrice of swaps: the price is over the maximum.
GasTooDear == Fault

\* The estimateGas of swaps.
Estimated(kind, amount) == Valid([kind |-> kind, amount |-> amount])

Begin(place, amount) ==
    /\ proc.up /\ defi.at = "idle" /\ past.swaps < MaxSwaps
    /\ past' = [past EXCEPT !.swaps = @ + 1]
    /\ defi' = At(place, amount)
    /\ UNCHANGED <<wallet, box, allowance, mempool, proc, poll>>

ExecuteSwap(amount) == Begin("approve", amount)

\* No gas price, no estimate: one transaction, its receipt awaited.
BridgeUSDT0(amount) == Begin("bridge", amount)

\* The approval, the swap (if its estimate still succeeds) or the bridge transfer.
Send ==
    /\ \/ /\ defi.at = "approve"
          /\ Submitted("approve", defi.amount, "defi") /\ defi' = At("approved", defi.amount)
       \/ /\ defi.at = "swap" /\ Estimated("swap", defi.amount)
          /\ Submitted("swap", defi.amount, "defi") /\ defi' = At("swapped", defi.amount)
       \/ /\ defi.at = "bridge"
          /\ Submitted("bridge", defi.amount, "defi") /\ defi' = At("bridged", defi.amount)
    /\ UNCHANGED <<wallet, box, allowance, proc, poll, past>>

\* The first gas price is too high or the approval's estimate fails: return.
\* The swap's estimate fails, rightly or not: revoke.
Refuse ==
    /\ \/ defi.at = "approve" /\ GasTooDear /\ defi' = At("idle", 0)
       \/ defi.at = "swap" /\ defi' = At("revoke", 0) /\ UNCHANGED past
    /\ UNCHANGED <<wallet, box, allowance, mempool, proc, poll>>

\* Variant: a swap that reverted is not followed by the revocation.
NextPlaceForgetful ==
    IF defi.at = "approved" /\ defi.receipt = "success" THEN "swap"
    ELSE IF defi.at = "swapped" /\ defi.receipt = "success" THEN "revoke" ELSE "idle"

\* What a receipt leads to: after the swap, the revocation whatever its status.
NextPlace ==
    IF defi.at = "approved" /\ defi.receipt = "success" THEN "swap"
    ELSE IF defi.at = "swapped" THEN "revoke" ELSE "idle"

Receipt ==
    /\ defi.receipt # "none"
    /\ defi' = At(NextPlace, IF NextPlace = "swap" THEN defi.amount ELSE 0)
    /\ UNCHANGED <<wallet, box, allowance, mempool, proc, poll, past>>

\* revokeApproval: submitted, its receipt not awaited.
RevokeApproval ==
    /\ defi.at = "revoke"
    /\ Submitted("approve", 0, "nobody")
    /\ defi' = At("idle", 0)
    /\ UNCHANGED <<wallet, box, allowance, proc, poll, past>>

\* Anything throws: a result of failure is returned, nothing is revoked.
SwapFails ==
    /\ defi.at # "idle" /\ past.faults < MaxFaults
    /\ past' = [past EXCEPT !.faults = @ + 1, !.broken = TRUE]
    /\ Forgotten({"defi"})
    /\ defi' = At("idle", 0)
    /\ UNCHANGED <<wallet, box, allowance, proc, poll>>

-----------------------------------------------------------------------------
Polling ==
    \/ PollLoop \/ CheckWallet \/ CheckLockbox
    \/ TransferToLockbox \/ CallProcessRevenue \/ Skip \/ Confirmed

Swapping == Send \/ Refuse \/ Receipt \/ RevokeApproval

WdkNext ==
    \/ \E amount \in Amounts : Income(amount) \/ ExecuteSwap(amount) \/ BridgeUSDT0(amount)
    \/ Mine \/ Boot \/ Shutdown \/ Exit
    \/ Polling \/ PollFails
    \/ Swapping \/ SwapFails

\* Blocks go on, and so does a running process: timers fire and awaits end.
WdkSpec == WdkInit /\ [][WdkNext]_wdkVars
           /\ WF_wdkVars(Mine) /\ WF_wdkVars(Polling) /\ WF_wdkVars(Swapping)

-----------------------------------------------------------------------------
(* Properties. *)

\* Types, and where a receipt can be waiting to be read.
WdkTypeOK ==
    /\ {wallet, box, allowance} \subseteq Nat
    /\ mempool \in Seq(Txs)
    /\ proc \in [up : BOOLEAN, isRunning : BOOLEAN, seed : BOOLEAN, registered : BOOLEAN]
    /\ poll \in Work(PollPlaces) /\ defi \in Work(DefiPlaces)
    /\ poll.receipt # "none" => poll.at \in {"transferred", "processed"}
    /\ defi.receipt # "none" => defi.at \in {"approved", "swapped", "bridged"}
    /\ past.faults \in 0..MaxFaults /\ past.boots \in 0..MaxBoots

\* A transaction of the polling loop reverts only if a fault, a restart or a swap
\* came between: on its own the loop never spends a balance twice, because it
\* waits for each receipt (revenue.ts:215-217).
RevertsNeedARace ==
    poll.receipt = "reverted" => past.faults > 0 \/ past.boots > 1 \/ past.swaps > 0

\* A swap that ended without an exception leaves the router no allowance once the
\* mempool is empty, also when the approved swap reverted or was refused
\* (defi.ts:279-332).
AllowanceIsRevoked ==
    defi.at = "idle" /\ mempool = <<>> /\ ~past.broken => allowance = 0

\* While the agent runs, revenue in its wallet over the threshold reaches the
\* lockbox and what the lockbox holds is processed, through errors, receipts that
\* never came and restarts (revenue.ts:102-126, the loop that always reschedules).
RevenueIsRouted ==
    /\ wallet >= Threshold ~> wallet < Threshold \/ ~proc.isRunning
    /\ box > 0 /\ proc.registered ~> box = 0 \/ ~proc.isRunning
=============================================================================
