----------------------------- MODULE MCFrontend -----------------------------
(* A small instance of Frontend: a seed the user brings and one that is    *)
(* drawn, two forms one of which the search finds, a demo agent.           *)
EXTENDS Frontend

CONSTANTS f1, f2
Budget(loads, faults, wallets, deploys, keys, deposits) ==
    [loads |-> loads, faults |-> faults, wallets |-> wallets, deploys |-> deploys,
     keys |-> keys, deposits |-> deposits]
\* Reloads and errors while a wallet is made; errors, two wallets and a reload
\* while agents are registered; a search; deposits.
MCBudgets == {Budget(1, 1, 3, 0, 0, 0), Budget(0, 1, 1, 2, 0, 0), Budget(0, 0, 2, 2, 0, 0),
              Budget(1, 0, 1, 1, 2, 0), Budget(0, 0, 2, 0, 0, 3)}

\* A filter that keeps one form and no demo agent.
MCKeeps == [filter \in Filters |->
    IF filter = NoFilter THEN [forms |-> Forms, demo |-> Demo] ELSE [forms |-> {f2}, demo |-> {}]]
MCHits == [text \in Texts |-> IF text = NoText THEN Forms ELSE {f1}]
=============================================================================
