---------------------------- MODULE MCAgentVault ----------------------------
(* A small instance of AgentVault. *)
EXTENDS AgentVault, TLC

CONSTANTS b1, b2

MCBackers == {b1, b2}

MCRepayments == {[amount |-> 3, interest |-> 1], [amount |-> 3, interest |-> 3]}

Symmetric == Permutations(MCBackers)
=============================================================================
