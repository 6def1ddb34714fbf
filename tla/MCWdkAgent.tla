----------------------------- MODULE MCWdkAgent -----------------------------
(* A small instance of WdkAgent: payments and swaps of one or two tokens. *)
EXTENDS WdkAgent
=============================================================================
