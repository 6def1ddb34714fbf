---------------------------- MODULE MCCreditLine ----------------------------
(* A small instance of CreditLine. *)
EXTENDS CreditLine

MCPeriods == {[grace |-> 1, default |-> 2]}

MCOffers == {[limit |-> 4, rate |-> 1], [limit |-> 3, rate |-> 3]}
=============================================================================
