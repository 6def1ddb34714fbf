----------------------------- MODULE MCRecovery -----------------------------
(* A small instance of Recovery. *)
EXTENDS Recovery

MCPeriods == {[grace |-> 0, default |-> 1]}

MCOffers == {[limit |-> 4, rate |-> 1]}

MCTerms == {[multiplier |-> 6, minPrice |-> 2, duration |-> 2]}
=============================================================================
