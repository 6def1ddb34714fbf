-------------------------- MODULE MCRevenueLockbox --------------------------
(* A small instance of RevenueLockbox composed with the credit line. *)
EXTENDS RevenueLockbox

\* One choice where an overdue debt is first delinquent, and one where the owner
\* has set the default period below the grace period, as the setters allow.
MCPeriods == {[grace |-> 1, default |-> 2], [grace |-> 2, default |-> 1]}

MCOffers == {[limit |-> 3, rate |-> 2]}
=============================================================================
