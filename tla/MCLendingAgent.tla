--------------------------- MODULE MCLendingAgent ---------------------------
(* A small instance of LendingAgent: the agent it watches and a peer.      *)
EXTENDS LendingAgent

Poor == [score |-> 20, limit |-> 2, rate |-> 2500]
Good == [score |-> 90, limit |-> 4, rate |-> 500]
MCGrades == {Poor, Good}

At(registered, status, due, debt, grade) ==
    [registered |-> registered, status |-> status, due |-> due, debt |-> debt, grade |-> grade]

\* Overdue and not updated, with an idle peer; delinquent, with one that is not
\* registered; the lockbox in its first epoch and in its third.
MCStarts ==
    {[agents |-> <<At(TRUE, 0, 2, 1, Good), At(TRUE, 0, 0, 0, Poor)>>, box |-> <<0>>],
     [agents |-> <<At(TRUE, 1, 1, 1, Poor), At(FALSE, 0, 0, 0, Poor)>>, box |-> <<2, 0, 0>>]}
=============================================================================
