-------------------------- MODULE MCOrderLifecycle --------------------------
(* Small instances of OrderLifecycle for TLC. *)
EXTENDS OrderLifecycle, TLC

CONSTANTS c1, c2, w1, w2

TwoClients == {c1, c2}
OneWorker  == {w1}
TwoWorkers == {w1, w2}

Symmetry == Permutations(Client)

\* The adapter answers, or fails before or after creating the order, but the
\* outcome is never left unknown: recovery runs only at startup.
DefiniteAnswers == {"accepted", "failed", "rejected"}

\* Every outcome but the loss of the connection.
UncertainAnswers == {"accepted", "failed", "rejected", "timeout", "lost"}

AllAnswers == Answer

=============================================================================
