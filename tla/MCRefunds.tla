------------------------------- MODULE MCRefunds -------------------------------
(* Small instances of Refunds for TLC. *)
EXTENDS Refunds, TLC

AnyIntent == BOOLEAN
KnownIntent == {TRUE}

\* Not for liveness.
Symmetry == Permutations(Requests)
=============================================================================
