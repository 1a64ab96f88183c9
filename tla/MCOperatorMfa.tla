---------------------------- MODULE MCOperatorMfa ----------------------------
(* OperatorMfa with two requests in flight; the slots are interchangeable. *)
EXTENDS OperatorMfa, TLC

CONSTANTS r1, r2

MCRequests == {r1, r2}
Symmetry == Permutations(MCRequests)

=============================================================================
