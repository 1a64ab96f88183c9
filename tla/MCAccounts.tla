----------------------------- MODULE MCAccounts -----------------------------
(* Accounts with two requests in flight; slots, addresses and passwords are *)
(* interchangeable.                                                         *)
EXTENDS Accounts, TLC

CONSTANTS r1, r2, e1, e2, p1, p2

MCRequests == {r1, r2}
MCEmails == {e1, e2}
MCPasswords == {p1, p2}
MCNames == {"admin", "other"}
MCRoles == {"admin", "auditor"}
Symmetry == Permutations(MCRequests) \cup Permutations(MCEmails) \cup Permutations(MCPasswords)

=============================================================================
