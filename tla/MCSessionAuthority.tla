------------------------- MODULE MCSessionAuthority -------------------------
(* SessionAuthority with two requests in flight; the slots, and the users, *)
(* are interchangeable.                                                    *)
EXTENDS SessionAuthority, TLC

CONSTANTS r1, r2, u1, u2

MCRequests == {r1, r2}
MCUsers == {u1, u2}
OneUser == {u1}
MCRoles == {"admin", "auditor"}
Administration == {"insert", "delete", "update", "password"}
All == {"insert", "delete", "update", "password", "enroll", "confirm", "disable", "regenerate"}
Symmetry == Permutations(MCRequests) \cup Permutations(MCUsers)

=============================================================================
