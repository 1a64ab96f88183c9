-------------------------- MODULE MCLoginThrottle --------------------------
EXTENDS LoginThrottle, TLC

CONSTANTS u, v

\* Two accounts behind one address, one of them with a second factor.
MCTargets == {<<"login", u>>, <<"login", v>>, <<"mfa", u>>}

\* Attempts are interchangeable.
Symmetry == Permutations(Requests)

=============================================================================
