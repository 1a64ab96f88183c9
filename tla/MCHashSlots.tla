---------------------------- MODULE MCHashSlots ----------------------------
(* HashSlots with four requests of any kinds, in one order of the kinds: the *)
(* requests are interchangeable.                                             *)
EXTENDS HashSlots

CONSTANTS r1, r2, r3, r4

MCRequests == {r1, r2, r3, r4}
Rank == [first_time |-> 1, insert |-> 2, password |-> 3, sign_in |-> 4]
MCLoads == {k \in [MCRequests -> DOMAIN Rank] :
              /\ Rank[k[r1]] <= Rank[k[r2]]
              /\ Rank[k[r2]] <= Rank[k[r3]]
              /\ Rank[k[r3]] <= Rank[k[r4]]}
=============================================================================
