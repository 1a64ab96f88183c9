---------------------------- MODULE OneTimeCodes ----------------------------
(***************************************************************************)
(* What the second factor promises, with no word about tables, requests or *)
(* clocks: a one-time code is accepted at most once in its life, and a     *)
(* code that was withdrawn (spent, overtaken by a later time-step,         *)
(* replaced by a fresh set, or gone with its enrollment) never comes back. *)
(* OperatorMfa.tla, the detailed model of the MFA repository and of the    *)
(* handlers that call it, is shown to implement this specification.        *)
(***************************************************************************)
EXTENDS Naturals

CONSTANT Code            \* every code that may ever be issued

VARIABLES offered,       \* codes that a challenge would accept now
          withdrawn,     \* codes that no challenge will accept again
          accepted       \* how many times each code was accepted

vars == <<offered, withdrawn, accepted>>

Init ==
    /\ offered = {}
    /\ withdrawn = {}
    /\ accepted = [c \in Code |-> 0]

\* The life of the codes in every step: withdrawing is for ever, and a code
\* leaves the offer only by being withdrawn.
Retire ==
    /\ withdrawn \subseteq withdrawn'
    /\ offered' \cap withdrawn' = {}
    /\ offered \subseteq offered' \cup withdrawn'

\* A code is accepted: it was still good before the step and is spent after it.
Accept(c) ==
    /\ c \notin withdrawn
    /\ c \in withdrawn'
    /\ accepted' = [accepted EXCEPT ![c] = @ + 1]
    /\ Retire

\* Codes are issued, replaced or withdrawn, and nobody is let in.
Administer ==
    /\ Retire
    /\ UNCHANGED accepted

Next == Administer \/ \E c \in Code : Accept(c)

Spec == Init /\ [][Next]_vars

=============================================================================
