-------------------------- MODULE MCRuleManagement --------------------------
(* Instance of RuleManagement for TLC. *)
EXTENDS RuleManagement, TLC

CONSTANTS t1, t2, m1, m2

MCTabs == {t1, t2}
MCModules == {m1, m2}
MCSearches == SUBSET MCModules
MCRuleNames == {"body_regex", "scanners", "other"}

Good == [object |-> TRUE, fields |-> "all", match |-> TRUE]
Broken == [object |-> TRUE, fields |-> "missing", match |-> TRUE]

Text == [form |-> "text", rules |-> <<>>]
Bundle == [form |-> "bundle", rules |-> <<Good>>]
Mixed == [form |-> "bundle", rules |-> <<Good, Broken>>]
MCContents == {[form |-> "blank", rules |-> <<>>], Text, Bundle, Mixed}
MCInstalled == [l \in Lists |-> IF l = "scanners" THEN Text ELSE Bundle]

Symmetry == Permutations(MCTabs) \cup Permutations(MCModules)
=============================================================================
