-------------------------- MODULE MCBacklogManager --------------------------
(* One directive of three rules, the last of them a taxonomy rule. *)
EXTENDS BacklogManager, TLC

CONSTANTS first, both, taxo, k1, k2, k3

\* `first' satisfies the first rule only and comes twice; `both' all three,
\* twice; `taxo' the last, whose pair the quick check does not look at.
MCTypes      == [i \in Stages |-> IF i < 3 THEN "PluginRule" ELSE "TaxonomyRule"]
MCMatches    == [e \in Events |-> CASE e = first -> {1}
                                    [] e = both -> {1, 2, 3} [] OTHER -> {3}]
MCPairs      == [e \in Events |-> IF e = taxo THEN {3} ELSE {1, 2, 3}]
MCDeliveries == [e \in Events |-> IF e = taxo THEN 1 ELSE 2]
=============================================================================
