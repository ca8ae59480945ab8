----------------------------- MODULE MCBacklog -----------------------------
(* Small directives and event streams for Backlog. *)
EXTENDS Backlog, TLC

CONSTANTS e1, e2, e3, e4, e5, e6, p1, p2

MCOccurrence == <<1, 2, 1>>
MCTimeout    == <<0, 1, 1>>
MCRuleRisk   == <<0, 1, 2>>
MCSticky     == <<FALSE, TRUE, FALSE>>
NoSticky     == <<FALSE, FALSE, FALSE>>
MCOnce       == <<1, 1, 1>>

\* e1 opens the backlog; e2..e4 are for the second rule, e4 repeats a value
\* and also fits the third; e5 fits the first and the last, and is
\* late when e3 was the one that completed the second; e6 fits the last.
MCMatches == [e \in Events |-> CASE e = e1 -> {1} [] e = e4 -> {2, 3}
                                 [] e = e5 -> {1, 3} [] e = e6 -> {3}
                                 [] OTHER -> {2}]
MCTouches == [e \in Events |-> MCMatches[e] \cup IF e = e5 THEN {2} ELSE {}]
MCValue   == [e \in Events |-> CASE e = e3 -> 2 [] e = e5 -> 3 [] OTHER -> 1]
MCTs      == [e \in Events |-> CASE e = e3 -> 12 [] e \in {e4, e6} -> 11
                                 [] OTHER -> 10]

\* e4 has no valid timestamp in the run with all rules.
MCDated   == Events \ (IF AllRules THEN {e4} ELSE {})
=============================================================================
