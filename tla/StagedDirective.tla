--------------------------- MODULE StagedDirective ---------------------------
(***************************************************************************)
(* What docs/directive_and_alarm.md promises of a backlog, without the     *)
(* goroutines: events are counted for the current stage until its          *)
(* occurrence is reached, the risk of the stage is assessed, evaluation    *)
(* moves to the next stage, and the backlog is closed when the last stage  *)
(* is complete or when it is given up.                                     *)
(***************************************************************************)
EXTENDS Naturals, FiniteSets

CONSTANTS NRules, Occurrence, RuleRisk, AllRules, Events

VARIABLES stage, matched, risk, open

vars == <<stage, matched, risk, open>>

Full(i) == Cardinality(matched[i]) >= Occurrence[i]

New(e) == \A i \in 1..NRules : e \notin matched[i]

Init ==
  /\ stage = 1
  /\ matched = [i \in 1..NRules |-> {}]
  /\ risk = 0
  /\ open = TRUE

\* An event counts once, and never beyond the occurrence of an inner stage.
Count(e) ==
  /\ ~Full(stage) /\ New(e)
  /\ matched' = [matched EXCEPT ![stage] = @ \cup {e}]
  /\ UNCHANGED <<stage, risk, open>>

\* The last stage, complete and assessed, collects what comes until the backlog
\* has been closed, and what is at hand by then.
CountLast(e) ==
  /\ stage = NRules /\ Full(stage) /\ risk = RuleRisk[stage] /\ New(e)
  /\ matched' = [matched EXCEPT ![stage] = @ \cup {e}]
  /\ UNCHANGED <<stage, risk, open>>

\* Under AllRulesAlwaysActive a finished stage may collect more events.
CountEarlier(e) ==
  /\ AllRules /\ New(e)
  /\ \E i \in 1..(stage - 1) : matched' = [matched EXCEPT ![i] = @ \cup {e}]
  /\ UNCHANGED <<stage, risk, open>>

Assess ==
  /\ Full(stage)
  /\ risk' = RuleRisk[stage]
  /\ UNCHANGED <<stage, matched, open>>

Advance ==
  /\ Full(stage) /\ risk = RuleRisk[stage] /\ stage < NRules
  /\ stage' = stage + 1
  /\ UNCHANGED <<matched, risk, open>>

Close ==
  /\ open' = FALSE
  /\ UNCHANGED <<stage, matched, risk>>

Next == \/ \E e \in Events : Count(e) \/ CountLast(e) \/ CountEarlier(e)
        \/ Assess \/ Advance \/ Close

Spec == Init /\ [][Next]_vars
=============================================================================
