SPECIFICATION Spec
CONSTANTS
  NRules = 3
  Occurrence <- MCOnce
  Timeout <- MCTimeout
  RuleRisk <- MCRuleRisk
  Sticky <- NoSticky
  AllRules = FALSE
  Lifetime = 0
  Slack = 1
  e1 = e1
  e2 = e2
  e3 = e3
  e4 = e4
  e5 = e5
  e6 = e6
  Events = {e1, e2, e3}
  Initial = e1
  Matches <- MCMatches
  Touches <- MCTouches
  Value <- MCValue
  Ts <- MCTs
  Dated <- MCDated
  Procs = {p1, p2}
  Starter = p1
  p1 = p1
  p2 = p2
  Now = 12
  MaxClock = 14
  Spaced = FALSE
  NoEvent = NoEvent
INVARIANT CompleteWhenLastReached
