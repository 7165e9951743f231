\* Two processes that review, promote and decide, over two rival patterns.
SPECIFICATION Spec
CONSTANTS
  None = None
  Patterns = {p1, p2}
  Workers = {w1, w2}
  Voices = {owner}
  Conflicts <- Rivals
  Thin = {}
  MaxDecisions = 3
  MaxCrashes = 1
SYMMETRY Symmetry
INVARIANTS WithdrawnIsSuspended ActiveRulesAgree
PROPERTY ActivationHonoursLatestDecision
CHECK_DEADLOCK FALSE
