\* One call at a time against decisions, revisions, activations and edits, and
\* an operator who recovers what is still running, over two attempts.
SPECIFICATION Spec
CONSTANTS
  None = None
  Workers = {w1}
  Recipes = {r1}
  Inputs = {i1, i2}
  RebuildIds = {}
  Stamps = {1}
  MaxRevision = 2
  MaxDefinition = 2
  MaxDecisions = 2
  MaxAttempt = 2
  MaxCrashes = 0
  RecoverLive = TRUE
SYMMETRY InputSymmetry
CHECK_DEADLOCK FALSE
INVARIANTS
  ClaimHonoursLatestDecision
  ApprovedDefinitionRuns
  ApprovedInputRuns
