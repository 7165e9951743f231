\* Two fair calls over the initial execution and a rebuild of one task: retries, two crashes, and
\* an operator who recovers a dead call, or dies in it.
SPECIFICATION FairSpec
CONSTANTS
  None = None
  Workers = {w1, w2}
  Recipes = {r1}
  Inputs = {i1}
  RebuildIds = {b1}
  Stamps = {1}
  MaxRevision = 1
  MaxDefinition = 1
  MaxDecisions = 1
  MaxAttempt = 2
  MaxCrashes = 2
  RecoverLive = FALSE
CHECK_DEADLOCK FALSE
INVARIANTS
  InFlightNotRerun
  SucceededInPlace
  QuarantineHasRoom
  PassedAttemptDidNotFail
  DirectoryHasOneKey
PROPERTIES
  Lifecycle
  ExecutingSettles
