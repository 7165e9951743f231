\* One confirmation at a time, two executions with a retry, a new revision and a crash.
SPECIFICATION CompletionSpec
CONSTANTS
  Callers = {c1}
  Keys = {k1, k2}
  Others = {manual, external}
  MaxRevision = 2
  MaxAttempt = 2
  MaxDeaths = 1
SYMMETRY Symmetry
INVARIANT CompletionIsBacked
CHECK_DEADLOCK FALSE
