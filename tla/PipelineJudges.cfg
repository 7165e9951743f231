\* One task in two contents, two runs that may overlap, a failure, a change of policy.
SPECIFICATION Spec
CONSTANTS
  None = None
  Runs = {p1, p2}
  x = x
  y = y
  c1 = c1
  c2 = c2
  c3 = c3
  c4 = c4
  rec = rec
  Captures <- Post
  Contents = {x, y}
  Features <- Words
  Rules <- PopupRule
  Patterns <- TablePattern
  Evaluations <- Levels
  AutoRisks = {"read_only"}
  Recipes = {rec}
  Applicable <- Everywhere
  Replies <- Answers
  SureClass = 6
  SureRoute = 7
  MaxRuns = 2
  MaxFaults = 1
  MaxChanges = 1
INVARIANTS VerdictsAreBound ModelNeverActs PartialIsNeverJudged RevisionNamesOneContent QuietIsJudged
CHECK_DEADLOCK FALSE
