SPECIFICATION DashboardSpec
CONSTANTS
  c1 = c1
  c2 = c2
  Absent = Absent
  Contents <- MCContents
  Outcomes <- MCOutcomes
  Actions <- MCActions
  Moved <- MCMoved
  Rejections <- MCRejections
  MaxVersion = 3
  MaxAttempt = 2
  MaxStarts = 3
  MaxRevision = 2
  MaxDeaths = 1
INVARIANTS
  ShownIsNewestResult
  PassedRowSucceeded
  RetriedRebuildIsOneVersion
SYMMETRY ContentSymmetry
CHECK_DEADLOCK FALSE
