\* Two runners, two conflicting downloads of one post, the observation of its completion,
\* and one fault: a crash or a failed copy.
SPECIFICATION FairSpec
CONSTANTS
  None = None
  Runners = {r1, r2}
  b1 = b1
  b2 = b2
  o1 = o1
  t1 = t1
  x = x
  y = y
  c1 = c1
  c2 = c2
  done = done
  Bundles = {b1, b2, o1}
  Observations = {o1}
  IdOf <- SamePost
  ContentOf <- Conflicting
  TaskOf <- OneTask
  MaxFaults = 1
INVARIANT NothingIsLost
PROPERTIES AcceptedAtOnce WholeIsTaken
CHECK_DEADLOCK FALSE
