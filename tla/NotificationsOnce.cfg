SPECIFICATION Spec
CONSTANTS
  Workers = {w1, w2}
  States = {"blocked", "failed"}
  Channels = {"local", "telegram"}
  Ids = {"default"}
  Offered <- MCOffered
  Refused = {"classification_review"}
  None = None
  MaxCalls = 3
  MaxCrashes = 1
  MaxSaves = 1
SYMMETRY WorkerSymmetry
PROPERTY DeliveredIsNotResent
INVARIANT AttemptsAreCounted
CHECK_DEADLOCK FALSE
