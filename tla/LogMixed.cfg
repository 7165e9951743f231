\* Two writers with the lock and two without, and a crash at any point.
SPECIFICATION Spec
CONSTANTS
  Serialised = {s1, s2}
  Direct = {d1, d2}
  Ids = {a, b}
  MaxLines = 3
  MaxCrashes = 1
SYMMETRY Symmetry
INVARIANTS SerialisedNeverRepeat ReadableKeepsAcks
CHECK_DEADLOCK FALSE
