\* Two commands at a time on two declarations, up to three sessions that pass, an
\* upgrade, and crashes anywhere.
SPECIFICATION Spec
CONSTANTS
  None = None
  Workers = {w1, w2}
  Contents = {a, b}
  Tasks = {t1}
  MaxVersion = 2
  MaxCapability = 2
  MaxSessions = 3
SYMMETRY Symmetry
INVARIANTS PointerIsReadable ActiveWasTestedAndReviewed EvidenceIsForDeclaration
CHECK_DEADLOCK FALSE
