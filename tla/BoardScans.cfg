SPECIFICATION Spec
CONSTANTS
  a1 = a1
  a2 = a2
  None = None
  Posts <- MCPosts
  Menu <- MCMenu
  Titles <- MCTitles
  StartsWith <- MCStartsWith
  Pages <- MCPages
  Htmls <- MCHtmls
  KeyOf <- MCKeyOf
  AttachmentsOf <- MCAttachmentsOf
  Keep = 1
  MaxFaults = 1
  MaxChanges = 1
  MaxClicks = 1
INVARIANTS
  ReadyIsComplete
  LedgerIsPublished
  PendingIsNotForgotten
PROPERTIES
  RecoveryIsTold
  DeliveredOnce
SYMMETRY Views
CHECK_DEADLOCK FALSE
