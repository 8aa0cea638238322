SPECIFICATION Spec
CONSTANTS
  OwnerNamed = TRUE
  UserActions = {"submit", "abandon", "restore", "delete"}
  MaxChanges = 3
INVARIANTS
  TypeOK
  RecordedWasPushed
PROPERTY
  RecordedNeverReplaced
CHECK_DEADLOCK FALSE
