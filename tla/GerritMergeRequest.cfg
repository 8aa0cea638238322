SPECIFICATION FairSpec
CONSTANTS
  OwnerNamed = TRUE
  UserActions = {"submit", "abandon", "delete"}
  MaxChanges = 2
INVARIANTS
  TypeOK
  RecordedWasPushed
  NothingForgotten
PROPERTIES
  RecordedNeverReplaced
  OpensItsChange
  ReportsTheMerge
  DeletionClosesTheChange
  ImplementsFinalizer
  DeletionCompletes
CHECK_DEADLOCK FALSE
