SPECIFICATION FairSpec
CONSTANTS
  OwnerNamed = FALSE
  UserActions = {"submit", "abandon", "delete"}
  MaxChanges = 2
PROPERTY
  OpensItsChangeInTheFirstGerrit
CHECK_DEADLOCK FALSE
