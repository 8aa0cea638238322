SPECIFICATION FairSpec
CONSTANTS
  SelectorMatches = TRUE
  SshTemplate = TRUE
  MaxRemotes = 3
INVARIANTS
  TypeOK
  AppendedOnce
  NothingForgotten
PROPERTIES
  ConfiguredIsFinal
  FinishesConfiguration
CHECK_DEADLOCK FALSE
