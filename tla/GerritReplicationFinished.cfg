SPECIFICATION Spec
CONSTANTS
  SelectorMatches = TRUE
  SshTemplate = FALSE
  MaxRemotes = 0
INVARIANT
  ConfiguredMeansReplicating
CHECK_DEADLOCK FALSE
