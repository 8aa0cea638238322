SPECIFICATION Spec
CONSTANTS
  Cred = {c1, c2}
  DefaultPassword = secret
  None = none
  FirstStatuses = {"none", "failed", "integration"}
  NodePort <- MCNodePort
  EnvPorts <- MCEnvPorts
  PodCounts <- MCPodCounts
  KeycloakEnabled = TRUE
INVARIANTS
  TypeOK
  CiPasswordMatches
  ExposedMeansCiProvisioned
  RulesNameExistingGroups
  NothingForgotten
PROPERTIES
  LockedOutOnlyByTheScript
  ReadySeenStaysReady
  AvailableNeverRevoked
  ImplementsOnboarding
