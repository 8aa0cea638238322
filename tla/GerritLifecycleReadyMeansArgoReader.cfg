SPECIFICATION Spec
CONSTANTS
  Cred = {c1, c2}
  DefaultPassword = secret
  None = none
  FirstStatuses = {"none"}
  NodePort <- MCNodePort
  EnvPorts = {0}
  PodCounts = {1}
  KeycloakEnabled = FALSE
INVARIANT
  ReadyMeansArgoReader
