------------------------- MODULE MCGerritLifecycle -------------------------
(* Instance of GerritLifecycle for TLC. *)
EXTENDS GerritLifecycle

\* 0: LISTEN_ADDR is not set, or set to something without a number.
MCNodePort == 30022
MCEnvPorts == {0, MCNodePort}
\* One pod; or two, one of them evicted or still terminating.
MCPodCounts == {1, 2}
=============================================================================
