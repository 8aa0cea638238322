--------------------------- MODULE MCGerritProjects ---------------------------
(* Instances of GerritProjects: one project with a CR of people and the syncer's,
   and two projects with the syncer's. *)
EXTENDS GerritProjects

OneProject == {"app"}
TwoNames == {"app", "gerrit-app"}
BothOfApp == [n \in TwoNames |-> "app"]
Prefixed == [p \in OneProject |-> "gerrit-app"]

TwoProjects == {"app", "lib"}
OneNameEach == {"gerrit-app", "gerrit-lib"}
OfEach == [n \in OneNameEach |-> IF n = "gerrit-app" THEN "app" ELSE "lib"]
NameOfEach == [p \in TwoProjects |-> IF p = "app" THEN "gerrit-app" ELSE "gerrit-lib"]

\* Calls that stop failing only take steps away: safety is checked before they do.
Failing == ~calm

\* One project and its CR while calls fail; two when none fails from the start.
LivenessInit == Init /\ projects \in SUBSET (IF calm THEN Projects ELSE {"app"})

LivenessNext == Next /\ (calm \/ crs'["gerrit-lib"].phase = "absent")

LivenessSpec == LivenessInit /\ [][LivenessNext]_vars /\ Fairness

=============================================================================
