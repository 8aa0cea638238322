-------------------------- MODULE GerritOnboarding --------------------------
(***************************************************************************)
(* What the Gerrit controller promises to whoever waits for the CR to be   *)
(* available: the operator first takes over Gerrit's admin account, then   *)
(* provisions the CI user with it, and announces Gerrit as available only  *)
(* after that.  None of the three is ever undone.  The takeover may also   *)
(* leave an admin account without rights: that is never mended, and then   *)
(* Gerrit may be announced although nothing was provisioned.               *)
(***************************************************************************)
VARIABLES adminOwned,     \* the stored credentials log in as admin
          unprivileged,   \* they log in, but as an account without rights
          ciProvisioned,  \* the stored credentials log in as an administrator
          announced       \* the CR says that Gerrit is available

vars == <<adminOwned, unprivileged, ciProvisioned, announced>>

\* A CR of an older release may already have come as far as the CI user.
Init ==
    /\ adminOwned \in BOOLEAN
    /\ unprivileged = FALSE
    /\ ciProvisioned = adminOwned
    /\ announced = FALSE

TakeOverAdmin ==
    /\ ~adminOwned /\ ~unprivileged
    /\ adminOwned' = TRUE
    /\ UNCHANGED <<unprivileged, ciProvisioned, announced>>

FailTakeOver ==
    /\ ~adminOwned /\ ~unprivileged
    /\ unprivileged' = TRUE
    /\ UNCHANGED <<adminOwned, ciProvisioned, announced>>

ProvisionCi ==
    /\ adminOwned
    /\ ~ciProvisioned
    /\ ciProvisioned' = TRUE
    /\ UNCHANGED <<adminOwned, unprivileged, announced>>

Announce ==
    /\ ciProvisioned \/ unprivileged
    /\ ~announced
    /\ announced' = TRUE
    /\ UNCHANGED <<adminOwned, unprivileged, ciProvisioned>>

Next == TakeOverAdmin \/ FailTakeOver \/ ProvisionCi \/ Announce

Spec == Init /\ [][Next]_vars
=============================================================================
