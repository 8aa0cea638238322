------------------------------ MODULE CrFinalizer ------------------------------
(***************************************************************************)
(* What the finalizer of a CR promises (controllers/helper, TryToDelete):  *)
(* it is put on live CRs only, a deleted CR that has it stays until it is  *)
(* taken off, and it is taken off only when what the CR stands for in      *)
(* Gerrit has been cleaned up.  The controllers implement this, each with  *)
(* its own idea of what is clean.                                          *)
(***************************************************************************)

CONSTANT Names       \* the CRs' names

VARIABLES phase,     \* of each CR: "absent", "live" or "deleting"
          held,      \* it has the finalizer
          clean      \* Gerrit has nothing of it (an input: anybody may change it)

vars == <<phase, held>>

Init ==
    /\ phase \in [Names -> {"absent", "live"}]
    /\ held = [n \in Names |-> FALSE]

Becomes(n, p, h) ==
    /\ phase' = [phase EXCEPT ![n] = p]
    /\ held' = [held EXCEPT ![n] = h]

Create(n)  == phase[n] = "absent" /\ Becomes(n, "live", FALSE)
Hold(n)    == phase[n] = "live" /\ Becomes(n, "live", TRUE)
Delete(n)  == phase[n] = "live" /\ Becomes(n, IF held[n] THEN "deleting" ELSE "absent", held[n])
Release(n) == phase[n] = "deleting" /\ clean'[n] /\ Becomes(n, "absent", FALSE)

Next == \E n \in Names : Create(n) \/ Hold(n) \/ Delete(n) \/ Release(n)

Spec == Init /\ [][Next]_vars

=============================================================================
