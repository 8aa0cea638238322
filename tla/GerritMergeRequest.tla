------------------------- MODULE GerritMergeRequest -------------------------
(***************************************************************************)
(* The GerritMergeRequest controller (controllers/merge_request) with the  *)
(* git client and the part of the Gerrit client it uses: it pushes a       *)
(* change for review, follows the change until it is closed, and abandons  *)
(* it when the CR is deleted.                                              *)
(*                                                                         *)
(* One worker reconciles one CR.  As in GerritLifecycle an action is one   *)
(* call with the code up to the next one, calls fail before or after their *)
(* effect, and the CR is read from a cache of any age.  Unlike there, only *)
(* new, edited and deleted CRs are queued by the watch (isSpecUpdated).    *)
(***************************************************************************)
EXTENDS Naturals, Sequences

CONSTANTS OwnerNamed,  \* spec.ownerName names the Gerrit CR
          UserActions, \* what people do to changes in Gerrit
          MaxChanges   \* bound: once reached, nothing fails and no run starts
                       \* from an old copy of the CR any more

ASSUME SwitchAssumption == OwnerNamed \in BOOLEAN
ASSUME UserAssumption == UserActions \subseteq {"submit", "abandon", "restore", "delete"}
ASSUME BoundAssumption == MaxChanges \in Nat

VARIABLES cr,       \* the CR in the API server
          cache,    \* the informer's copy of it, which Get returns
          queued,   \* the work queue holds the CR's key
          edited,   \* the spec was edited since the cache was brought up to date
          pc,       \* the handler's next call; "idle" between reconciliations
          inst,     \* the handler's in-memory CR
          new,      \* the number of the change the handler is creating, or 0
          dir,      \* the clone of the project is in the work directory
          changes,  \* the statuses of the changes pushed for this CR, in order
          gerrit,   \* the Gerrit CR exists
          calm      \* TRUE once calls have stopped failing (environment)

kube  == <<cr, cache, edited>>
local == <<queued, pc, inst, new>>
vars  == <<cr, cache, queued, edited, pc, inst, new, dir, changes, gerrit, calm>>

Phases == {"live", "deleting", "gone"}
Values == {"", "NEW", "MERGED", "ABANDONED", "error"}
ChangeStatuses == {"NEW", "MERGED", "ABANDONED", "deleted"}

\* The CR's deletion state, finalizer, owner reference, whether its spec has a
\* source branch or a config map, and its status.
Cr == [phase : Phases, finalizer : BOOLEAN, owned : BOOLEAN, complete : BOOLEAN,
       changeId : Nat, value : Values]
NewCr == [phase |-> "live", finalizer |-> FALSE, owned |-> FALSE, complete |-> TRUE,
          changeId |-> 0, value |-> ""]

\* A copy of the CR, and whether it still is the API server's version.
CopyOf(c, fresh) == [cr |-> c, fresh |-> fresh]
NoInst == CopyOf(NewCr, FALSE)

ControlPoints ==
    {"idle", "gitClient", "clone", "build", "push", "cleanup", "cleanupFailed",
     "owner", "get", "addFinalizer", "deleteOwner", "deleteGet", "abandon",
     "removeFinalizer", "status"}

Init ==
    /\ cr \in {NewCr, [NewCr EXCEPT !.complete = FALSE]}
    /\ cache = CopyOf(cr, TRUE)
    /\ queued = TRUE
    /\ edited = FALSE
    /\ pc = "idle"
    /\ inst = NoInst
    /\ new = 0
    /\ dir = FALSE
    /\ changes = <<>>
    /\ gerrit = TRUE
    /\ calm = FALSE

----------------------------------------------------------------------------
(* How the handler goes on. *)

Trouble == ~calm /\ Len(changes) < MaxChanges

Goto(p) == pc' = p /\ UNCHANGED <<queued, inst, new>>

Return(again) ==
    /\ pc' = "idle"
    /\ queued' = (queued \/ again)
    /\ inst' = NoInst
    /\ new' = 0

\* tryReconcile returns an error, which becomes the CR's status.
Fail ==
    /\ pc' = "status"
    /\ inst' = [inst EXCEPT !.cr.value = "error"]
    /\ new' = 0
    /\ UNCHANGED queued

\* The call has had its effect; its answer may be lost.
Then(p) == Goto(p) \/ (Trouble /\ Fail)

\* The API server takes a write only of the current version; the handler's copy
\* becomes what the server returns.
Update(c, copy) ==
    /\ inst.fresh
    /\ cr' = c
    /\ cache' = [cache EXCEPT !.fresh = FALSE]
    /\ inst' = copy
    /\ UNCHANGED edited

\* A write of anything but the status brings back the server's copy of the CR, or
\* its answer is lost.
UpdateAnd(c, copy, next) ==
    \/ Update(c, copy) /\ pc' = next /\ UNCHANGED <<queued, new>>
    \/ /\ Trouble
       /\ Update(c, CopyOf([inst.cr EXCEPT !.value = "error"], FALSE))
       /\ pc' = "status" /\ new' = 0 /\ UNCHANGED queued
    \/ ~inst.fresh /\ Fail /\ UNCHANGED kube

\* The next call of TryToDelete.
Deletion(copy) ==
    IF copy.cr.phase # "live" THEN "deleteOwner"
    ELSE IF copy.cr.finalizer THEN "status" ELSE "addFinalizer"

----------------------------------------------------------------------------
(* tryReconcile, and createChange with the git client's calls. *)

\* Mutant of Begin: the CR's value is looked at instead of its change.
BeginByValue ==
    /\ pc = "idle"
    /\ queued
    /\ cache.fresh \/ Len(changes) < MaxChanges
    /\ queued' = FALSE
    /\ IF cache.cr.phase = "gone"
       THEN UNCHANGED <<pc, inst>>
       ELSE /\ pc' = IF cache.cr.value \in {"", "error"} THEN "gitClient" ELSE "owner"
            /\ inst' = cache
    /\ UNCHANGED <<kube, new, dir, changes, gerrit, calm>>

\* Without a recorded change the handler creates one, deleted CR or not.
Begin ==
    /\ pc = "idle"
    /\ queued
    /\ cache.fresh \/ Len(changes) < MaxChanges
    /\ queued' = FALSE
    /\ \/ cache.cr.phase = "gone" /\ UNCHANGED <<pc, inst>>
       \/ /\ cache.cr.phase # "gone" /\ cache.cr.changeId = 0 /\ ~cache.cr.complete
          /\ pc' = "status"
          /\ inst' = [cache EXCEPT !.cr.value = "error"]
       \/ /\ cache.cr.phase # "gone" /\ (cache.cr.changeId # 0 \/ cache.cr.complete)
          /\ pc' = IF cache.cr.changeId = 0 THEN "gitClient" ELSE "owner"
          /\ inst' = cache
    /\ UNCHANGED <<kube, new, dir, changes, gerrit, calm>>

\* The git client is built from the Gerrit CR that spec.ownerName names.
GetGitClient ==
    /\ pc = "gitClient"
    /\ OwnerNamed /\ gerrit
    /\ Goto("clone")
    /\ UNCHANGED <<kube, dir, changes, gerrit, calm>>

Clone ==
    /\ pc = "clone"
    /\ ~dir
    /\ dir' = TRUE
    /\ pc' = "build"
    /\ new' = Len(changes) + 1
    /\ UNCHANGED <<kube, queued, inst, changes, gerrit, calm>>

\* mergeBranches or commitFiles, in the clone: with an error it is removed, too.
BuildCommit ==
    /\ pc = "build"
    /\ Goto("push") \/ (Trouble /\ Goto("cleanupFailed"))
    /\ UNCHANGED <<kube, dir, changes, gerrit, calm>>

\* The change is there when the push reaches Gerrit, whatever Push returns.
Push ==
    /\ pc = "push"
    /\ \/ /\ changes' = Append(changes, "NEW")
          /\ Goto("cleanup") \/ (Trouble /\ Goto("cleanupFailed"))
       \/ Trouble /\ Goto("cleanupFailed") /\ UNCHANGED changes
    /\ UNCHANGED <<kube, dir, gerrit, calm>>

\* Mutant of RemoveClone: the deferred function's nil replaces Push's error.
RemoveCloneForgettingTheError ==
    /\ pc \in {"cleanup", "cleanupFailed"}
    /\ dir' = FALSE
    /\ inst' = [inst EXCEPT !.cr.changeId = new, !.cr.value = "NEW"]
    /\ pc' = Deletion(inst)
    /\ UNCHANGED <<queued, new>>
    /\ UNCHANGED <<kube, changes, gerrit, calm>>

\* The deferred RemoveAll: when it fails, a change just pushed is forgotten.
RemoveClone ==
    /\ pc \in {"cleanup", "cleanupFailed"}
    /\ \/ /\ pc = "cleanup"
          /\ dir' = FALSE
          /\ inst' = [inst EXCEPT !.cr.changeId = new, !.cr.value = "NEW"]
          /\ pc' = Deletion(inst)
          /\ UNCHANGED <<queued, new>>
       \/ pc = "cleanupFailed" /\ dir' = FALSE /\ Fail
       \/ Trouble /\ Fail /\ UNCHANGED dir
    /\ UNCHANGED <<kube, changes, gerrit, calm>>

----------------------------------------------------------------------------
(* getChangeStatus, TryToDelete and makeDeletionFunc. *)

\* The handler's copy once a write of anything but the status has brought back c:
\* a field of the status that is empty there is not in the answer, and keeps its
\* value, so a change just pushed is not forgotten.
RoundTrip(c) ==
    [c EXCEPT !.changeId = IF c.changeId = 0 THEN inst.cr.changeId ELSE c.changeId,
              !.value = IF c.value = "" THEN inst.cr.value ELSE c.value]

\* GetGerritClient writes a missing owner reference before it looks the owner up.
GetGerritClient(at, next) ==
    /\ pc = at
    /\ gerrit
    /\ \/ inst.cr.owned /\ Goto(next) /\ UNCHANGED kube
       \/ /\ ~inst.cr.owned
          /\ LET c == [cr EXCEPT !.owned = TRUE]
             IN  UpdateAnd(c, CopyOf(RoundTrip(c), TRUE), next)
    /\ UNCHANGED <<dir, changes, gerrit, calm>>

\* ChangeGet finds the change the handler's copy of the CR names.
Found == inst.cr.changeId \in 1..Len(changes) /\ changes[inst.cr.changeId] # "deleted"

\* Mutant of GetStatus: Gerrit's answer for a missing change is taken for one.
GetStatusOfMissing ==
    /\ pc = "get"
    /\ inst.cr.changeId \in DOMAIN changes
    /\ inst' = [inst EXCEPT !.cr.value = changes[inst.cr.changeId]]
    /\ pc' = Deletion(inst)
    /\ UNCHANGED <<kube, queued, new, dir, changes, gerrit, calm>>

GetStatus ==
    /\ pc = "get"
    /\ Found
    /\ inst' = [inst EXCEPT !.cr.value = changes[inst.cr.changeId]]
    /\ pc' = Deletion(inst)
    /\ UNCHANGED <<kube, queued, new, dir, changes, gerrit, calm>>

\* The status computed before survives the write of the finalizer.
AddFinalizer ==
    /\ pc = "addFinalizer"
    /\ LET c == [cr EXCEPT !.finalizer = TRUE]
       IN  UpdateAnd(c, CopyOf([c EXCEPT !.changeId = inst.cr.changeId,
                                         !.value = inst.cr.value], TRUE), "status")
    /\ UNCHANGED <<dir, changes, gerrit, calm>>

\* Mutant of GetStatusToDelete: the status the CR records is relied upon.
GetStatusToDeleteFromCr ==
    /\ pc = "deleteGet"
    /\ Found
    /\ Goto(IF cr.value = "NEW" THEN "abandon" ELSE "removeFinalizer")
    /\ UNCHANGED <<kube, dir, changes, gerrit, calm>>

GetStatusToDelete ==
    /\ pc = "deleteGet"
    /\ Found
    /\ Goto(IF changes[inst.cr.changeId] = "NEW" THEN "abandon" ELSE "removeFinalizer")
    /\ UNCHANGED <<kube, dir, changes, gerrit, calm>>

Abandon ==
    /\ pc = "abandon"
    /\ Found /\ changes[inst.cr.changeId] = "NEW"
    /\ changes' = [changes EXCEPT ![inst.cr.changeId] = "ABANDONED"]
    /\ Then("removeFinalizer")
    /\ UNCHANGED <<kube, dir, gerrit, calm>>

\* Without its last finalizer the API server drops the deleted CR.
RemoveFinalizer ==
    /\ pc = "removeFinalizer"
    /\ UpdateAnd([cr EXCEPT !.phase = "gone", !.finalizer = FALSE],
                 [inst EXCEPT !.fresh = FALSE], "status")
    /\ UNCHANGED <<dir, changes, gerrit, calm>>

\* Mutant of UpdateStatus: a change that is still open is not asked for again.
UpdateStatusOnce ==
    /\ pc = "status"
    /\ \/ /\ inst.fresh
          /\ cr' = [cr EXCEPT !.changeId = inst.cr.changeId, !.value = inst.cr.value]
          /\ cache' = [cache EXCEPT !.fresh = @ /\ cr' = cr]
          /\ Return(inst.cr.value = "error") \/ (Trouble /\ Return(TRUE))
       \/ ~inst.fresh /\ Return(TRUE) /\ UNCHANGED <<cr, cache>>
    /\ UNCHANGED <<edited, dir, changes, gerrit, calm>>

\* Mutant of UpdateStatus: after an error no other run is asked for.
UpdateStatusWithoutRetry ==
    /\ pc = "status"
    /\ \/ /\ inst.fresh
          /\ cr' = [cr EXCEPT !.changeId = inst.cr.changeId, !.value = inst.cr.value]
          /\ cache' = [cache EXCEPT !.fresh = @ /\ cr' = cr]
          /\ Return(inst.cr.value = "NEW") \/ (Trouble /\ Return(TRUE))
       \/ ~inst.fresh /\ Return(TRUE) /\ UNCHANGED <<cr, cache>>
    /\ UNCHANGED <<edited, dir, changes, gerrit, calm>>

\* The handler's last call; an error or an open change asks for another run.
UpdateStatus ==
    /\ pc = "status"
    /\ \/ /\ inst.fresh
          /\ cr' = [cr EXCEPT !.changeId = inst.cr.changeId, !.value = inst.cr.value]
          /\ cache' = [cache EXCEPT !.fresh = @ /\ cr' = cr]
          /\ Return(inst.cr.value \in {"NEW", "error"}) \/ (Trouble /\ Return(TRUE))
       \/ ~inst.fresh /\ Return(TRUE) /\ UNCHANGED <<cr, cache>>
    /\ UNCHANGED <<edited, dir, changes, gerrit, calm>>

----------------------------------------------------------------------------
(* Failures and the environment. *)

\* The call made at pc cannot succeed as things are.
Hopeless ==
    \/ pc = "gitClient" /\ ~(OwnerNamed /\ gerrit)
    \/ pc = "clone" /\ dir
    \/ pc \in {"owner", "deleteOwner"} /\ ~gerrit
    \/ pc \in {"get", "deleteGet"} /\ ~Found
    \/ pc = "abandon" /\ ~(Found /\ changes[inst.cr.changeId] = "NEW")

\* (How building, pushing and removing the clone fail is part of their actions.)
CallFails ==
    /\ pc \notin {"idle", "status", "build", "push", "cleanup", "cleanupFailed"}
    /\ Trouble \/ Hopeless
    /\ Fail
    /\ UNCHANGED <<kube, dir, changes, gerrit, calm>>

StatusUpdateFails ==
    /\ pc = "status"
    /\ Trouble
    /\ Return(TRUE)
    /\ UNCHANGED <<kube, dir, changes, gerrit, calm>>

\* The restarted operator cleans the work directory and reads every CR.
OperatorCrash ==
    /\ Trouble
    /\ pc' = "idle"
    /\ queued' = TRUE
    /\ inst' = NoInst
    /\ new' = 0
    /\ dir' = FALSE
    /\ cache' = CopyOf(cr, TRUE)
    /\ edited' = FALSE
    /\ UNCHANGED <<cr, changes, gerrit, calm>>

\* Mutant of CacheSync: isSpecUpdated does not ask for the deletion timestamp.
CacheSyncForSpecOnly ==
    /\ ~cache.fresh
    /\ cache' = CopyOf(cr, TRUE)
    /\ queued' = (queued \/ edited)
    /\ edited' = FALSE
    /\ UNCHANGED <<cr, pc, inst, new, dir, changes, gerrit, calm>>

\* A watch event: it queues the CR if its spec was edited or it was deleted.
CacheSync ==
    /\ ~cache.fresh
    /\ cache' = CopyOf(cr, TRUE)
    /\ queued' = (queued \/ edited \/ cache.cr.phase # cr.phase)
    /\ edited' = FALSE
    /\ UNCHANGED <<cr, pc, inst, new, dir, changes, gerrit, calm>>

\* Somebody writes the CR: from here on every copy of it is an old one.
Written(c) ==
    /\ cr' = c
    /\ cache' = [cache EXCEPT !.fresh = FALSE]
    /\ inst' = [inst EXCEPT !.fresh = FALSE]
    /\ UNCHANGED <<queued, pc, new, dir, changes, calm>>

\* An edit of the spec, or of something that does not queue the CR.
CrEdited ==
    /\ Trouble
    /\ cr.phase # "gone"
    /\ \/ \E b \in BOOLEAN : Written([cr EXCEPT !.complete = b]) /\ edited' = TRUE
       \/ Written(cr) /\ UNCHANGED edited
    /\ UNCHANGED gerrit

Deleted == Written([cr EXCEPT !.phase = IF cr.finalizer THEN "deleting" ELSE "gone"])

CrDeleted ==
    /\ cr.phase = "live"
    /\ Deleted
    /\ UNCHANGED <<edited, gerrit>>

\* The Gerrit CR is deleted; the garbage collector deletes what it owns.
GerritDeleted ==
    /\ Trouble
    /\ gerrit
    /\ gerrit' = FALSE
    /\ UNCHANGED <<kube, local, dir, changes, calm>>

Collected ==
    /\ ~gerrit
    /\ cr.owned /\ cr.phase = "live"
    /\ Deleted
    /\ UNCHANGED <<edited, gerrit>>

\* What people do to the change i in Gerrit.
Moves == {<<"submit", "NEW", "MERGED">>, <<"abandon", "NEW", "ABANDONED">>,
          <<"restore", "ABANDONED", "NEW">>,
          <<"delete", "NEW", "deleted">>, <<"delete", "ABANDONED", "deleted">>}

UserActs ==
    /\ \E i \in DOMAIN changes, m \in Moves :
          /\ m[1] \in UserActions
          /\ changes[i] = m[2]
          /\ changes' = [changes EXCEPT ![i] = m[3]]
    /\ UNCHANGED <<kube, local, dir, gerrit, calm>>

CallsStopFailing ==
    /\ ~calm
    /\ calm' = TRUE
    /\ UNCHANGED <<kube, local, dir, changes, gerrit>>

Reconcile ==
    \/ Begin \/ GetGitClient \/ Clone \/ BuildCommit \/ Push \/ RemoveClone
    \/ GetGerritClient("owner", "get") \/ GetStatus
    \/ AddFinalizer
    \/ GetGerritClient("deleteOwner", "deleteGet") \/ GetStatusToDelete
    \/ Abandon \/ RemoveFinalizer
    \/ UpdateStatus \/ CallFails \/ StatusUpdateFails

Environment ==
    \/ OperatorCrash \/ CacheSync \/ CrEdited \/ CrDeleted \/ GerritDeleted
    \/ Collected \/ UserActs \/ CallsStopFailing

Next == Reconcile \/ Environment

Spec == Init /\ [][Next]_vars

\* The worker keeps working and the watch delivers.
FairSpec == Spec /\ WF_vars(Reconcile) /\ WF_vars(CacheSync)

----------------------------------------------------------------------------
(* Properties. *)

\* Every variable keeps its type.
TypeOK ==
    /\ cr \in Cr
    /\ cache \in [cr : Cr, fresh : BOOLEAN]
    /\ inst \in [cr : Cr, fresh : BOOLEAN]
    /\ queued \in BOOLEAN /\ edited \in BOOLEAN
    /\ pc \in ControlPoints
    /\ new \in Nat
    /\ dir \in BOOLEAN /\ gerrit \in BOOLEAN /\ calm \in BOOLEAN
    /\ changes \in Seq(ChangeStatuses)

\* The change a CR records was really pushed, whatever became of the push's
\* answer, of the clone and of the write that recorded it.
RecordedWasPushed == cr.changeId <= Len(changes)

\* A CR keeps the change it has recorded, although the handler may start from
\* a copy that does not know of it yet and push another one.
RecordedNeverReplaced == [][cr.changeId # 0 => cr'.changeId = cr.changeId]_vars

Closed == {"MERGED", "ABANDONED"}

\* The work queue is all that brings the handler back, and changes in Gerrit and
\* the handler's own writes do not fill it: at rest, a CR that is not reported
\* closed, or is being deleted, is queued or the next watch event queues it.
NothingForgotten ==
    \/ cr.phase = "gone"
    \/ cr.phase = "live" /\ cr.value \in Closed
    \/ pc # "idle"
    \/ queued
    \/ ~cache.fresh /\ (edited \/ cache.cr.phase # cr.phase)

\* The finalizer goes only when the CR's change is closed: no deleted CR leaves
\* an open change behind that it has recorded (unless people restore it).
DeletionClosesTheChange ==
    [][cr.phase = "deleting" /\ cr'.phase = "gone" /\ cr.changeId # 0
          => changes'[cr.changeId] # "NEW"]_vars

Recorded(s) == cr.changeId \in DOMAIN changes /\ changes[cr.changeId] = s

\* What Kubernetes and its users see of the finalizer (CrFinalizer): it is put on
\* a live CR, and a deleted CR with it goes only when its change is not open.
Finalizer == INSTANCE CrFinalizer WITH
    Names <- {"cr"},
    phase <- [n \in {"cr"} |-> IF cr.phase = "gone" THEN "absent" ELSE cr.phase],
    held  <- [n \in {"cr"} |-> cr.finalizer],
    clean <- [n \in {"cr"} |-> ~Recorded("NEW")]

ImplementsFinalizer == Finalizer!Spec

\* Nothing stands in the way of creating a change.
Possible == gerrit /\ OwnerNamed /\ cr.complete /\ ~dir

\* Once calls stop failing a live CR gets its change, unless a clone that could
\* not be removed is in the way until the operator is restarted.
OpensItsChange == (calm /\ Possible) ~> (cr.changeId # 0 \/ cr.phase # "live")

\* Once calls stop failing a change that is merged is reported as such, unless
\* the CR has reported it closed before (nobody looks at it after that).
ReportsTheMerge ==
    (calm /\ gerrit /\ cr.phase = "live" /\ Recorded("MERGED"))
        ~> (cr.value \in {"MERGED", "ABANDONED"} \/ cr.phase # "live")

\* Once calls stop failing a deleted CR goes away, if Gerrit still has its change
\* (one that was never recorded is created first, and abandoned).
DeletionCompletes ==
    (calm /\ Possible /\ cr.phase = "deleting")
        ~> (cr.phase = "gone" \/ Recorded("deleted"))

\* api/v1/gerritmergerequest_types.go:12: without an owner name "the operator
\* will get first Gerrit CR from the namespace".
OpensItsChangeInTheFirstGerrit ==
    (calm /\ gerrit /\ cr.complete /\ ~dir) ~> (cr.changeId # 0 \/ cr.phase # "live")

=============================================================================
