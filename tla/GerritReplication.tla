-------------------------- MODULE GerritReplication --------------------------
(***************************************************************************)
(* The GerritReplicationConfig controller                                  *)
(* (controllers/gerritreplicationconfig): once the Gerrit CR is ready it   *)
(* appends a remote to the replication plugin's file and a host to the SSH *)
(* configuration in Gerrit's pod, and reloads the plugin.                  *)
(*                                                                         *)
(* One worker reconciles one CR, whose status is the only memory of what   *)
(* has been appended.  An action is one call with the code up to the next  *)
(* one; calls fail before or after their effect.  Unlike the other         *)
(* controllers' a refused status write is followed by an Update of the     *)
(* whole object, which cannot change the status.                           *)
(***************************************************************************)
EXTENDS Naturals

CONSTANTS SelectorMatches, \* the selector "deploymentconfig=<name>" finds the pod
          SshTemplate,     \* the file ssh-sshTemplate.tmpl is where it is looked for
          MaxRemotes       \* bound: once reached, calls that have run do not fail

ASSUME SwitchAssumption == SelectorMatches \in BOOLEAN /\ SshTemplate \in BOOLEAN
ASSUME BoundAssumption == MaxRemotes \in Nat

VARIABLES cr,       \* the CR in the API server
          cache,    \* the informer's copy of it, which Get returns
          queued,   \* the work queue holds the CR's key
          edited,   \* written, but for its status, since the cache was brought up to date
          pc,       \* the handler's next call; "idle" between reconciliations
          inst,     \* the handler's in-memory CR
          gerrit,   \* the Gerrit CR, as the informer knows it
          key,      \* the SSH key of the git server is in the pod
          remotes,  \* how often the CR's remote is in the plugin's file
          hosts,    \* how often the git server is in the SSH configuration
          loaded,   \* the plugin works with the remote
          hidden,   \* what no event tells the handler: the status writes that failed
                    \* and were covered up by an Update; "gerrit", once Gerrit's
                    \* status has gone back
          calm      \* TRUE once calls have stopped failing (environment)

kube  == <<cr, cache, edited>>
local == <<queued, pc, inst>>
pod   == <<key, remotes, hosts, loaded>>
vars  == <<cr, cache, queued, edited, pc, inst, gerrit, key, remotes, hosts, loaded,
           hidden, calm>>

Statuses == {"", "configuring", "configured", "failed"}

Cr == [live : BOOLEAN, owned : BOOLEAN, status : Statuses, available : BOOLEAN]

\* A copy of the CR, and whether it still is the API server's version.
CopyOf(c, fresh) == [cr |-> c, fresh |-> fresh]

\* A CR just created; "failed" is a status only an older release left behind.
NewCr(status) == [live |-> TRUE, owned |-> FALSE, status |-> status, available |-> FALSE]
NoInst == CopyOf(NewCr(""), FALSE)

ControlPoints == {"idle", "owner", "gerrit", "configuring", "pods", "key", "remote",
                  "host", "reload", "configured", "available"}

Init ==
    /\ cr \in {NewCr(""), NewCr("failed")}
    /\ cache = CopyOf(cr, TRUE)
    /\ queued = TRUE
    /\ edited = FALSE
    /\ pc = "idle"
    /\ inst = NoInst
    /\ gerrit \in {"installing", "ready"}
    /\ key = FALSE
    /\ remotes = 0
    /\ hosts = 0
    /\ loaded = FALSE
    /\ hidden = {}
    /\ calm = FALSE

----------------------------------------------------------------------------
(* How the handler goes on. *)

Trouble == ~calm /\ remotes < MaxRemotes

Goto(p) == pc' = p /\ UNCHANGED <<queued, inst>>

\* Leave the handler; again says whether the CR is queued at once or after a time.
Return(again) ==
    /\ pc' = "idle"
    /\ inst' = NoInst
    /\ queued' = (queued \/ again)

\* The call has had its effect; its answer arrives, or is lost: every error in
\* configureReplication ends the run, and the work queue tries again.
Then(p) == Goto(p) \/ (Trouble /\ Return(TRUE))

\* The API server stores a new version; the informer's copy is an old one.
Store(c) ==
    /\ inst.fresh
    /\ cr' = c
    /\ cache' = [cache EXCEPT !.fresh = FALSE]

\* updateStatus and updateAvailableStatus: the handler's CR with what it writes.
Wanted(w) == IF w = "available" THEN [inst.cr EXCEPT !.available = TRUE]
             ELSE [inst.cr EXCEPT !.status = w]

\* What it holds when an Update has brought back the server's status: a field
\* that is empty there is not in the answer, and keeps its value.
RoundTrip(c) == [c EXCEPT !.status = IF cr.status = "" THEN c.status ELSE cr.status,
                          !.available = c.available \/ cr.available]

\* Mutant of WriteStatus: the write is made whatever the version, as the Gerrit
\* controller does after a conflict.
WriteStatusOfAnyVersion(w, next) ==
    /\ cr' = [Wanted(w) EXCEPT !.live = cr.live, !.owned = cr.owned]
    /\ cache' = [cache EXCEPT !.fresh = FALSE]
    /\ inst' = CopyOf(Wanted(w), TRUE)
    /\ pc' = next
    /\ UNCHANGED <<queued, edited, hidden>>

\* Mutant of WriteStatus: a status that cannot be written is left for later.
WriteStatusOnce(w, next) ==
    \/ /\ Store(Wanted(w))
       /\ \/ pc' = next /\ inst' = CopyOf(Wanted(w), TRUE) /\ UNCHANGED queued
          \/ Trouble /\ Return(FALSE)
       /\ UNCHANGED <<edited, hidden>>
    \/ /\ Trouble \/ ~inst.fresh
       /\ Return(FALSE)
       /\ UNCHANGED <<kube, hidden>>

\* The status write is accepted (its answer may be lost, and then the Update is
\* refused as one of an old version); or both are refused; or the status write
\* fails and the Update, which changes nothing, passes for it.
WriteStatus(w, next) ==
    \/ /\ Store(Wanted(w))
       /\ \/ pc' = next /\ inst' = CopyOf(Wanted(w), TRUE) /\ UNCHANGED queued
          \/ Trouble /\ Return(TRUE)
       /\ UNCHANGED <<edited, hidden>>
    \/ /\ Trouble \/ ~inst.fresh
       /\ Return(TRUE)
       /\ UNCHANGED <<kube, hidden>>
    \/ /\ Trouble /\ inst.fresh
       /\ inst' = CopyOf(RoundTrip(Wanted(w)), TRUE)
       /\ pc' = next
       /\ hidden' = hidden \cup {w}
       /\ UNCHANGED <<kube, queued>>

----------------------------------------------------------------------------
(* Reconcile. *)

Begin ==
    /\ pc = "idle"
    /\ queued
    /\ queued' = FALSE
    /\ IF cache.cr.live
       THEN inst' = cache /\ pc' = IF cache.cr.owned THEN "gerrit" ELSE "owner"
       ELSE UNCHANGED <<pc, inst>>
    /\ UNCHANGED <<kube, gerrit, pod, hidden, calm>>

SetOwner ==
    /\ pc = "owner"
    /\ gerrit # "absent"
    /\ \/ /\ Store([cr EXCEPT !.owned = TRUE])
          /\ edited' = TRUE
          /\ \/ pc' = "gerrit" /\ inst' = CopyOf([cr EXCEPT !.owned = TRUE], TRUE)
                /\ UNCHANGED queued
             \/ Trouble /\ Return(TRUE)
       \/ ~inst.fresh /\ Return(TRUE) /\ UNCHANGED kube
    /\ UNCHANGED <<gerrit, pod, hidden, calm>>

\* What follows when nothing is to be configured (any more).
Afterwards == IF inst.cr.status = "configuring" THEN "configured" ELSE "available"

\* Mutant of GetInstanceOwner: a configuration that was cut short is started again.
GetInstanceOwnerRetrying ==
    /\ pc = "gerrit"
    /\ IF gerrit = "absent" THEN Return(FALSE)
       ELSE Goto(IF gerrit = "ready" /\ inst.cr.status # "configured"
                 THEN "configuring" ELSE Afterwards)
    /\ UNCHANGED <<kube, gerrit, pod, hidden, calm>>

\* Without the Gerrit CR that owns it the run ends, and is not tried again.
GetInstanceOwner ==
    /\ pc = "gerrit"
    /\ IF gerrit = "absent" THEN Return(FALSE)
       ELSE Goto(IF gerrit = "ready" /\ inst.cr.status \in {"", "failed"}
                 THEN "configuring" ELSE Afterwards)
    /\ UNCHANGED <<kube, gerrit, pod, hidden, calm>>

MarkConfiguring ==
    /\ pc = "configuring"
    /\ WriteStatus("configuring", "pods")
    /\ UNCHANGED <<gerrit, pod, calm>>

GetConfigurationArgs ==
    /\ pc = "pods"
    /\ SelectorMatches
    /\ Goto("key")
    /\ UNCHANGED <<kube, gerrit, pod, hidden, calm>>

SaveSshReplicationKey ==
    /\ pc = "key"
    /\ key' = TRUE
    /\ Then("remote")
    /\ UNCHANGED <<kube, gerrit, remotes, hosts, loaded, hidden, calm>>

\* createReplicationConfig, then updateReplicationConfig: "echo ... >>".
UpdateReplicationConfig ==
    /\ pc = "remote"
    /\ remotes' = remotes + 1
    /\ Then("host")
    /\ UNCHANGED <<kube, gerrit, key, hosts, loaded, hidden, calm>>

UpdateSshConfig ==
    /\ pc = "host"
    /\ SshTemplate
    /\ hosts' = hosts + 1
    /\ Then("reload")
    /\ UNCHANGED <<kube, gerrit, key, remotes, loaded, hidden, calm>>

ReloadReplicationPlugin ==
    /\ pc = "reload"
    /\ loaded' = TRUE
    /\ Then(Afterwards)
    /\ UNCHANGED <<kube, gerrit, key, remotes, hosts, hidden, calm>>

\* Mutant of MarkConfigured: the Gerrit CR's word for it.
MarkReady ==
    /\ pc = "configured"
    /\ WriteStatus("ready", "available")
    /\ UNCHANGED <<gerrit, pod, calm>>

MarkConfigured ==
    /\ pc = "configured"
    /\ WriteStatus("configured", "available")
    /\ UNCHANGED <<gerrit, pod, calm>>

MarkAvailable ==
    /\ pc = "available"
    /\ ~inst.cr.available
    /\ WriteStatus("available", "available")
    /\ UNCHANGED <<gerrit, pod, calm>>

Finish ==
    /\ pc = "available"
    /\ inst.cr.available
    /\ Return(FALSE)
    /\ UNCHANGED <<kube, gerrit, pod, hidden, calm>>

\* The call made at pc cannot succeed as things are.
Hopeless ==
    \/ pc = "owner" /\ gerrit = "absent"
    \/ pc = "pods" /\ ~SelectorMatches
    \/ pc = "host" /\ ~SshTemplate

CallFails ==
    /\ pc \in {"owner", "pods", "key", "remote", "host", "reload"}
    /\ Trouble \/ Hopeless
    /\ Return(TRUE)
    /\ UNCHANGED <<kube, gerrit, pod, hidden, calm>>

----------------------------------------------------------------------------
(* The environment. *)

OperatorCrash ==
    /\ Trouble
    /\ cache' = CopyOf(cr, TRUE) /\ edited' = FALSE
    /\ pc' = "idle" /\ inst' = NoInst /\ queued' = TRUE
    /\ UNCHANGED <<cr, gerrit, pod, hidden, calm>>

\* A watch event: isSpecUpdated passes the writes that leave the status alone.
CacheSync ==
    /\ ~cache.fresh
    /\ cache' = CopyOf(cr, TRUE)
    /\ queued' = (queued \/ edited)
    /\ edited' = FALSE
    /\ UNCHANGED <<cr, pc, inst, gerrit, pod, hidden, calm>>

\* The informer repeats what it has every few hours.
Resync ==
    /\ queued' = TRUE
    /\ UNCHANGED <<kube, pc, inst, gerrit, pod, hidden, calm>>

Written(c) ==
    /\ cr' = c
    /\ cache' = [cache EXCEPT !.fresh = FALSE]
    /\ inst' = [inst EXCEPT !.fresh = FALSE]
    /\ UNCHANGED <<queued, pc, pod, hidden, calm>>

CrEdited ==
    /\ Trouble
    /\ cr.live
    /\ Written(cr)
    /\ edited' = TRUE
    /\ UNCHANGED gerrit

\* It has no finalizer: its remote stays in Gerrit.
CrDeleted ==
    /\ cr.live
    /\ Written([cr EXCEPT !.live = FALSE])
    /\ UNCHANGED <<edited, gerrit>>

GerritReady ==
    /\ gerrit = "installing"
    /\ gerrit' = "ready"
    /\ UNCHANGED <<kube, local, pod, hidden, calm>>

\* A run of the Gerrit controller on an old copy takes its CR's status back.
GerritTakenBack ==
    /\ gerrit = "ready"
    /\ gerrit' = "installing"
    /\ hidden' = hidden \cup {"gerrit"}
    /\ UNCHANGED <<kube, local, pod, calm>>

\* The Gerrit CR is deleted; the garbage collector deletes what it owns.
GerritDeleted ==
    /\ Trouble
    /\ gerrit' = "absent"
    /\ UNCHANGED <<kube, local, pod, hidden, calm>>

Collected ==
    /\ gerrit = "absent"
    /\ cr.owned /\ cr.live
    /\ Written([cr EXCEPT !.live = FALSE])
    /\ UNCHANGED <<edited, gerrit>>

\* Gerrit's plugins read their files when it starts.
GerritRestarts ==
    /\ ~calm
    /\ loaded' = (remotes > 0)
    /\ UNCHANGED <<kube, local, gerrit, key, remotes, hosts, hidden, calm>>

CallsStopFailing ==
    /\ ~calm
    /\ calm' = TRUE
    /\ UNCHANGED <<kube, local, gerrit, pod, hidden>>

Reconcile ==
    \/ Begin \/ SetOwner \/ GetInstanceOwner \/ MarkConfiguring \/ GetConfigurationArgs
    \/ SaveSshReplicationKey \/ UpdateReplicationConfig \/ UpdateSshConfig
    \/ ReloadReplicationPlugin \/ MarkConfigured \/ MarkAvailable \/ Finish \/ CallFails

Environment ==
    \/ OperatorCrash \/ CacheSync \/ Resync \/ CrEdited \/ CrDeleted \/ GerritReady
    \/ GerritTakenBack \/ GerritDeleted \/ Collected \/ GerritRestarts \/ CallsStopFailing

Next == Reconcile \/ Environment

Spec == Init /\ [][Next]_vars

\* The worker keeps working and the watch delivers; that Gerrit gets ready is
\* only supposed by a property.
FairSpec == Spec /\ WF_vars(Reconcile) /\ WF_vars(CacheSync)

----------------------------------------------------------------------------
(* Properties. *)

\* Every variable keeps its type.
TypeOK ==
    /\ cr \in Cr
    /\ cache \in [cr : Cr, fresh : BOOLEAN]
    /\ inst \in [cr : Cr, fresh : BOOLEAN]
    /\ queued \in BOOLEAN /\ edited \in BOOLEAN
    /\ pc \in ControlPoints
    /\ gerrit \in {"absent", "installing", "ready"}
    /\ remotes \in Nat /\ hosts \in Nat
    /\ key \in BOOLEAN /\ loaded \in BOOLEAN
    /\ hidden \subseteq {"configuring", "configured", "available", "gerrit"}
    /\ calm \in BOOLEAN

\* Nothing looks at the plugin's file before the remote is appended to it: that
\* it is there once is due to the status written before, and to the versions
\* that keep a run on an old copy from starting again.  An Update that covers
\* up the failed write of that status is the one way to a second remote.
AppendedOnce == remotes > 1 => "configuring" \in hidden

\* No run, on a copy of any age, takes back that replication is configured.
ConfiguredIsFinal == [][cr.status = "configured" => cr'.status = "configured"]_vars

\* The status writes do not queue the CR, so a configuration that was started and
\* is not yet reported must be on its way, or queued by the run that left it:
\* unless a failed write was covered up, or Gerrit's status has gone back.
NothingForgotten ==
    hidden = {} /\ cr.live /\ gerrit # "absent" /\ cr.status \in {"configuring", "configured"}
        => (cr.status = "configured" /\ cr.available) \/ queued \/ pc # "idle"

\* Once calls stop failing a CR that has a ready Gerrit and the worker's
\* attention, or whose configuration has started, is reported configured and
\* available, unless a failed write was covered up or Gerrit's status goes back.
FinishesConfiguration ==
    (calm /\ hidden = {} /\ (cr.status = "configuring" \/ (gerrit = "ready" /\ queued)))
        ~> \/ cr.status = "configured" /\ cr.available
           \/ ~cr.live \/ gerrit = "absent" \/ "gerrit" \in hidden

\* gerritreplicationconfig_controller.go:167, before the status is written:
\* "Configuration of %s/%s object has been finished".
ConfiguredMeansReplicating == cr.status = "configured" => loaded

=============================================================================
