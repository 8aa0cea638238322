--------------------------- MODULE GerritProjects ---------------------------
(***************************************************************************)
(* The GerritProject controller (controllers/gerritproject): a worker that *)
(* creates, updates and deletes the projects that GerritProject CRs name,  *)
(* and beside it a goroutine, the syncer, that makes a CR for every        *)
(* project of Gerrit without one and records the branches of all.          *)
(*                                                                         *)
(* An action is one call with the code up to the next one.  The worker and *)
(* the syncer share the informer's cache and write the same CRs.           *)
(***************************************************************************)
EXTENDS Naturals

CONSTANTS Projects,    \* names of projects in Gerrit
          Names,       \* names of GerritProject CRs
          None,        \* no CR
          ProjectOf,   \* the project that the spec of a CR names
          SyncName,    \* the name of the CR the syncer makes for a project
          UserNames,   \* names of the CRs that people make
          UserActions, \* what people do in Gerrit
          PeopleStop   \* people leave CRs and projects alone once calls stop failing

\* A CR's name determines its project: the slugs of two projects differ.
ASSUME NameAssumption ==
    /\ None \notin Names
    /\ ProjectOf \in [Names -> Projects]
    /\ SyncName \in [Projects -> Names]
    /\ \A p \in Projects : ProjectOf[SyncName[p]] = p
ASSUME UserAssumption ==
    /\ UserNames \subseteq Names
    /\ UserActions \subseteq {"createProject", "deleteProject"}
    /\ PeopleStop \in BOOLEAN

VARIABLES crs,      \* the CRs in the API server
          cache,    \* the informer's copies of them
          pending,  \* the CRs made or edited since the cache was brought up to date
          current,  \* the CRs whose status lists the branches that stay: those listed
                    \* since calls stopped failing
          queued,   \* the CRs in the work queue
          pc,       \* the worker's next call; "idle" between reconciliations
          inst,     \* the worker's copy of the CR it reconciles
          spc,      \* the syncer's next call; "idle" between ticks
          listed,   \* the owned CRs the syncer has listed
          todo,     \* the projects the syncer has listed and not yet handled
          copy,     \* the syncer's copy of the CR it handles
          projects, \* the projects in Gerrit
          calm      \* TRUE once calls have stopped failing (environment)

kube   == <<crs, cache, pending, current>>
worker == <<queued, pc, inst>>
syncer == <<spc, listed, todo, copy>>
vars   == <<crs, cache, pending, current, queued, pc, inst, spc, listed, todo, copy,
            projects, calm>>

Phases == {"absent", "live", "deleting"}
Cr == [phase : Phases, finalizer : BOOLEAN, owned : BOOLEAN]
Absent == [phase |-> "absent", finalizer |-> FALSE, owned |-> FALSE]
NewCr == [Absent EXCEPT !.phase = "live"]

\* A copy of the CR n, and whether it still is the API server's version.
CopyOf(n, c, fresh) == [name |-> n, cr |-> c, fresh |-> fresh]
NoCopy == CopyOf(None, Absent, FALSE)

WorkerCalls == {"idle", "owner", "get", "create", "update", "addFinalizer", "delete",
                "release", "reportOK", "reportError"}
SyncerCalls == {"idle", "listProjects", "next", "createCr", "listBranches", "reload",
                "write"}

Init ==
    /\ crs = [n \in Names |-> Absent]
    /\ cache = [n \in Names |-> CopyOf(n, Absent, TRUE)]
    /\ pending = {}
    /\ current = {}
    /\ queued = {}
    /\ pc = "idle"
    /\ inst = NoCopy
    /\ spc = "idle"
    /\ listed = {}
    /\ todo = {}
    /\ copy = NoCopy
    /\ projects \in SUBSET Projects
    /\ calm \in BOOLEAN

----------------------------------------------------------------------------
(* Writing CRs. *)

Outdated(k, n) == IF k.name = n THEN [k EXCEPT !.fresh = FALSE] ELSE k

\* The API server stores a new version of a CR, and the cache's is an old one.
Store(n, c) ==
    /\ crs' = [crs EXCEPT ![n] = c]
    /\ cache' = [cache EXCEPT ![n].fresh = FALSE]

\* With the CR its list of branches goes.
Lists(n, c) == current' = IF c.phase = "absent" THEN current \ {n} ELSE current

\* The worker's write of its CR.
WorkerStores(c) ==
    /\ inst.fresh
    /\ Store(inst.name, c) /\ Lists(inst.name, c)
    /\ copy' = Outdated(copy, inst.name)
    /\ UNCHANGED pending

\* Somebody else's write: the worker's and the syncer's copies are old ones.
PeopleStore(n, c) ==
    /\ Store(n, c) /\ Lists(n, c)
    /\ inst' = Outdated(inst, n)
    /\ copy' = Outdated(copy, n)
    /\ UNCHANGED <<queued, pc, spc, listed, todo, projects, calm>>

----------------------------------------------------------------------------
(* The worker: Reconcile, tryToReconcile, TryToDelete. *)

Goto(p) == pc' = p /\ UNCHANGED <<queued, inst>>

\* tryToReconcile returns an error, which becomes the CR's status.
Fail == Goto("reportError")

\* The call has had its effect; its answer may be lost.
Then(p) == Goto(p) \/ (~calm /\ Fail)

\* The API server takes a write only of the current version; the worker's copy
\* becomes what the server returns.
UpdateAnd(c, next) ==
    \/ /\ WorkerStores(c)
       /\ UNCHANGED queued
       /\ \/ pc' = next /\ inst' = CopyOf(inst.name, c, TRUE)
          \/ ~calm /\ pc' = "reportError" /\ inst' = [inst EXCEPT !.fresh = FALSE]
    \/ ~inst.fresh /\ Fail /\ UNCHANGED <<kube, copy>>

Begin(n) ==
    /\ pc = "idle"
    /\ n \in queued
    /\ queued' = queued \ {n}
    /\ IF cache[n].cr.phase = "absent"
       THEN UNCHANGED <<pc, inst>>
       ELSE pc' = "owner" /\ inst' = cache[n]
    /\ UNCHANGED <<kube, syncer, projects, calm>>

\* GetGerritClient writes a missing owner reference.
GetGerritClient ==
    /\ pc = "owner"
    /\ \/ inst.cr.owned /\ Goto("get") /\ UNCHANGED <<kube, copy>>
       \/ /\ ~inst.cr.owned
          /\ UpdateAnd([crs[inst.name] EXCEPT !.owned = TRUE], "get")
    /\ UNCHANGED <<spc, listed, todo, projects, calm>>

Project == ProjectOf[inst.name]

GetProject ==
    /\ pc = "get"
    /\ Goto(IF Project \in projects THEN "update" ELSE "create")
    /\ UNCHANGED <<kube, syncer, projects, calm>>

\* The next call of TryToDelete; nothing is left to do with a finalizer in place.
Deletion ==
    IF inst.cr.phase = "deleting" THEN "delete"
    ELSE IF inst.cr.finalizer THEN "reportOK" ELSE "addFinalizer"

CreateProject ==
    /\ pc = "create"
    /\ Project \notin projects
    /\ projects' = projects \cup {Project}
    /\ Then(Deletion)
    /\ UNCHANGED <<kube, syncer, calm>>

\* UpdateProject: the description, then the parent.
UpdateProject ==
    /\ pc = "update"
    /\ Project \in projects
    /\ Goto(Deletion)
    /\ UNCHANGED <<kube, syncer, projects, calm>>

AddFinalizer ==
    /\ pc = "addFinalizer"
    /\ UpdateAnd([crs[inst.name] EXCEPT !.finalizer = TRUE], "reportOK")
    /\ UNCHANGED <<spc, listed, todo, projects, calm>>

\* Mutant of DeleteProject: a refusal (of a project with open changes, say) is
\* taken for an answer that was lost.
DeleteProjectOnce ==
    /\ pc = "delete"
    /\ projects' = projects \ {Project} \/ (~calm /\ UNCHANGED projects)
    /\ Goto("release")
    /\ UNCHANGED <<kube, syncer, calm>>

DeleteProject ==
    /\ pc = "delete"
    /\ Project \in projects
    /\ projects' = projects \ {Project}
    /\ Then("release")
    /\ UNCHANGED <<kube, syncer, calm>>

\* Without its last finalizer the API server drops the deleted CR.
Release ==
    /\ pc = "release"
    /\ UpdateAnd(Absent, "reportOK")
    /\ UNCHANGED <<spc, listed, todo, projects, calm>>

\* The update of the status makes a new version of the CR, changes nothing, or
\* fails.
WriteStatus ==
    \/ crs[inst.name].phase # "absent" /\ WorkerStores(crs[inst.name])
    \/ UNCHANGED <<kube, copy>>

\* Mutant of UpdateStatus: an error is recorded but not tried again.
UpdateStatusOnce ==
    /\ pc \in {"reportOK", "reportError"}
    /\ WriteStatus
    /\ pc' = "idle" /\ inst' = NoCopy /\ UNCHANGED queued
    /\ UNCHANGED <<spc, listed, todo, projects, calm>>

\* The deferred update of the status: that it fails is only logged.
UpdateStatus ==
    /\ pc \in {"reportOK", "reportError"}
    /\ WriteStatus
    /\ pc' = "idle" /\ inst' = NoCopy
    /\ queued' = IF pc = "reportError" THEN queued \cup {inst.name} ELSE queued
    /\ UNCHANGED <<spc, listed, todo, projects, calm>>

\* The call made at pc cannot succeed as things are.
Hopeless ==
    \/ pc = "create" /\ Project \in projects
    \/ pc \in {"update", "delete"} /\ Project \notin projects

CallFails ==
    /\ pc \notin {"idle", "reportOK", "reportError"}
    /\ ~calm \/ Hopeless
    /\ Fail
    /\ UNCHANGED <<kube, syncer, projects, calm>>

----------------------------------------------------------------------------
(* The syncer: syncBackendProjectsTick. *)

\* An error ends the tick; it is tried again at once or at the next one.
TickEnds == spc' = "idle" /\ listed' = {} /\ todo' = {} /\ copy' = NoCopy

\* What the map of filterGerritProjectsByGerrit holds: the CRs with an owner.
ListCrs ==
    /\ spc = "idle"
    /\ listed' = {n \in Names : cache[n].cr.phase # "absent" /\ cache[n].cr.owned}
    /\ spc' = "listProjects"
    /\ UNCHANGED <<kube, worker, todo, copy, projects, calm>>

ListProjects ==
    /\ spc = "listProjects"
    /\ todo' = projects
    /\ spc' = "next"
    /\ UNCHANGED <<kube, worker, listed, copy, projects, calm>>

\* Mutant of NextProject: the map's nil is used for a project without a CR.
NextProjectOrNil ==
    /\ spc = "next"
    /\ \/ \E p \in todo :
            /\ todo' = todo \ {p}
            /\ spc' = "listBranches"
            /\ copy' = IF \E n \in listed : ProjectOf[n] = p
                       THEN CopyOf(CHOOSE n \in listed : ProjectOf[n] = p, Absent, FALSE)
                       ELSE NoCopy
            /\ UNCHANGED listed
       \/ todo = {} /\ TickEnds
    /\ UNCHANGED <<kube, worker, projects, calm>>

\* Mutant of NextProject: every new CR is that of one and the same loop variable.
NextProjectOfOneVariable ==
    /\ spc = "next"
    /\ \/ \E p \in todo :
            /\ todo' = todo \ {p}
            /\ \/ \E n \in listed : /\ ProjectOf[n] = p
                                    /\ spc' = "listBranches"
                                    /\ copy' = CopyOf(n, Absent, FALSE)
               \/ /\ \A n \in listed : ProjectOf[n] # p
                  /\ spc' = "createCr"
                  /\ copy' = CopyOf(SyncName[CHOOSE q \in Projects : TRUE], Absent, FALSE)
            /\ UNCHANGED listed
       \/ todo = {} /\ TickEnds
    /\ UNCHANGED <<kube, worker, projects, calm>>

\* The loop of syncGerritInstance: its projects come in any order.
NextProject ==
    /\ spc = "next"
    /\ \/ \E p \in todo :
            /\ todo' = todo \ {p}
            /\ \/ \E n \in listed : /\ ProjectOf[n] = p
                                    /\ spc' = "listBranches"
                                    /\ copy' = CopyOf(n, Absent, FALSE)
               \/ /\ \A n \in listed : ProjectOf[n] # p
                  /\ spc' = "createCr"
                  /\ copy' = CopyOf(SyncName[p], Absent, FALSE)
            /\ UNCHANGED listed
       \/ todo = {} /\ TickEnds
    /\ UNCHANGED <<kube, worker, projects, calm>>

\* createGerritProject: the CR has no owner until the worker gives it one.
CreateCr ==
    /\ spc = "createCr"
    /\ crs[copy.name].phase = "absent"
    /\ Store(copy.name, NewCr)
    /\ pending' = pending \cup {copy.name}
    /\ inst' = Outdated(inst, copy.name)
    /\ \/ spc' = "listBranches" /\ UNCHANGED <<listed, todo, copy>>
       \/ ~calm /\ TickEnds
    /\ UNCHANGED <<current, queued, pc, projects, calm>>

ListProjectBranches ==
    /\ spc = "listBranches"
    /\ ProjectOf[copy.name] \in projects
    /\ spc' = "reload"
    /\ UNCHANGED <<kube, worker, listed, todo, copy, projects, calm>>

\* The reload is one of the cache.
Reload ==
    /\ spc = "reload"
    /\ cache[copy.name].cr.phase # "absent"
    /\ copy' = cache[copy.name]
    /\ spc' = "write"
    /\ UNCHANGED <<kube, worker, listed, todo, projects, calm>>

\* A list of branches makes a new version of the CR if it is the first, or if they
\* have changed, which they do only until calls stop failing.
UpdateBranches ==
    /\ spc = "write"
    /\ copy.fresh
    /\ \/ UNCHANGED <<cache, current, inst>>
       \/ /\ copy.name \notin current
          /\ cache' = [cache EXCEPT ![copy.name].fresh = FALSE]
          /\ current' = IF calm THEN current \cup {copy.name} ELSE current
          /\ inst' = Outdated(inst, copy.name)
    /\ \/ spc' = "next" /\ copy' = NoCopy /\ UNCHANGED <<listed, todo>>
       \/ ~calm /\ TickEnds
    /\ UNCHANGED <<crs, pending, queued, pc, projects, calm>>

\* The call made at spc cannot succeed as things are.
TickHopeless ==
    \/ spc = "createCr" /\ crs[copy.name].phase # "absent"
    \/ spc = "listBranches" /\ ProjectOf[copy.name] \notin projects
    \/ spc = "reload" /\ cache[copy.name].cr.phase = "absent"
    \/ spc = "write" /\ ~copy.fresh

TickFails ==
    /\ spc \notin {"idle", "next"}
    /\ ~calm \/ TickHopeless
    /\ TickEnds
    /\ UNCHANGED <<kube, worker, projects, calm>>

----------------------------------------------------------------------------
(* The environment. *)

OperatorCrash ==
    /\ ~calm
    /\ cache' = [n \in Names |-> CopyOf(n, crs[n], TRUE)]
    /\ pending' = {}
    /\ queued' = {n \in Names : crs[n].phase # "absent"}
    /\ pc' = "idle" /\ inst' = NoCopy
    /\ TickEnds
    /\ UNCHANGED <<crs, current, projects, calm>>

\* Mutant of CacheSync: isSpecUpdated does not ask for the deletion timestamp.
CacheSyncForSpecOnly(n) ==
    /\ ~cache[n].fresh
    /\ cache' = [cache EXCEPT ![n] = CopyOf(n, crs[n], TRUE)]
    /\ queued' = IF n \in pending THEN queued \cup {n} ELSE queued
    /\ pending' = pending \ {n}
    /\ UNCHANGED <<crs, current, pc, inst, syncer, projects, calm>>

\* A watch event: it queues a CR that was made, edited or deleted.
CacheSync(n) ==
    /\ ~cache[n].fresh
    /\ cache' = [cache EXCEPT ![n] = CopyOf(n, crs[n], TRUE)]
    /\ queued' = IF n \in pending \/ cache[n].cr.phase # crs[n].phase
                 THEN queued \cup {n} ELSE queued
    /\ pending' = pending \ {n}
    /\ UNCHANGED <<crs, current, pc, inst, syncer, projects, calm>>

PeopleAct == ~(calm /\ PeopleStop)

CrCreated(n) ==
    /\ PeopleAct
    /\ n \in UserNames
    /\ crs[n].phase = "absent"
    /\ PeopleStore(n, NewCr)
    /\ pending' = pending \cup {n}

\* An edit of the spec (the description, say), which the spec's model leaves out.
CrEdited(n) ==
    /\ ~calm
    /\ crs[n].phase # "absent"
    /\ cache' = [cache EXCEPT ![n].fresh = FALSE]
    /\ inst' = Outdated(inst, n)
    /\ copy' = Outdated(copy, n)
    /\ pending' = pending \cup {n}
    /\ UNCHANGED <<crs, current, queued, pc, spc, listed, todo, projects, calm>>

CrDeleted(n) ==
    /\ PeopleAct
    /\ crs[n].phase = "live"
    /\ PeopleStore(n, IF crs[n].finalizer THEN [crs[n] EXCEPT !.phase = "deleting"]
                      ELSE Absent)
    /\ UNCHANGED pending

UserActs ==
    /\ PeopleAct
    /\ \E p \in Projects :
          \/ "createProject" \in UserActions /\ projects' = projects \cup {p}
          \/ "deleteProject" \in UserActions /\ projects' = projects \ {p}
    /\ UNCHANGED <<kube, worker, syncer, calm>>

\* The same goroutine of a second replica, which no leader election holds back,
\* while pods are replaced.  Its listings are of any age: it makes the CR of any
\* project Gerrit may have had, and writes the status of any CR.
OtherSyncer(n) ==
    /\ ~calm
    /\ \/ /\ crs[n].phase = "absent"
          /\ \E p \in Projects : n = SyncName[p]
          /\ PeopleStore(n, NewCr)
          /\ pending' = pending \cup {n}
       \/ /\ crs[n].phase # "absent"
          /\ PeopleStore(n, crs[n])
          /\ UNCHANGED pending

CallsStopFailing ==
    /\ ~calm
    /\ calm' = TRUE
    /\ UNCHANGED <<kube, worker, syncer, projects>>

Run ==
    \/ GetGerritClient \/ GetProject \/ CreateProject \/ UpdateProject \/ AddFinalizer
    \/ DeleteProject \/ Release \/ UpdateStatus \/ CallFails

Tick ==
    \/ ListCrs \/ ListProjects \/ NextProject \/ CreateCr \/ ListProjectBranches
    \/ Reload \/ UpdateBranches \/ TickFails

Environment ==
    \/ OperatorCrash \/ UserActs \/ CallsStopFailing
    \/ \E n \in Names : CacheSync(n) \/ CrCreated(n) \/ CrEdited(n) \/ CrDeleted(n)
                     \/ OtherSyncer(n)

Next == Run \/ Tick \/ Environment \/ \E n \in Names : Begin(n)

Spec == Init /\ [][Next]_vars

\* The worker and the syncer keep working, the queue is fair, the watch delivers.
Fairness ==
    /\ WF_vars(Run) /\ WF_vars(Tick)
    /\ \A n \in Names : SF_vars(Begin(n)) /\ WF_vars(CacheSync(n))

FairSpec == Spec /\ Fairness

----------------------------------------------------------------------------
(* Properties. *)

Copy == [name : Names \cup {None}, cr : Cr, fresh : BOOLEAN]

\* Every variable keeps its type.
TypeOK ==
    /\ crs \in [Names -> Cr]
    /\ cache \in [Names -> Copy]
    /\ pending \subseteq Names /\ current \subseteq Names
    /\ queued \subseteq Names /\ listed \subseteq Names
    /\ pc \in WorkerCalls /\ spc \in SyncerCalls
    /\ inst \in Copy /\ copy \in Copy
    /\ pc # "idle" => inst.name \in Names
    /\ spc \in {"createCr", "listBranches", "reload", "write"} => copy.name \in Names
    /\ todo \subseteq Projects /\ projects \subseteq Projects
    /\ calm \in BOOLEAN

\* A deleted CR is released only when its project is gone from Gerrit, although a
\* run on a deleted CR creates the project first if it is missing.
ReleasedWithoutProject ==
    [][\A n \in Names : crs[n].phase = "deleting" /\ crs'[n].phase = "absent"
          => ProjectOf[n] \notin projects']_vars

\* A CR whose finalizer is still to be put on or taken off.
Unfinished(c) == c.phase = "deleting" \/ (c.phase = "live" /\ ~c.finalizer)

\* The CR is in the work queue, or the next watch event of it puts it there.
Noticed(n) ==
    \/ n \in queued
    \/ ~cache[n].fresh /\ (n \in pending \/ cache[n].cr.phase # crs[n].phase)

\* An unfinished CR is noticed or being worked on, although the syncers write it
\* as well, the cache is shared, and a status write ends a run without an event.
NothingForgotten ==
    \A n \in Names : Unfinished(crs[n]) => Noticed(n) \/ (pc # "idle" /\ inst.name = n)

\* Once calls stop failing and people stop, every project of Gerrit gets a CR with
\* an owner: what the syncer has left half done does not keep it from the rest.
AdoptsProjects ==
    \A p \in Projects :
        (calm /\ p \in projects)
            ~> (p \notin projects
                \/ \E n \in Names : ProjectOf[n] = p /\ crs[n].phase # "absent" /\ crs[n].owned)

\* Once calls stop failing the project of every CR that is made or edited exists,
\* at least for a while.
CreatesProjects ==
    \A n \in Names :
        (calm /\ crs[n].phase = "live" /\ n \in pending \cup queued)
            ~> (crs[n].phase # "live" \/ ProjectOf[n] \in projects)

\* Once calls stop failing every deleted CR goes away.
DeletionCompletes ==
    \A n \in Names : (calm /\ crs[n].phase = "deleting") ~> (crs[n].phase # "deleting")

\* controllers/gerritproject/syncer.go:98: "reload gerrit project to prevent
\* conflict with gerrit project operator".
ReloadPreventsConflicts ==
    [][Run /\ spc = "write" /\ copy.fresh => copy'.fresh]_vars

=============================================================================
