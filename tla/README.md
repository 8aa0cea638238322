# A TLA+ model of edp-gerrit-operator

The operator installs and configures a Gerrit code review server on Kubernetes
and keeps seven kinds of custom resources (CRs) in step with it. This directory
holds TLA+ modules of its controllers, TLC runs that check them on small
instances, and TLAPS proofs of the most important results for every value of
the constants. `PROJECT.json` lists the components, the runs, the hazards, the
mutants (a plausible bug per property, which the run must catch) and, for every
definition, the lines of the source it stands for.

    tlc -workers 2 -config GerritLifecycleSafety.cfg MCGerritLifecycle.tla
    tlapm GerritLifecycleProofs.tla

## 1. The system

| part | source | state it keeps | operations |
|---|---|---|---|
| Gerrit controller | `controllers/gerrit` | status and availability of the Gerrit CR | walks the CR through installing, created, configuring, configured, exposing, exposed, integration, ready; requeues itself |
| component service | `pkg/service/gerrit/gerrit.go` | secrets, the deployment's `LISTEN_ADDR`, annotations | `Configure` (take over the admin account, groups, All-Projects rules), `ExposeConfiguration` (CI and Argo users) |
| Gerrit client | `pkg/client/gerrit` | none; accounts, groups, projects, changes of the server | REST and SSH calls |
| platform service | `pkg/service/platform` | none; secrets, pods, services | Kubernetes or OpenShift calls |
| GerritMergeRequest controller | `controllers/merge_request`, `pkg/client/git` | CR status (change id, change status), a clone on disk | clone, commit, push for review, follow, abandon on deletion |
| GerritProject controller | `controllers/gerritproject/controller.go` | CR, finalizer | create, update, delete a project |
| project syncer | `controllers/gerritproject/syncer.go` | none; runs on a ticker | make a CR for every project without one, record branches |
| GerritReplicationConfig controller | `controllers/gerritreplicationconfig` | CR status, files in the Gerrit pod | append a replication remote, reload the plugin |
| GerritGroup, GerritGroupMember, GerritProjectAccess controllers | `controllers/gerritgroup*`, `controllers/gerritprojectaccess` | CR status (group id, created, failure count) | create or update the group, membership, access rights |
| controller helpers | `controllers/helper` | owner references, finalizers, failure count | `GetGerritClient`, `TryToDelete`, exponential backoff |
| wiring | `main.go` | none | flags, manager, leader election |

How they interact. Each controller has one worker (controller-runtime's
default), fed by a work queue that a watch fills; a handler reads its CR from
the informer's cache, which may be behind the API server, and writes to the API
server, which refuses an update of an old version. All of them wait for the
Gerrit CR: the replication controller for its status, the others for its admin
secret. The syncer is a goroutine beside the GerritProject worker and writes
the same CRs. Gerrit's users change projects and changes at the same time.

What is hard: any call may fail before or after it took effect; the operator
may restart between two calls; the CR a handler decides on may be old; an
update's conflict is retried, requeued or swallowed depending on the
controller; most watches filter the operator's own writes, so that progress
depends on requeues; and several calls hide failures (`errors.Wrapf` of a nil
error is nil, `AddUserToGroups` only logs a missing group, scripts run without `set -e`).
`PROJECT.json` lists these hazards at their lines with the properties about
them.

What makes each part correct: the lifecycle's own calls never lock the operator out
of Gerrit (the takeover script, which stops at nothing, can), it stores the passwords
it sets, announces a Gerrit only when it is usable, and gets there; a merge request CR keeps the one change that was pushed
for it, reports its merge, and does not leave it open; a project CR is released
only without its project, and every project of Gerrit is adopted; replication is
configured once, on a ready Gerrit; a child resource reaches Gerrit, and
what its last spec asks for leaves it with its CR.

## 2. Plan

1. `GerritLifecycle` with the abstract `GerritOnboarding`, and its proofs (done).
2. `GerritMergeRequest` and its proofs (done).
3. `GerritProjects`: the worker and the syncer together, with the syncer of a
   second replica, and their proofs (done).
4. `GerritReplication`: the replication configuration, whose guard is the
   lifecycle's "ready", and its proofs (done).
5. `GerritChildren`: GerritGroup, GerritGroupMember and GerritProjectAccess,
   with their finalizers, the status writes they swallow, two CRs that name the
   same member, and two Gerrits that share the REST client, and their proofs (done).
6. `Backoff`: the exponential timeout as a function of the failure count, with
   the width of `time.Duration`, and its proof (done).
7. `CrFinalizer`: what a finalizer promises, which `GerritMergeRequest` and
   `GerritProjects` implement, with the proofs; and `NothingForgotten`, the safety
   half of "progress depends on requeues", in each module, with its proofs (done).

Still worth having: the re-creation of a deleted CR and several Gerrits in every
module; `CrFinalizer` for `GerritChildren`, which needs a variable that remembers
what a released CR asked for (`ReleasedCleanly` states it without one); and what
`OkIsTrue` becomes with several Gerrits, if each controller had a client of its own.

## 3. How the modules are written

An action is one call of the code to the outside (API server, Gerrit, a pod,
the disk) with the code that follows it up to the next call; `pc` names the call
that comes next and `"idle"` is the time between two runs of the handler. The
handler's CR is `inst`; `fresh` says whether it is still the version in the API
server, which is what optimistic concurrency compares. `cache` is the informer's
copy and `queued` the work queue (which holds a key once). A call may

- have its effect and answer, or have its effect and lose the answer
  (`Then`, `UpdateAnd`),
- fail without an effect (`CallFails`),
- be cut off by a restart (`OperatorCrash`), which empties the handler's memory,
  brings the cache up to date and queues every CR.

`calm` is a variable of the environment: once it is TRUE no call fails and
nothing crashes. No specification assumes that it becomes TRUE; liveness
properties suppose it.

### GerritLifecycle (with GerritOnboarding)

`cr`, `cache`, `inst`: status and availability. `secrets`: password and key of
admin, edp-ci and argocd. `admin`, `accounts`, `groups`, `acl`: what Gerrit
holds; `acl` tells rules that are "pushed" behind Gerrit's back from "live" ones
it serves. `deploy`: readiness, number of pods, port variable. The actions of
`Handle` are `Reconcile` (the status writes with `updateStatusWithRetry`, the
readiness checks), those of `Configure` and `ExposeConfiguration` the calls of
the functions of that name, in their order. URL construction, the contents
of annotations and the service's target port (`UpdateService`, on which nothing the
model has depends) are left out. The cache may be of any age; a status write is made
at once, whatever the cache has, and a conflict is answered by reading it again.

`AddInitialAdminUser` is `add-initial-admin-user.sh`, which makes three pushes (the
membership of Administrators, the account's key, the login with the default
password) without `set -e`: any of them may fail while the others take effect. The
script is one step of the model: a Gerrit asked between two of its pushes, which only
the operator does, and only after it, is not modelled. Two of its outcomes matter.
With the login but no key, the default password lets the next run in, so the script is
never run again, and setting the password over SSH fails for ever
(`LockedOut`). With login and key but no membership (`Unprivileged`) the operator's
requests are refused with a 403, which `Configure` takes for a success, and the groups
it asks for are invisible to it, which `AddUserToGroups` only logs: the CR even
becomes ready, with nothing provisioned.

`GerritOnboarding` is the promise to those who wait for the CR: first the admin
account is taken over, then the CI administrator is provisioned, then the CR
announces Gerrit, and none of these is undone; or the takeover leaves an account
without rights, for good, and Gerrit may be announced without a CI administrator.
`ImplementsOnboarding` is the refinement, with `SshWorks /\ RestWorks`,
`Unprivileged`, `CiProvisioned` and `cr.available` for its four variables.

### GerritMergeRequest

One CR: its deletion state, finalizer, owner reference, change id and reported
status. `changes` are the changes pushed for it, in order of their numbers,
`dir` the clone in the work directory, `gerrit` the Gerrit CR that owns it.
`Begin` reads the cache and decides between creating the change and looking at
it; `GetGitClient`, `Clone`, `BuildCommit` (merge or files, one local step that
may fail), `Push`, `RemoveClone` are `createChange` and `commitFiles`;
`GetStatus` is `getChangeStatus`; `GetStatusToDelete`, `Abandon`,
`RemoveFinalizer` the deletion function within `TryToDelete`; `UpdateStatus`
the final status write. `RoundTrip` is what the handler's copy is after it has
written an owner reference: the API server's answer leaves out an empty status field,
and decoding it into the copy keeps the field's value there. `UserActs` submits, abandons, restores or deletes
changes.

`CrFinalizer` is what a finalizer promises, for any set of CRs: it is put on live
CRs only, a deleted CR that has it stays until it is taken off, and then what the
CR stands for in Gerrit has been cleaned up. `ImplementsFinalizer` is the
refinement: there is one CR, and Gerrit is clean when the change the CR has recorded
is not open. `GerritProjects` implements it, too (Proofs): there it means that the
project does not exist.

### GerritProjects

`crs`, `cache`, `pending` are the CRs, the informer's copies and the edits it
has not seen; `pc`, `inst` the worker's, `spc`, `listed`, `todo`, `copy` the
syncer's state, `projects` what Gerrit has. The worker's actions are
`tryToReconcile` and `TryToDelete`; the syncer's are the two lists
(`ListCrs`, `ListProjects`), and for each project `CreateCr`,
`ListProjectBranches`, `Reload` and `UpdateBranches`. An error ends the tick.
The syncer looks at the CRs it listed before the projects, so a project may
have a CR it does not know. The syncer is started before the manager and not held
back by leader election, so that during a rollout (one replica otherwise) another
pod's runs beside it: `OtherSyncer` is what that one writes, from listings of any
age: a CR of any project Gerrit may have had, and the status of any CR. `current`
holds the CRs whose status lists the branches as they stay: once calls have stopped
failing the first list still makes a new version of a CR, and a later one does not.

### GerritReplication

One CR whose `status` is the only memory of the work: the handler writes
"configuring", works, and writes "configured". `key`, `remotes`, `hosts` are
what it has put into the pod (the last two are counted, since `echo ... >>`
looks at nothing), `loaded` says whether the plugin knows the remote. Every
status write (`WriteStatus`, which is `updateStatus` and
`updateAvailableStatus`) is followed, if it fails, by an Update of the whole
object; `hidden` records the writes that failed and were covered up in this way.
`RoundTrip` is what such an Update leaves in memory. `createReplicationConfig`
and `createSshConfig` only make files that the appending calls write to, and are
part of them. `SshTemplate` says whether the template the code names is there
(it is not: the repository ships `ssh-config.tmpl`), `SelectorMatches` whether
the pod carries the label `deploymentconfig` (OpenShift's do). `GerritReady` and
`GerritTakenBack` are the Gerrit controller's: a CR that was ready may go back
while that controller still works from an old copy. `hidden` remembers that, too:
nothing tells the handler, which does not watch the Gerrit CR.

### GerritChildren (with Backoff)

Three controllers of one shape: a worker each (`pc`, `inst`), the same steps
around the calls that are theirs. `Begin` reads the cache, `SetOwner`
writes a missing owner reference, `GetRestClient` and `InitNewRestClient` set
the host and then the credentials of `client`, resty's one default client, unless
the controller has a client (`ready`); the Gerrit controller sets them in the same two
steps (`LifecycleInitsClient`). Then `CreateGroup` and `UpdateGroup`;
`AddUserToGroup`; `SetAccessRights`, unless the spec lists no rights, and
`SetProjectParent`, unless it names no parent; and, of
`TryToDelete`, `DeleteUserFromGroup` or `DeleteAccessRights`, `AddFinalizer` and
`Release`. `ReportOK` and `ReportError` are the end of `Reconcile` with the
deferred status write, whose failure is swallowed. A CR's `spec` is one value
that stands for a description, an account, or a parent and a list of rights
(`References`, each a pair of what it is about, which is a reference, a permission and
a group, and an action; of those about the same thing only the first is sent,
`RightsOf`); its `known` is `status.id` or `status.created`.
`groups`, `members`, `projects`, `rights`, `parents` are Gerrit; a request gets in
if the credentials are the host's (`Authorised`). "add" of access rights is taken
to leave what is there and "remove" to take away what is about the same, which is what the code sends both for in an update.

`Backoff` is `controllers/helper/status.go`. `Duration` is the conversion of a
float64 beyond the range of `time.Duration`, which Go leaves to the processor:
the smallest value on amd64, the largest on arm64. `Exponential` tabulates
`TimeOut * e^k`.

## 4. Runs

| run | shows |
|---|---|
| lifecycle_safety | types, no lock-out but by the takeover script, stored CI password, exposure is real, rules after groups, availability final, a CR whose readiness the operator has seen stays ready, refinement of GerritOnboarding, always another run until Gerrit is ready; every start, two pod counts, any cache age |
| lifecycle_recovery | once calls stop failing, Gerrit gets ready, and again whenever a run from an old copy takes that back, unless group creation stopped after the first group or the takeover script half-way |
| configured_without_admin, argo_password_lost, stuck_after_first_group | what the repository says and the code does not keep (see Findings) |
| mergerequest | a recorded change was pushed and is never replaced; once calls stop failing a CR gets its change and a merge is reported; a CR under deletion goes away, and with its change closed, as CrFinalizer has it; the polling of an open change never stops; nobody restores changes |
| projects_safety | the finalizer outlives the project; a CR that needs another run is queued, noticed or being worked on; a person's CR and the syncer's for one project, people delete projects, another replica's syncer writes |
| projects_liveness | every CR gets its project, every deletion completes, every project gets an owned CR; one project while calls fail, two when none does |
| replication | the remote is appended once unless a status write was covered up, configured is final, a configuration that has started is reported finished and until then has a run to come |
| replication_unfinished | finding: configured without being configured |
| children | OK is said only of a spec that has arrived; a deleted member or access CR goes away, and Gerrit then has nothing of its last spec; memberships, descriptions and rights arrive once calls stop failing; the backoff grows to its limit and always brings another run; a finalizer still to be put on or taken off is never forgotten |
| two_gerrits | finding: with two Gerrits a CR's request is let in by the other one |

### Bounds

- Lifecycle: two generated values (`Cred`) are enough to tell an old password
  from a new one, more add only names. `PodCounts` is {1, 2}: what the code tells
  apart. `EnvPorts` holds an unset port and the right one. The liveness run has one
  start, one pod and no Keycloak, which the recovery does not depend on; in both runs
  the cache is of any age. The status does go back while runs start from copies
  older than the write of "ready"; it cannot once one has seen it (`ReadySeen`).
- Merge requests: `MaxChanges` (2) bounds the changes one CR can push; at the
  bound nothing fails and no run starts from an old copy. Two changes are what a
  replaced record needs. `GerritMergeRequestSafety.cfg` checks the safety
  properties with three changes and people who restore them; the theorems have no bound.
- Projects: two CRs of one project for the safety of the finalizer. For liveness
  one project and all failures (the order of projects does not matter there), or
  two projects and no failure but those the two loops cause each other
  (`LivenessInit`, `LivenessNext`: the second project's CR comes when none fails).
  The constraint `Failing` of projects_safety stops at the state
  where calls stop failing, which only takes steps away. The names a person and the syncer give are different (`SyncName`), or the same in the runs
  of one name.
- Replication: `MaxRemotes` (3) stops failures once the remote was appended three
  times; twice is what the property is about. It is 0 in replication_unfinished,
  where nothing needs to fail.
- Children: specs are edited one way, from "s1" to "s2", whose rights replace one of
  "s1" and drop another; "s1" lists one right in vain, about the same as another, and
  names no parent. While calls fail and people act there is one CR, of each
  kind in turn, with what it needs of Gerrit to come (`GerritChanges`) or be there;
  a group CR with a member CR of it run together when nothing fails (`ChildrenInit`). The
  workers share nothing but the client and what one creates for the other, and
  failures concern one run at a time. `MaxFailures` (2) with a `Width` of 5 bits
  puts each branch of the backoff within reach: below the limit, above it, and beyond the width.
- `NothingForgotten` is a statement about every state, so that it holds while calls
  fail and people act, which the liveness properties only suppose to end. What
  it takes for granted is what they assume as fairness: the queue and the watches.
- Deadlock is not checked in the merge request and replication runs: after a
  deleted CR is gone and calls stopped failing nothing is left to do.

### Fairness

`WF(Reconcile)` (or `WF(Run)`, `WF(Tick)`): the worker's goroutine and the
syncer's keep running, and every path of a handler that does not end in success
returns an error or a requeue. `SF(Begin(n))`: the work queue is first in, first
out, so a queued CR gets its turn although others are queued again and again.
`WF(CacheSync)`: the watch delivers. `WF(DeploymentSettles)`: a deployment comes
up at some time. In `GerritChildren`
each worker has its own `WF`. Nothing is assumed of people, of failures (`calm` is only
supposed), of crashes, or of the order of the syncer's map.

## 5. Findings

Each is a run that states what the repository says and finds it violated.

- `service/gerrit/gerrit.go:170` wraps an error for a pod count other than one, and
  `gerrit_test.go:413` expects an error where the pods cannot be listed; for two pods
  the error wrapped is nil, `errors.Wrapf` of nil returns nil, and the Gerrit counts as
  configured (configured_without_admin).
- `service/gerrit/gerrit.go:641`: its credentials are to be stored; a second run
  generates a password and does not store it (argo_password_lost).
- The README has the operator configure Gerrit; after a failure between the
  first two groups it never does, nor after a takeover script whose key was not pushed
  while the password was (stuck_after_first_group).
- `gerritreplicationconfig_controller.go:167` logs a configuration as finished that
  an earlier run has started and not finished; with the template the code names
  but the repository does not ship that is every configuration
  (replication_unfinished).
- `api/v1/gerritgroupmember_types.go:10`: the owner decides which Gerrit the client
  is for; `InitNewRestClient` overwrites the one default client, and `GetRestClient`
  keeps the first (two_gerrits).

Other divergences have a cfg of their own and no place among the runs:
`GerritMergeRequestFirstGerrit.cfg` (`api/v1/gerritmergerequest_types.go:12`: without an
owner name the first Gerrit is taken; the git client looks for one without a name,
and the CR never gets a change),
`GerritLifecycleReadyMeansRulesServed.cfg` (`client/gerrit/gerrit.go:327` says why the
caches must be flushed after the rules; after a crash in between nobody does),
`GerritLifecycleReadyMeansArgoReader.cfg` (`service/gerrit/gerrit.go:640`: the Argo
user is added to ReadOnly; a missing group is only logged),
`GerritChildrenGroupInSync.cfg` (`controllers/gerritgroup/controller.go:156`: a group that
exists is brought in sync with the CR; not if it was made by somebody else, as the
comment grants, and not if the status write with its id was lost, in both cases
with the status OK), `GerritChildrenMembershipLasts.cfg` (of two CRs for one account the
deletion of one removes the membership of the other, whose status stays OK) and
`GerritProjectsReload.cfg` (`controllers/gerritproject/syncer.go:98`: the reload is to
prevent conflicts; it reads the cache and leaves the window open).

Seen while modelling, and not properties: a service port with NodePort 0 is
never equal to the deployment's, which is patched on every run; `GetService`
answers (nil, nil) for a missing service, which the port lookup dereferences
(`gerrit.go:598`); a merge request CR whose change was deleted in Gerrit, or whose
Gerrit CR is gone, keeps its finalizer for good; a replication CR created before
its Gerrit is ready is marked available and configured only by an edit, a
resync or a restart; nothing removes the remote of a deleted one. The finalizers
of members and access CRs are written after the membership or the rights: a CR
deleted in between leaves them in Gerrit. A deleted member or access CR whose
group or project is gone is never released, since its runs add before they
remove. Rights dropped from a spec stay in the project. `prepareMergeRequestReconciler`
in `main.go` answers a work directory that cannot be made with a nil error, and the
operator runs without that controller.

## 6. Proofs

`GerritLifecycleProofs` proves, from the assumptions on the constants that
`GerritLifecycle` declares, `TypeOK`, `LockedOutOnlyByTheScript`,
`CiPasswordMatches`, `ExposedMeansCiProvisioned`, `RulesNameExistingGroups`,
`AvailableNeverRevoked`, `ReadySeenStaysReady`, and the refinement
`ImplementsOnboarding`, all with a cache of any age. The
invariants are not inductive: that the CI user exists at "exposed" depends on
where the handler is, and on what a CR, its cached copy
and the handler's copy may say at all. The inductive invariant therefore has a
part per control point (what has been done by the time the handler is there) and
a part per copy (a copy that says exposed implies the CI administrator, for
every age of the copy), and both parts are preserved because secrets, accounts
and groups only grow, and an account without rights never gets any.

The status is not monotone: a run from an old copy repeats its writes after a conflict.
What holds is that readiness is final once it is known: if the CR, the cache and the
copy of a run under way, past its status writes, are ready (`ReadySeen`), every later
copy is at least as new as one of these. `ReadinessIsFinal` says it of the time between two runs:
the CR and the cache ready, the CR is ready for ever. Before that `GerritReplication` sees
a Gerrit that may be taken back (`GerritTakenBack`).

`GerritMergeRequestProofs` proves `TypeOK`, `RecordedWasPushed`,
`RecordedNeverReplaced`, and, if people do not restore abandoned changes,
`DeletionClosesTheChange`. Its inductive invariant is `TypeOK` with three parts:
a fresh copy is the CR itself and an older one names no other change
(`CopiesAgree`), every number in a copy is one of a pushed change
(`NumbersArePushed`), and at "removeFinalizer" the change is closed
(`ClosedBeforeRelease`). `PhaseInv` adds how the copies follow the CR's deletion;
from it follows the refinement `ImplementsFinalizer`, under the same condition.

`GerritReplicationProofs` proves `TypeOK`, `AppendedOnce` and
`ConfiguredIsFinal`. After a failed status write that an Update covers up the
handler holds a status the CR does not have, so that "a current copy is the CR"
is not invariant; what is: a current copy has the CR's status unless the CR has
none (`Agrees`), a configuration starts only from a copy that says that none has
(`StartsUnconfigured`), and where no start was covered up, the remote is
appended only after the CR says so (`StartedOnce`). Started and configured then
survive every write, because those made on old copies are refused.

`GerritProjectsProofs` proves `TypeOK` and, if people make no projects
themselves, `ReleasedWithoutProject`. What the syncer stores is a copy it has read,
so types need that the cache has every CR under its own name and that the copies of
worker and syncer name one; the second theorem needs that at "release" the project
is gone and stays so (`GoneBeforeRelease`), and that nothing but `Release` drops a
deleted CR. Under the same condition `ImplementsTheFinalizer` proves that
`GerritProjects` implements `CrFinalizer`, CR by CR: every step leaves all CRs as
they are, or makes one, puts the finalizer on it, deletes or releases it. TLC has no
run for it: with the instance of `projects_safety` it agrees, in more time
than the safety properties take, and says no more than `ReleasedWithoutProject` and
the proof.

`GerritChildrenProofs` proves `TypeOK` and, with one Gerrit (`OneGerrit`),
`ReleasedCleanly` and `OkIsTrue`. With two Gerrits both fail for the reason that
run `two_gerrits` shows. The inductive invariant has the types, with what they rest
on: a CR that is there has a spec, and a worker that has initialised its client
leaves a host behind (`RestOK`); that a worker's copy of the current version is the
CR but for the status (`Agrees`); and what a run has achieved at its last calls, as
a statement about the worker's copy and Gerrit (`Achieved`): at "release" nothing
of what it asks for is left, at "reportOK" Gerrit has what the copy asks for. A write is stored only
from a current copy, so that the same then holds of the CR. Two lemmas carry the
rest: each server variable is changed by one worker or only from `None`
(`GroupStays`, `MemberStays`, `AccessStays`), and only a report makes a CR OK, only
a release drops one under deletion (`Writes`).

Each of the modules above proves its `NothingForgotten`, for `GerritChildren` in
`GerritChildrenQueueProofs`. Where CRs are edited and deleted the hard part is the cache.
A watch event queues a CR only if the predicate sees a difference between the cached
copy and the new one, so a write that is not seen as one is lost as a wake-up; and
a run that ends well asks for no other. So the invariant (`Seen`, `PhaseInv`) says
that the cache lacks only progress of the CR (`CacheFollows`): a CR that has moved
on to deletion is behind an event that is due. And it says that a worker
is relied upon only while its own copy has work left: a run that reports success has
a copy that is finished, and if the CR is not, the copy is old, and an event is due.
In `GerritChildren` it also takes `TimeoutRequeues`: a backoff of no time at all would
end the retries, and no overflow yields one. In `GerritLifecycle`
(`WakeInv`) a run on an old copy, and one that ends without having seen "ready", leave
a CR that is queued or a watch event that queues it. In `GerritReplication`
(`QueueInv`), where no write was covered up, no copy knows more than the CR says, so
that a run that ends well has found or written the last status.

`BackoffProofs` proves `TimeoutRequeues`: for every width, limit and table of
exponentials `getTimeout` yields a time from 1 to `MaxTimeOut`.

Only model-checked: liveness under fairness (`RecoversUnlessHalfDone`,
`OpensItsChange`, `ReportsTheMerge`, `CreatesProjects`, `AdoptsProjects`,
`FinishesConfiguration`, `MembershipArrives`, `GroupFollowsSpec`, `RightsArrive`,
`RightsReplaced`, `BacksOff` and each `DeletionCompletes`), which is beyond this
prover. Every safety property that a passing run checks is proved.

## 7. Not modelled

- The texts of statuses, annotations, URLs, templates, and the contents of
  commits: no property is about them.
- In `GerritProjects` the value of `status.value`, the deletion of the Gerrit CR,
  and slugs that coincide: the syncer's `Create` would then fail on every tick.
- In `GerritChildren` the options of a group, the re-creation of a deleted CR,
  people who take memberships, rights, groups or projects away, the deletion of the
  Gerrit CR, and the default password with which the lifecycle uses the shared
  client during its takeover.
- OpenShift: the same calls against other resource types.
- The states of Gerrit between the pushes of a script.
- Several Gerrits but in `GerritChildren`; a second replica but for its syncer
  (leader election, on in a cluster, keeps its workers from running).
- Charts, CRDs, generated code, mocks, start-up code: no state of their own.
