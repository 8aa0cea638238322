--------------------------- MODULE GerritChildren ---------------------------
(***************************************************************************)
(* The controllers of GerritGroup, GerritGroupMember and                   *)
(* GerritProjectAccess CRs (controllers/gerritgroup, gerritgroupmember and *)
(* gerritprojectaccess): one worker each, the same steps around the calls  *)
(* that are theirs, and one REST client among them, resty's default.       *)
(*                                                                         *)
(* An action is one call with the code up to the next one.                 *)
(***************************************************************************)
EXTENDS Naturals, Backoff

CONSTANTS Names,       \* names of CRs
          KindOf,      \* the kind of a CR
          Gerrits,     \* Gerrit CRs, and the servers they stand for
          OwnerOf,     \* the Gerrit that a CR names or finds
          Specs,       \* what a spec says: the description, the account, the rights
          Edits,       \* the edits of specs: pairs of the old and the new one
          References,  \* what a spec lists: rights, each a pair of what it is about (a
                       \* reference, permission and group) and an action
          Parentless,  \* the specs that name no parent project
          SyncInterval,\* GERRIT_GROUP_MEMBER_SYNC_INTERVAL, or 0
          None         \* nothing

Kinds == {"group", "member", "access"}

ASSUME NameAssumption ==
    /\ KindOf \in [Names -> Kinds]
    /\ OwnerOf \in [Names -> Gerrits]
    /\ None \notin Names \cup Gerrits \cup Specs
ASSUME SpecAssumption ==
    /\ Edits \subseteq Specs \X Specs
    /\ DOMAIN References = Specs
    /\ Parentless \subseteq Specs
ASSUME SyncIntervalAssumption == SyncInterval \in Nat

\* The rights that are sent for a spec: the first one listed about each thing.
RightsOf == [s \in Specs |-> LET refs == References[s] IN
    {refs[i] : i \in {i \in DOMAIN refs : \A j \in 1..(i - 1) : refs[j][1] # refs[i][1]}}]

VARIABLES crs,      \* the CRs in the API server
          cache,    \* the informers' copies of them
          pending,  \* the CRs edited since the cache was brought up to date
          queued,   \* the CRs in the work queues
          pc,       \* each worker's next call; "idle" between reconciliations
          inst,     \* each worker's copy of the CR it reconciles
          client,   \* the server and the credentials of resty's default client
          ready,    \* the workers that have initialised their REST client
          groups,   \* the description of the group in each Gerrit, or None
          members,  \* the accounts in the group
          projects, \* the Gerrits that have the project
          rights,   \* the rights in the project
          parents,  \* the spec whose parent the project has, or None
          calm,     \* TRUE once calls have stopped failing (environment)
          busy      \* FALSE once people have stopped changing CRs and Gerrit

kube   == <<crs, cache, pending>>
work   == <<queued, pc, inst>>
rest   == <<client, ready>>
server == <<groups, members, projects, rights, parents>>
world  == <<calm, busy>>
vars   == <<crs, cache, pending, queued, pc, inst, client, ready,
            groups, members, projects, rights, parents, calm, busy>>

Phases == {"absent", "live", "deleting"}

\* known: the group's id, or that the rights were created, is in the status.
Cr == [phase : Phases, finalizer : BOOLEAN, owned : BOOLEAN, spec : Specs \cup {None},
       value : {"", "OK", "error"}, known : BOOLEAN, failures : Failures]
Absent == [phase |-> "absent", finalizer |-> FALSE, owned |-> FALSE, spec |-> None,
           value |-> "", known |-> FALSE, failures |-> 0]
NewCr(s) == [Absent EXCEPT !.phase = "live", !.spec = s]

\* A copy of the CR n, and whether it still is the API server's version.
CopyOf(n, c, fresh) == [name |-> n, cr |-> c, fresh |-> fresh]
NoCopy == CopyOf(None, Absent, FALSE)

GerritCalls == {"create", "update", "add", "rights", "parent", "remove"}
Calls == {"idle", "owner", "host", "auth", "addFinalizer", "release",
          "reportOK", "reportError"} \cup GerritCalls

\* The operator starts beside CRs people have made.
Init ==
    /\ crs \in [Names -> {Absent} \cup {NewCr(s) : s \in Specs}]
    /\ cache = [n \in Names |-> CopyOf(n, crs[n], TRUE)]
    /\ pending = {}
    /\ queued = {n \in Names : crs[n].phase # "absent"}
    /\ pc = [k \in Kinds |-> "idle"]
    /\ inst = [k \in Kinds |-> NoCopy]
    /\ client = [host |-> None, auth |-> None]
    /\ ready = {}
    /\ groups \in [Gerrits -> Specs \cup {None}]
    /\ members = [g \in Gerrits |-> {}]
    /\ projects \in SUBSET Gerrits
    /\ rights = [g \in Gerrits |-> {}]
    /\ parents = [g \in Gerrits |-> None]
    /\ calm \in BOOLEAN /\ busy \in BOOLEAN

----------------------------------------------------------------------------
(* How a worker goes on. *)

Goto(k, p) == pc' = [pc EXCEPT ![k] = p] /\ UNCHANGED <<queued, inst>>

\* tryToReconcile returns an error, which becomes the CR's status.
Fail(k) == Goto(k, "reportError")

\* The call has had its effect; its answer may be lost.
Then(k, p) == Goto(k, p) \/ (~calm /\ Fail(k))

\* The API server takes a write only of the current version.
Store(k, c) ==
    LET n == inst[k].name IN
    /\ inst[k].fresh
    /\ crs' = [crs EXCEPT ![n] = c]
    /\ cache' = [cache EXCEPT ![n].fresh = FALSE]
    /\ UNCHANGED pending

\* The worker's copy becomes what the server returns.
UpdateAnd(k, c, next) ==
    \/ /\ Store(k, c)
       /\ UNCHANGED queued
       /\ \/ /\ pc' = [pc EXCEPT ![k] = next]
             /\ inst' = [inst EXCEPT ![k].cr = c]
          \/ /\ ~calm
             /\ pc' = [pc EXCEPT ![k] = "reportError"]
             /\ inst' = [inst EXCEPT ![k].fresh = FALSE]
    \/ ~inst[k].fresh /\ Fail(k) /\ UNCHANGED kube

CrNow(k) == crs[inst[k].name]
Asked(k) == inst[k].cr.spec

\* Where requests go, and whether the server there takes the credentials.
Host == client.host
Authorised == client.auth = client.host

\* Mutant of Deletion: what the status does not call created is not removed.
DeletionOfCreated(k) ==
    IF inst[k].cr.phase = "deleting" THEN IF inst[k].cr.known THEN "remove" ELSE "release"
    ELSE IF inst[k].cr.finalizer THEN "reportOK" ELSE "addFinalizer"

\* The next call of TryToDelete; nothing is left to do with a finalizer in place.
Deletion(k) ==
    IF inst[k].cr.phase = "deleting" THEN "remove"
    ELSE IF inst[k].cr.finalizer THEN "reportOK" ELSE "addFinalizer"

----------------------------------------------------------------------------
(* Reconcile and GetGerritClient. *)

Begin(n) ==
    LET k == KindOf[n] IN
    /\ pc[k] = "idle"
    /\ n \in queued
    /\ queued' = queued \ {n}
    /\ IF cache[n].cr.phase = "absent"
       THEN UNCHANGED <<pc, inst>>
       ELSE pc' = [pc EXCEPT ![k] = "owner"] /\ inst' = [inst EXCEPT ![k] = cache[n]]
    /\ UNCHANGED <<kube, rest, server, world>>

\* A missing owner reference is written first.
SetOwner(k) ==
    /\ pc[k] = "owner"
    /\ \/ inst[k].cr.owned /\ Goto(k, "host") /\ UNCHANGED kube
       \/ /\ ~inst[k].cr.owned
          /\ UpdateAnd(k, [crs[inst[k].name] EXCEPT !.owned = TRUE], "host")
    /\ UNCHANGED <<rest, server, world>>

\* A spec without references asks for no rights, one without a parent for none.
AfterRights(k) == IF Asked(k) \in Parentless THEN Deletion(k) ELSE "parent"

\* The first call after the client's initialisation.
FirstCall(k) ==
    CASE k = "group"  -> "create"
      [] k = "member" -> "add"
      [] k = "access" -> IF RightsOf[Asked(k)] # {} THEN "rights" ELSE AfterRights(k)

\* Mutant of GetRestClient: the client is taken to be initialised.
GetRestClientAsIs(k) ==
    /\ pc[k] = "host"
    /\ Goto(k, FirstCall(k))
    /\ UNCHANGED <<client, kube, ready, server, world>>

\* GetRestClient: a controller keeps the client it has initialised once.
GetRestClient(k) ==
    /\ pc[k] = "host"
    /\ \/ k \in ready /\ Goto(k, FirstCall(k)) /\ UNCHANGED client
       \/ /\ k \notin ready
          /\ client' = [client EXCEPT !.host = OwnerOf[inst[k].name]]
          /\ Goto(k, "auth")
    /\ UNCHANGED <<kube, ready, server, world>>

\* InitNewRestClient sets the default client's host, and then its credentials.
InitNewRestClient(k) ==
    /\ pc[k] = "auth"
    /\ client' = [client EXCEPT !.auth = OwnerOf[inst[k].name]]
    /\ ready' = ready \cup {k}
    /\ Goto(k, FirstCall(k))
    /\ UNCHANGED <<kube, server, world>>

----------------------------------------------------------------------------
(* The calls to Gerrit. *)

\* The request at pc reaches a server that lets it in.
Request(k, p) == pc[k] = p /\ Authorised

\* Mutant of CreateGroup: a group that exists is taken to be as the CR says.
CreateGroupOnce ==
    /\ Request("group", "create")
    /\ \/ /\ groups[Host] = None
          /\ groups' = [groups EXCEPT ![Host] = Asked("group")]
          /\ \/ /\ pc' = [pc EXCEPT !["group"] = "reportOK"]
                /\ inst' = [inst EXCEPT !["group"].cr.known = TRUE]
                /\ UNCHANGED queued
             \/ ~calm /\ Fail("group")
       \/ groups[Host] # None /\ Goto("group", "reportOK") /\ UNCHANGED groups
    /\ UNCHANGED <<kube, rest, members, projects, rights, parents, world>>

\* CreateGroup.  What is known of the group is written with the status only.
CreateGroup ==
    /\ Request("group", "create")
    /\ \/ /\ groups[Host] = None
          /\ groups' = [groups EXCEPT ![Host] = Asked("group")]
          /\ \/ /\ pc' = [pc EXCEPT !["group"] = "reportOK"]
                /\ inst' = [inst EXCEPT !["group"].cr.known = TRUE]
                /\ UNCHANGED queued
             \/ ~calm /\ Fail("group")
       \/ /\ groups[Host] # None
          /\ Goto("group", IF inst["group"].cr.known THEN "update" ELSE "reportOK")
          /\ UNCHANGED groups
    /\ UNCHANGED <<kube, rest, members, projects, rights, parents, world>>

\* The description, then the options, which are not modelled.
UpdateGroup ==
    /\ Request("group", "update")
    /\ groups[Host] # None
    /\ groups' = [groups EXCEPT ![Host] = Asked("group")]
    /\ Then("group", "reportOK")
    /\ UNCHANGED <<kube, rest, members, projects, rights, parents, world>>

\* A member under deletion is added, too.
AddUserToGroup ==
    /\ Request("member", "add")
    /\ groups[Host] # None
    /\ members' = [members EXCEPT ![Host] = @ \cup {Asked("member")}]
    /\ Then("member", Deletion("member"))
    /\ UNCHANGED <<kube, rest, groups, projects, rights, parents, world>>

DeleteUserFromGroup ==
    /\ Request("member", "remove")
    /\ groups[Host] # None /\ Asked("member") \in members[Host]
    /\ members' = [members EXCEPT ![Host] = @ \ {Asked("member")}]
    /\ Then("member", "release")
    /\ UNCHANGED <<kube, rest, groups, projects, rights, parents, world>>

\* The rights the spec asks for, and those in the project about the same.
Listed == RightsOf[Asked("access")]
Replaced == {r \in rights[Host] : \E s \in Listed : s[1] = r[1]}

\* Mutant of SetAccessRights: rights are added, also when they were created before.
SetAccessRightsAdding ==
    /\ Request("access", "rights")
    /\ Host \in projects
    /\ rights' = [rights EXCEPT ![Host] = @ \cup Listed]
    /\ Then("access", AfterRights("access"))
    /\ UNCHANGED <<kube, rest, groups, members, projects, parents, world>>

\* AddAccessRights until the rights are known to be created, then
\* UpdateAccessRights, which removes what is there about the same.
SetAccessRights ==
    /\ Request("access", "rights")
    /\ Host \in projects
    /\ rights' = [rights EXCEPT ![Host] =
                     (IF inst["access"].cr.known THEN @ \ Replaced ELSE @) \cup Listed]
    /\ Then("access", AfterRights("access"))
    /\ UNCHANGED <<kube, rest, groups, members, projects, parents, world>>

SetProjectParent ==
    /\ Request("access", "parent")
    /\ Host \in projects
    /\ parents' = [parents EXCEPT ![Host] = Asked("access")]
    /\ Then("access", Deletion("access"))
    /\ UNCHANGED <<kube, rest, groups, members, projects, rights, world>>

DeleteAccessRights ==
    /\ Request("access", "remove")
    /\ Host \in projects
    /\ rights' = [rights EXCEPT ![Host] = @ \ Replaced]
    /\ Then("access", "release")
    /\ UNCHANGED <<kube, rest, groups, members, projects, parents, world>>

----------------------------------------------------------------------------
(* TryToDelete's writes and the end of a run. *)

AddFinalizer(k) ==
    /\ pc[k] = "addFinalizer"
    /\ UpdateAnd(k, [crs[inst[k].name] EXCEPT !.finalizer = TRUE], "reportOK")
    /\ UNCHANGED <<rest, server, world>>

\* Without its last finalizer the API server drops the deleted CR.
Release(k) ==
    /\ pc[k] = "release"
    /\ UpdateAnd(k, Absent, "reportOK")
    /\ UNCHANGED <<rest, server, world>>

\* The status at the end of a run: only members count their failures, and only
\* an access CR learns here that its rights were created.
Status(k) ==
    IF pc[k] = "reportOK"
    THEN [inst[k].cr EXCEPT !.value = "OK", !.failures = 0,
                            !.known = @ \/ k = "access"]
    ELSE [inst[k].cr EXCEPT !.value = "error",
                            !.failures = IF k = "member" THEN SetFailureCount(@) ELSE @]

\* Mutant of WriteStatus: the status is written whatever the version.
WriteStatusUnversioned(k) ==
    LET n == inst[k].name  s == Status(k) IN
    IF crs[n].phase = "absent" THEN UNCHANGED kube
    ELSE /\ crs' = [crs EXCEPT ![n].value = s.value, ![n].known = s.known,
                               ![n].failures = s.failures]
         /\ cache' = [cache EXCEPT ![n].fresh = FALSE]
         /\ UNCHANGED pending

\* The deferred update of the status: that it fails is only logged.
WriteStatus(k) ==
    \/ CrNow(k).phase # "absent" /\ Store(k, Status(k))
    \/ /\ ~calm \/ ~inst[k].fresh \/ CrNow(k).phase = "absent"
       /\ UNCHANGED kube

Stop(k) ==
    /\ pc' = [pc EXCEPT ![k] = "idle"]
    /\ inst' = [inst EXCEPT ![k] = NoCopy]

ReportOK(k) ==
    /\ pc[k] = "reportOK"
    /\ WriteStatus(k)
    /\ Stop(k)
    /\ UNCHANGED <<queued, rest, server, world>>

RequeueTime(failures) ==
    IF SyncInterval > 0 THEN {SyncInterval} ELSE getTimeout(failures)

\* Mutant of ReportError: only members ask for another run.
ReportErrorOnce(k) ==
    LET n == inst[k].name IN
    /\ pc[k] = "reportError"
    /\ WriteStatus(k)
    /\ Stop(k)
    /\ queued' = IF k = "member" THEN queued \cup {n} ELSE queued
    /\ UNCHANGED <<rest, server, world>>

\* After an error another run is asked for, after a fixed time or the backoff of a
\* member; a time that is not positive asks for none.
ReportError(k) ==
    LET n == inst[k].name IN
    /\ pc[k] = "reportError"
    /\ WriteStatus(k)
    /\ Stop(k)
    /\ \/ k # "member" /\ queued' = queued \cup {n}
       \/ /\ k = "member"
          /\ \E t \in RequeueTime(inst[k].cr.failures) :
                queued' = IF t > 0 THEN queued \cup {n} ELSE queued
    /\ UNCHANGED <<rest, server, world>>

\* The call made at pc cannot succeed as things are.
Hopeless(k) ==
    \/ pc[k] \in GerritCalls /\ ~Authorised
    \/ pc[k] \in {"update", "add"} /\ groups[Host] = None
    \/ pc[k] \in {"rights", "parent"} /\ Host \notin projects
    \/ k = "member" /\ pc[k] = "remove" /\ Asked(k) \notin members[Host]
    \/ k = "access" /\ pc[k] = "remove" /\ Host \notin projects

CallFails(k) ==
    /\ pc[k] \in {"owner", "host", "addFinalizer", "release"} \cup GerritCalls
    /\ ~calm \/ Hopeless(k)
    /\ Fail(k)
    /\ UNCHANGED <<kube, rest, server, world>>

----------------------------------------------------------------------------
(* The environment. *)

OperatorCrash ==
    /\ ~calm
    /\ cache' = [n \in Names |-> CopyOf(n, crs[n], TRUE)]
    /\ pending' = {}
    /\ queued' = {n \in Names : crs[n].phase # "absent"}
    /\ pc' = [k \in Kinds |-> "idle"]
    /\ inst' = [k \in Kinds |-> NoCopy]
    /\ client' = [host |-> None, auth |-> None]
    /\ ready' = {}
    /\ UNCHANGED <<crs, server, world>>

\* Mutant of CacheSync: the predicate compares specs only, deletions are not seen.
CacheSyncOfSpecs(n) ==
    /\ ~cache[n].fresh
    /\ cache' = [cache EXCEPT ![n] = CopyOf(n, crs[n], TRUE)]
    /\ queued' = IF n \in pending THEN queued \cup {n} ELSE queued
    /\ pending' = pending \ {n}
    /\ UNCHANGED <<crs, pc, inst, rest, server, world>>

\* A watch event: it queues a CR that was edited or deleted.
CacheSync(n) ==
    /\ ~cache[n].fresh
    /\ cache' = [cache EXCEPT ![n] = CopyOf(n, crs[n], TRUE)]
    /\ queued' = IF n \in pending \/ cache[n].cr.phase # crs[n].phase
                 THEN queued \cup {n} ELSE queued
    /\ pending' = pending \ {n}
    /\ UNCHANGED <<crs, pc, inst, rest, server, world>>

\* Somebody else's write: the worker's copy is an old one.
PeopleStore(n, c) ==
    /\ crs' = [crs EXCEPT ![n] = c]
    /\ cache' = [cache EXCEPT ![n].fresh = FALSE]
    /\ inst' = [k \in Kinds |-> IF inst[k].name = n THEN [inst[k] EXCEPT !.fresh = FALSE]
                                ELSE inst[k]]
    /\ UNCHANGED <<queued, pc, rest, server, world>>

CrEdited(n) ==
    /\ busy
    /\ crs[n].phase # "absent"
    /\ \E s \in Specs : /\ <<crs[n].spec, s>> \in Edits
                        /\ PeopleStore(n, [crs[n] EXCEPT !.spec = s])
    /\ pending' = pending \cup {n}

CrDeleted(n) ==
    /\ busy
    /\ crs[n].phase = "live"
    /\ PeopleStore(n, IF crs[n].finalizer THEN [crs[n] EXCEPT !.phase = "deleting"]
                      ELSE Absent)
    /\ UNCHANGED pending

\* Others make the project (the GerritProject controller, people), and the group.
GerritChanges(g) ==
    /\ busy
    /\ \/ /\ g \notin projects /\ projects' = projects \cup {g}
          /\ UNCHANGED groups
       \/ /\ groups[g] = None
          /\ \E s \in Specs : groups' = [groups EXCEPT ![g] = s]
          /\ UNCHANGED projects
    /\ UNCHANGED <<kube, work, rest, members, rights, parents, world>>

\* The Gerrit controller initialises the default client, whenever it works on g, in
\* the same two steps.  (A host that another worker sets between the two is as well
\* set after them, by that worker or by the initialisation for another Gerrit.)
LifecycleInitsClient(g) ==
    /\ \/ client' = [client EXCEPT !.host = g]
       \/ client.host = g /\ client' = [client EXCEPT !.auth = g]
    /\ UNCHANGED <<kube, work, ready, server, world>>

CallsStopFailing ==
    /\ ~calm
    /\ calm' = TRUE
    /\ UNCHANGED <<kube, work, rest, server, busy>>

PeopleStop ==
    /\ busy
    /\ busy' = FALSE
    /\ UNCHANGED <<kube, work, rest, server, calm>>

Common(k) ==
    \/ SetOwner(k) \/ GetRestClient(k) \/ InitNewRestClient(k)
    \/ ReportOK(k) \/ ReportError(k) \/ CallFails(k)

Finalizer(k) == AddFinalizer(k) \/ Release(k)

GroupRun == Common("group") \/ CreateGroup \/ UpdateGroup
MemberRun ==
    Common("member") \/ Finalizer("member") \/ AddUserToGroup \/ DeleteUserFromGroup
AccessRun ==
    \/ Common("access") \/ Finalizer("access")
    \/ SetAccessRights \/ SetProjectParent \/ DeleteAccessRights

Environment ==
    \/ OperatorCrash \/ CallsStopFailing \/ PeopleStop
    \/ \E n \in Names : CacheSync(n) \/ CrEdited(n) \/ CrDeleted(n)
    \/ \E g \in Gerrits : GerritChanges(g) \/ LifecycleInitsClient(g)

Next ==
    \/ GroupRun \/ MemberRun \/ AccessRun \/ Environment
    \/ \E n \in Names : Begin(n)

Spec == Init /\ [][Next]_vars

\* The workers keep working, the queues are fair, the watches deliver.
Fairness ==
    /\ WF_vars(GroupRun) /\ WF_vars(MemberRun) /\ WF_vars(AccessRun)
    /\ \A n \in Names : SF_vars(Begin(n)) /\ WF_vars(CacheSync(n))

----------------------------------------------------------------------------
(* Properties. *)

Copy == [name : Names \cup {None}, cr : Cr, fresh : BOOLEAN]

\* Every variable keeps its type.
TypeOK ==
    /\ crs \in [Names -> Cr]
    /\ cache \in [Names -> Copy]
    /\ pending \subseteq Names /\ queued \subseteq Names
    /\ pc \in [Kinds -> Calls]
    /\ inst \in [Kinds -> Copy]
    /\ \A k \in Kinds : pc[k] # "idle" => inst[k].name \in Names
    /\ client \in [host : Gerrits \cup {None}, auth : Gerrits \cup {None}]
    /\ \A k \in Kinds : pc[k] \in GerritCalls => Host # None
    /\ ready \subseteq Kinds
    /\ groups \in [Gerrits -> Specs \cup {None}]
    /\ members \in [Gerrits -> SUBSET Specs]
    /\ projects \subseteq Gerrits
    /\ rights \in [Gerrits -> SUBSET UNION {RightsOf[s] : s \in Specs}]
    /\ parents \in [Gerrits -> Specs \cup {None}]
    /\ calm \in BOOLEAN /\ busy \in BOOLEAN

\* What a CR asks for; one that is gone lists nothing.
Lists(n) == IF crs[n].spec = None THEN {} ELSE RightsOf[crs[n].spec]

\* Gerrit has what the spec of the CR n asks for (of a group whose id is not known
\* only that there is one).
Satisfied(n) ==
    LET g == OwnerOf[n]  s == crs[n].spec IN
    CASE KindOf[n] = "group"  -> groups[g] = s \/ (groups[g] # None /\ ~crs[n].known)
      [] KindOf[n] = "member" -> s \in members[g]
      [] KindOf[n] = "access" -> /\ Lists(n) \subseteq rights[g]
                                 /\ parents[g] = s \/ s \in Parentless

\* A CR is given the status OK only when Gerrit has what its spec, as it is then,
\* asks for: not by a run that started from an older spec.
OkIsTrue ==
    [][\A n \in Names : crs'[n].value = "OK" /\ crs[n].value # "OK" => Satisfied(n)']_vars

\* Rights about what the rights of the CR n are about.
UnderListed(n) ==
    {r \in rights[OwnerOf[n]] : \E s \in Lists(n) : s[1] = r[1]}

\* A member or access CR under deletion is released only when Gerrit has nothing of
\* what its spec asks for by then, although its last runs add that once more.
ReleasedCleanly ==
    [][\A n \in Names : crs[n].phase = "deleting" /\ crs'[n].phase = "absent"
          => /\ KindOf[n] = "member" => crs[n].spec \notin members'[OwnerOf[n]]
             /\ KindOf[n] = "access" => UnderListed(n) \cap rights'[OwnerOf[n]] = {}]_vars

\* A finalizer is still to be put on the CR c or taken off it (groups get none).
Unfinished(k, c) ==
    /\ k # "group"
    /\ c.phase = "deleting" \/ (c.phase = "live" /\ ~c.finalizer)

\* The CR is in the work queue, or the watch event that puts it there is due.
Noticed(n) == n \in queued \/ (~cache[n].fresh /\ cache[n].cr.phase # crs[n].phase)

\* A member or access CR whose finalizer is still to be put on or taken off is noticed
\* or being worked on: no failure, old copy, restart or backoff leaves it alone.
NothingForgotten ==
    \A n \in Names :
        Unfinished(KindOf[n], crs[n]) => Noticed(n) \/ inst[KindOf[n]].name = n

Settled == calm /\ ~busy

\* Once calls stop failing and people stop, a member CR's account gets into the
\* group if there is one: no failure and no stale copy leaves it waiting.
MembershipArrives ==
    \A n \in Names : KindOf[n] = "member" =>
        (Settled /\ crs[n].phase = "live" /\ groups[OwnerOf[n]] # None)
            ~> (Satisfied(n) \/ crs[n].phase # "live")

\* ... a group whose id is known follows its CR's spec.
GroupFollowsSpec ==
    \A n \in Names : KindOf[n] = "group" =>
        (Settled /\ crs[n].phase = "live" /\ crs[n].known)
            ~> (Satisfied(n) \/ crs[n].phase # "live")

\* ... the project gets the rights and the parent that an access CR asks for, and once
\* they are known to be created no others remain about the same.
RightsArrive ==
    \A n \in Names : KindOf[n] = "access" =>
        (Settled /\ crs[n].phase = "live" /\ OwnerOf[n] \in projects)
            ~> (Satisfied(n) \/ crs[n].phase # "live")

RightsReplaced ==
    \A n \in Names : KindOf[n] = "access" =>
        (Settled /\ crs[n].phase = "live" /\ crs[n].known /\ n \in pending
            /\ OwnerOf[n] \in projects)
            ~> (UnderListed(n) = Lists(n) \/ crs[n].phase # "live")

\* What the last run of a CR under deletion needs is there.
Deletable(n) ==
    IF KindOf[n] = "member" THEN groups[OwnerOf[n]] # None ELSE OwnerOf[n] \in projects

\* Once calls stop failing and people stop, every CR under deletion goes away, if
\* the group or project it is about is there.
DeletionCompletes ==
    \A n \in Names : KindOf[n] # "group" =>
        (Settled /\ crs[n].phase = "deleting" /\ Deletable(n)) ~> crs[n].phase = "absent"

\* A member whose group does not come is tried again less and less often: in the end
\* after MaxTimeOut, never not at all.
BacksOff ==
    \A n \in Names : KindOf[n] = "member" =>
        (Settled /\ crs[n].phase # "absent" /\ groups[OwnerOf[n]] = None)
            ~> (\/ RequeueTime(crs[n].failures) = {MaxTimeOut}
                \/ groups[OwnerOf[n]] # None)

----------------------------------------------------------------------------
(* What the documentation promises, and instances in which it does not hold. *)

\* "OwnerName indicates which gerrit CR should be taken to initialize correct client":
\* a request for a CR that a server lets in is one to the Gerrit that owns the CR.
\* With two Gerrits it need not be.
RequestsReachTheOwner ==
    \A k \in Kinds : pc[k] \in GerritCalls /\ Authorised => Host = OwnerOf[inst[k].name]

\* "we want to make sure that CRs spec is in sync with group": a group CR becomes OK
\* only when the group is as its spec says.  It may not be when the id is not known.
GroupInSync ==
    [][\A n \in Names : KindOf[n] = "group" /\ crs'[n].value = "OK" /\ crs[n].value # "OK"
          => groups'[OwnerOf[n]] = crs'[n].spec]_vars

\* What a live member CR, at rest with status OK, asks for stays true while nobody
\* edits it.  It does not when another CR of that account is deleted.
MembershipLasts ==
    \A n \in Names :
        (KindOf[n] = "member" /\ crs[n].phase = "live" /\ crs[n].value = "OK"
            /\ n \notin queued \cup pending /\ inst["member"].name # n
            /\ crs[n] = cache[n].cr)
        => Satisfied(n)

=============================================================================
