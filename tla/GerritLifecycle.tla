-------------------------- MODULE GerritLifecycle --------------------------
(***************************************************************************)
(* The Gerrit controller (controllers/gerrit) and the component service it *)
(* drives (pkg/service/gerrit: Configure and ExposeConfiguration), against *)
(* the Kubernetes API server, the Gerrit deployment and the Gerrit server. *)
(*                                                                         *)
(* One worker reconciles the only Gerrit CR.  Each action is one call the  *)
(* handler makes to the outside world together with the handler's own code *)
(* up to its next call; pc names the call that is made next.  A call may   *)
(* fail before it has had an effect (CallFails), or after it (Then), and   *)
(* the operator may crash between any two calls (OperatorCrash).           *)
(***************************************************************************)
EXTENDS Naturals

CONSTANTS Cred,             \* passwords and SSH keys the generators return
          DefaultPassword,  \* the admin password of a fresh account, "secret"
          None,             \* no value: missing secret, account, local value
          FirstStatuses,    \* status of the CR the operator first sees
          NodePort,         \* nodePort of the service's port named "ssh"
          EnvPorts,         \* what LISTEN_ADDR of the deployment may hold first
          PodCounts,        \* how many pods the selector "app=<name>" may match
          KeycloakEnabled   \* spec.keycloakSpec.enabled

\* At least two values to generate, so that a new one can differ from an old one.
ASSUME CredAssumption == \A x \in Cred \cup {None} : \E c \in Cred : c # x
ASSUME ValueAssumption == None \notin Cred /\ DefaultPassword \notin Cred \cup {None}
ASSUME StatusAssumption == FirstStatuses \subseteq {"none", "failed", "integration"}
ASSUME PortAssumption == NodePort \in Nat /\ EnvPorts \subseteq Nat
ASSUME PodAssumption == PodCounts \subseteq Nat /\ 1 \in PodCounts
ASSUME SwitchAssumption == KeycloakEnabled \in BOOLEAN

VARIABLES cr,        \* the Gerrit CR in the API server
          cache,     \* the informer's copy of it, which every Get returns
          queued,    \* the work queue holds the CR's key
          pc,        \* the handler's next call; "idle" between reconciliations
          inst,      \* the handler's in-memory CR
          mem,       \* the SSH key and password the handler has just generated
          secrets,   \* the Secrets the operator owns
          deploy,    \* the Gerrit deployment
          admin,     \* Gerrit's account "admin"; member: it is an administrator
          accounts,  \* Gerrit's accounts edp-ci and argocd
          groups,    \* the groups the operator has created in Gerrit
          acl,       \* the All-Projects access rules
          calm       \* TRUE once calls have stopped failing (environment)

kube   == <<cr, cache>>
server == <<admin, accounts, groups, acl>>
local  == <<queued, pc, inst, mem>>
vars   == <<cr, cache, queued, pc, inst, mem, secrets, deploy,
            admin, accounts, groups, acl, calm>>

Statuses == {"none", "failed", "installing", "created", "configuring",
             "configured", "exposing", "exposed", "integration", "ready"}

SecretNames == {"adminPassword", "adminKey", "ciPassword", "ciKey",
                "argoPassword", "argoKey", "keycloakClient"}

Users == {"ci", "argo"}

\* Gerrit's groups: Administrators is built in, the others Configure creates.
CreatedGroups == {"CITools", "Bootstrappers", "Developers", "ReadOnly"}
AllGroups == CreatedGroups \cup {"Administrators"}

ControlPoints ==
    {"idle", "install", "create", "ready1", "configuring",
     "adminSecret", "ports", "pods", "adminKey", "login", "defaultLogin",
     "initAdmin", "setPassword", "checkGroups", "createCITools",
     "createBootstrappers", "createDevelopers", "createReadOnly",
     "initAllProjects", "flush",
     "ready2", "configured", "startExpose",
     "exposeClients", "ciSecret", "ciKey", "ciUser", "ciBootstrappers",
     "ciAdministrators", "argoSecret", "argoKey", "argoUser", "argoReadOnly",
     "update", "keycloak", "updateKeycloak",
     "exposed", "ready", "available"}

Value == Cred \cup {None}
NoInst == [status |-> "none", available |-> FALSE, fresh |-> FALSE]
NoMem == [key |-> None, password |-> None]
NoAccount == [password |-> None, key |-> None, groups |-> {}]

----------------------------------------------------------------------------
\* A CR just created next to a Gerrit that was never configured; "failed" is a
\* status only older releases of the operator could have left behind.
FreshInit ==
    /\ cr \in [status : FirstStatuses \ {"integration"}, available : {FALSE}]
    /\ secrets = [s \in SecretNames |-> None]
    /\ admin = [member |-> FALSE, password |-> None, key |-> None]
    /\ accounts = [u \in Users |-> NoAccount]
    /\ groups = {}
    /\ acl = "initial"

\* A CR an older release left in "integration started": everything up to the
\* exposure of the configuration had been done by then.
MidFlightInit ==
    LET c == CHOOSE x \in Cred : TRUE
    IN  /\ cr \in [status : FirstStatuses \cap {"integration"}, available : {FALSE}]
        /\ secrets = [s \in SecretNames |-> c]
        /\ admin = [member |-> TRUE, password |-> c, key |-> c]
        /\ accounts = [u \in Users |->
               [password |-> c, key |-> c,
                groups |-> IF u = "ci" THEN {"Bootstrappers", "Administrators"}
                                       ELSE {"ReadOnly"}]]
        /\ groups = CreatedGroups
        /\ acl = "live"

Init ==
    /\ FreshInit \/ MidFlightInit
    /\ cache = [status |-> cr.status, available |-> cr.available, fresh |-> TRUE]
    /\ queued = TRUE
    /\ pc = "idle"
    /\ inst = NoInst
    /\ mem = NoMem
    /\ deploy \in [ready : BOOLEAN, pods : PodCounts, port : EnvPorts]
    /\ calm = FALSE

----------------------------------------------------------------------------
(* How a handler goes on. *)

Goto(p) == pc' = p /\ UNCHANGED <<queued, inst, mem>>

\* Leave the handler; again says whether the result asks for another run.
Return(again) ==
    /\ pc' = "idle"
    /\ queued' = (queued \/ again)
    /\ inst' = NoInst
    /\ mem' = NoMem

\* The call has had its effect; its answer arrives, or is lost and reported as
\* an error, on which every path of the handler asks to be run again.
Then(p) == Goto(p) \/ (~calm /\ Return(TRUE))

\* The operator's SSH and REST logins as "admin" with the stored credentials;
\* an account that is not an administrator may log in but change nothing.
SshLogin == admin.password # None /\ admin.key # None /\ admin.key = secrets["adminKey"]
SshWorks == SshLogin /\ admin.member
RestWorks == admin.password # None /\ admin.password = secrets["adminPassword"]

\* A generated password or key: never the one stored in the secret s already.
Generated(s) == CHOOSE c \in Cred : c # secrets[s]

\* Mutant of CreateSecret: an existing secret is written again.
CreateSecretOverwriting(s, v) == secrets' = [secrets EXCEPT ![s] = v]

\* CreateSecret keeps an existing secret and ignores the data it is given.
CreateSecret(s, v) ==
    secrets' = IF secrets[s] = None THEN [secrets EXCEPT ![s] = v] ELSE secrets

----------------------------------------------------------------------------
(* Status writes: updateStatus and updateStatusWithRetry. *)

\* Mutant of Accepted: a write of an old version is not refused.
AcceptedAtAnyVersion(new) ==
    /\ cr' = new
    /\ cache' = [cache EXCEPT !.fresh = FALSE]

\* The API server accepts a write of an object only at its current version.
Accepted(new) ==
    /\ inst.fresh
    /\ cr' = new
    /\ cache' = [cache EXCEPT !.fresh = FALSE]

\* On a conflict the handler reads the CR again, from the cache, and applies
\* its change to what it reads, a few times before it gives up.
Conflict(at) ==
    /\ pc = at
    /\ ~inst.fresh
    /\ \/ inst' = cache /\ UNCHANGED <<queued, pc, mem>>
       \/ Return(TRUE)
    /\ UNCHANGED <<kube, server, secrets, deploy, calm>>

UpdateStatus(at, target, next) ==
    /\ pc = at
    /\ Accepted([status |-> target, available |-> inst.available])
    /\ \/ /\ pc' = next
          /\ inst' = [inst EXCEPT !.status = target]
          /\ UNCHANGED <<queued, mem>>
       \/ ~calm /\ Return(TRUE)
    /\ UNCHANGED <<server, secrets, deploy, calm>>

InstallationStarted   == UpdateStatus("install", "installing", "create")
ConfigurationStarted  == UpdateStatus("configuring", "configuring", "adminSecret")
ConfigurationFinished == UpdateStatus("configured", "configured", "startExpose")
ExposureStarted       == UpdateStatus("startExpose", "exposing", "exposeClients")
ExposureFinished      == UpdateStatus("exposed", "exposed", "ready")
MarkReady             == UpdateStatus("ready", "ready", "available")

\* "created" ends the run: the next one starts ten seconds later.
InstallationFinished ==
    /\ pc = "create"
    /\ Accepted([status |-> "created", available |-> inst.available])
    /\ Return(TRUE)
    /\ UNCHANGED <<server, secrets, deploy, calm>>

\* updateAvailableStatus writes only a CR that is not available yet.
MarkAvailable ==
    /\ pc = "available"
    /\ \/ inst.available /\ Return(FALSE) /\ UNCHANGED kube
       \/ /\ ~inst.available
          /\ Accepted([status |-> inst.status, available |-> TRUE])
          /\ Return(FALSE) \/ (~calm /\ Return(TRUE))
    /\ UNCHANGED <<server, secrets, deploy, calm>>

StatusConflict ==
    \E at \in {"install", "create", "configuring", "configured", "startExpose",
               "exposed", "ready"} : Conflict(at)

AvailableConflict == ~inst.available /\ Conflict("available")

----------------------------------------------------------------------------
(* Reconcile: what it does between the calls of the component service. *)

\* Get returns the cached CR, which may be older than the API server's.
Begin ==
    /\ pc = "idle"
    /\ queued
    /\ queued' = FALSE
    /\ inst' = cache
    /\ pc' = CASE cache.status \in {"none", "failed"} -> "install"
               [] cache.status = "installing" -> "create"
               [] OTHER -> "ready1"
    /\ UNCHANGED <<kube, mem, secrets, server, deploy, calm>>

\* Mutant of DeploymentNotReady: no requeue.
DeploymentNotReadyForgotten ==
    /\ pc \in {"ready1", "ready2"}
    /\ ~deploy.ready
    /\ Return(FALSE)
    /\ UNCHANGED <<kube, secrets, server, deploy, calm>>

DeploymentNotReady ==
    /\ pc \in {"ready1", "ready2"}
    /\ ~deploy.ready
    /\ Return(TRUE)
    /\ UNCHANGED <<kube, secrets, server, deploy, calm>>

\* Mutant of DeploymentReadyBeforeConfigure: the status is not looked at.
ConfiguringWhateverTheStatus ==
    /\ pc = "ready1"
    /\ deploy.ready
    /\ Goto("configuring")
    /\ UNCHANGED <<kube, secrets, server, deploy, calm>>

DeploymentReadyBeforeConfigure ==
    /\ pc = "ready1"
    /\ deploy.ready
    /\ Goto(IF inst.status \in {"created", "none"} THEN "configuring" ELSE "adminSecret")
    /\ UNCHANGED <<kube, secrets, server, deploy, calm>>

\* Mutant of DeploymentReadyAfterConfigure: exposing is not taken up again.
ExposureNotResumed ==
    /\ pc = "ready2"
    /\ deploy.ready
    /\ Goto(CASE inst.status = "configuring" -> "configured"
              [] inst.status = "configured" -> "startExpose"
              [] OTHER -> "available")
    /\ UNCHANGED <<kube, secrets, server, deploy, calm>>

DeploymentReadyAfterConfigure ==
    /\ pc = "ready2"
    /\ deploy.ready
    /\ Goto(CASE inst.status = "configuring" -> "configured"
              [] inst.status = "configured" -> "startExpose"
              [] OTHER -> "exposeClients")
    /\ UNCHANGED <<kube, secrets, server, deploy, calm>>

\* Where the handler goes once ExposeConfiguration has returned the CR.
AfterExposure ==
    CASE inst.status = "exposing" -> "exposed"
      [] inst.status \in {"exposed", "integration"} -> "ready"
      [] OTHER -> "available"

----------------------------------------------------------------------------
(* Configure. *)

CreateAdminSecret ==
    /\ pc = "adminSecret"
    /\ CreateSecret("adminPassword", Generated("adminPassword"))
    /\ Then("ports")
    /\ UNCHANGED <<kube, server, deploy, calm>>

\* Mutant of PatchDeploymentEnv: the container's default port is written.
PatchDeploymentEnvWithDefault ==
    /\ pc = "ports"
    /\ deploy.port # NodePort \/ deploy.port = 0
    /\ deploy' \in [ready : BOOLEAN, pods : PodCounts, port : {29418}]
    /\ Return(TRUE)
    /\ UNCHANGED <<kube, secrets, server, calm>>

\* (The service's target port, which UpdateService sets as well, matters to no
\* other call and is left out.)
\* A deployment that does not listen on the service's node port is patched and
\* restarts; its readiness and its pods are then anything until it settles.
PatchDeploymentEnv ==
    /\ pc = "ports"
    /\ deploy.port # NodePort \/ deploy.port = 0
    /\ deploy' \in [ready : BOOLEAN, pods : PodCounts, port : {NodePort}]
    /\ Return(TRUE)
    /\ UNCHANGED <<kube, secrets, server, calm>>

PortsAgree ==
    /\ pc = "ports"
    /\ deploy.port = NodePort /\ deploy.port # 0
    /\ Goto("pods")
    /\ UNCHANGED <<kube, secrets, server, deploy, calm>>

\* With any number of pods but one, Configure wraps a nil error: it returns as
\* if it had succeeded (gerrit.go:170).
GetPods ==
    /\ pc = "pods"
    /\ Goto(IF deploy.pods = 1 THEN "adminKey" ELSE "ready2")
    /\ UNCHANGED <<kube, secrets, server, deploy, calm>>

CreateAdminKey ==
    /\ pc = "adminKey"
    /\ CreateSecret("adminKey", Generated("adminKey"))
    /\ Then("login")
    /\ UNCHANGED <<kube, server, deploy, calm>>

\* A response between 400 and 505 other than 401 is a nil error as well: the
\* handler leaves Configure as if it had succeeded (gerrit.go:185, 197).  An
\* account that is not an administrator gets such a response, 403.
RefusedLogin == ~calm /\ Goto("ready2")

CheckCredentials ==
    /\ pc = "login"
    /\ Goto(IF RestWorks THEN "checkGroups" ELSE "defaultLogin") \/ RefusedLogin
    /\ UNCHANGED <<kube, secrets, server, deploy, calm>>

CheckDefaultCredentials ==
    /\ pc = "defaultLogin"
    /\ \/ Goto(CASE admin.password # DefaultPassword -> "initAdmin"
                [] admin.password = DefaultPassword /\ admin.member -> "setPassword"
                [] OTHER -> "ready2")
       \/ RefusedLogin
    /\ UNCHANGED <<kube, secrets, server, deploy, calm>>

\* add-initial-admin-user.sh makes the account an administrator, gives it its
\* key and adds its login with the default password, in three pushes, and stops
\* at none that fails: any of them may be missing.
AddInitialAdminUser ==
    /\ admin' \in [member   : {admin.member, TRUE},
                  password : {admin.password, DefaultPassword},
                  key      : {admin.key, secrets["adminKey"]}]
    /\ calm => admin' = [member |-> TRUE, password |-> DefaultPassword,
                        key |-> secrets["adminKey"]]

\* The script's exit status is that of its last command, a chown.
InitAdminUser ==
    /\ pc = "initAdmin"
    /\ AddInitialAdminUser
    /\ Then("setPassword")
    /\ UNCHANGED <<kube, secrets, accounts, groups, acl, deploy, calm>>

SetAdminPassword ==
    /\ pc = "setPassword"
    /\ SshWorks
    /\ admin' = [admin EXCEPT !.password = secrets["adminPassword"]]
    /\ Then("checkGroups")
    /\ UNCHANGED <<kube, secrets, accounts, groups, acl, deploy, calm>>

\* Only two of the four groups are looked at.
CheckGroups ==
    /\ pc = "checkGroups"
    /\ SshLogin
    /\ Goto(IF {"CITools", "Bootstrappers"} \subseteq groups
            THEN "ready2" ELSE "createCITools")
    /\ UNCHANGED <<kube, secrets, server, deploy, calm>>

\* Gerrit answers 409 for a group it has: an error like any other to Configure.
CreateGroup(at, g, next) ==
    /\ pc = at
    /\ RestWorks
    /\ g \notin groups
    /\ groups' = groups \cup {g}
    /\ Then(next)
    /\ UNCHANGED <<kube, secrets, admin, accounts, acl, deploy, calm>>

CreateGroups ==
    \/ CreateGroup("createCITools", "CITools", "createBootstrappers")
    \/ CreateGroup("createBootstrappers", "Bootstrappers", "createDevelopers")
    \/ CreateGroup("createDevelopers", "Developers", "createReadOnly")
    \/ CreateGroup("createReadOnly", "ReadOnly", "initAllProjects")

\* Mutant of GroupExists: a group that exists is taken for all of them.
GroupExistsSoSkipTheOthers ==
    /\ \/ pc = "createCITools" /\ "CITools" \in groups
       \/ pc = "createBootstrappers" /\ "Bootstrappers" \in groups
       \/ pc = "createDevelopers" /\ "Developers" \in groups
       \/ pc = "createReadOnly" /\ "ReadOnly" \in groups
    /\ Goto("initAllProjects")
    /\ UNCHANGED <<kube, secrets, server, deploy, calm>>

GroupExists ==
    /\ \/ pc = "createCITools" /\ "CITools" \in groups
       \/ pc = "createBootstrappers" /\ "Bootstrappers" \in groups
       \/ pc = "createDevelopers" /\ "Developers" \in groups
       \/ pc = "createReadOnly" /\ "ReadOnly" \in groups
    /\ Return(TRUE)
    /\ UNCHANGED <<kube, secrets, server, deploy, calm>>

\* init-all-projects.sh pushes the rules behind the running daemon's back, and
\* like the other script may fail without saying so.
InitAllProjects ==
    /\ pc = "initAllProjects"
    /\ SshWorks
    /\ acl' = "pushed" \/ (~calm /\ UNCHANGED acl)
    /\ Then("flush")
    /\ UNCHANGED <<kube, secrets, admin, accounts, groups, deploy, calm>>

FlushCaches ==
    /\ pc = "flush"
    /\ SshWorks
    /\ acl' = IF acl = "pushed" THEN "live" ELSE acl
    /\ Then("ready2")
    /\ UNCHANGED <<kube, secrets, admin, accounts, groups, deploy, calm>>

----------------------------------------------------------------------------
(* ExposeConfiguration. *)

\* The REST client takes the stored password on trust; the SSH client needs a
\* key that parses, and gets none when Configure left before it made one.
InitClients ==
    /\ pc = "exposeClients"
    /\ secrets["adminKey"] # None
    /\ Goto("ciSecret")
    /\ UNCHANGED <<kube, secrets, server, deploy, calm>>

CreateCiSecret ==
    /\ pc = "ciSecret"
    /\ CreateSecret("ciPassword", Generated("ciPassword"))
    /\ Then("ciKey")
    /\ UNCHANGED <<kube, server, deploy, calm>>

\* Keep generated values in memory and store them in s unless s exists.
Generate(at, s, generated, next) ==
    /\ pc = at
    /\ CreateSecret(s, Generated(s))
    /\ \/ pc' = next /\ mem' = generated /\ UNCHANGED <<queued, inst>>
       \/ ~calm /\ Return(TRUE)
    /\ UNCHANGED <<kube, server, deploy, calm>>

\* Mutant of CreateCiKey: the password is not read back from its secret.
CreateCiKeyKeepingThePassword ==
    Generate("ciKey", "ciKey",
             [key |-> Generated("ciKey"), password |-> Generated("ciPassword")], "ciUser")

\* The CI user's password is read back from its secret, its key is not.
CreateCiKey ==
    Generate("ciKey", "ciKey",
             [key |-> Generated("ciKey"), password |-> secrets["ciPassword"]], "ciUser")

\* Of ArgoCD's user neither is read back.
CreateArgoSecret ==
    Generate("argoSecret", "argoPassword",
             [mem EXCEPT !.password = Generated("argoPassword")], "argoKey")

CreateArgoKey ==
    Generate("argoKey", "argoKey", [mem EXCEPT !.key = Generated("argoKey")], "argoUser")

Exists(u) == accounts[u].password # None

\* CreateUser creates the account when GetUser answers 404, and takes any other
\* answer (401 and 5xx too) to mean that the account exists.
CreateUser(at, u, next) ==
    /\ pc = at
    /\ \/ /\ Exists(u) \/ ~RestWorks \/ ~calm
          /\ Goto(next)
          /\ UNCHANGED accounts
       \/ /\ RestWorks /\ ~Exists(u) /\ SshWorks
          /\ accounts' = [accounts EXCEPT ![u] =
                 [password |-> mem.password, key |-> mem.key, groups |-> {}]]
          /\ Then(next)
    /\ UNCHANGED <<kube, secrets, admin, groups, acl, deploy, calm>>

\* The groups admin can see: those it created, and Administrators if a member.
VisibleGroups == groups \cup (IF admin.member THEN {"Administrators"} ELSE {})

\* Mutant of AddUserToGroup: set-members' error for a missing account is lost.
AddUserToGroupUnchecked(at, u, g, next) ==
    /\ pc = at
    /\ SshLogin
    /\ \/ /\ g \notin VisibleGroups \/ ~Exists(u)
          /\ Goto(next)
          /\ UNCHANGED accounts
       \/ /\ g \in VisibleGroups /\ Exists(u)
          /\ accounts' = [accounts EXCEPT ![u].groups = @ \cup {g}]
          /\ Then(next)
    /\ UNCHANGED <<kube, secrets, admin, groups, acl, deploy, calm>>

\* AddUserToGroups for one group: a group Gerrit does not list is only logged.
AddUserToGroup(at, u, g, next) ==
    /\ pc = at
    /\ SshLogin
    /\ \/ /\ g \notin VisibleGroups
          /\ Goto(next)
          /\ UNCHANGED accounts
       \/ /\ g \in VisibleGroups /\ SshWorks /\ Exists(u)
          /\ accounts' = [accounts EXCEPT ![u].groups = @ \cup {g}]
          /\ Then(next)
    /\ UNCHANGED <<kube, secrets, admin, groups, acl, deploy, calm>>

CreateCiUser        == CreateUser("ciUser", "ci", "ciBootstrappers")
AddCiBootstrapper   == AddUserToGroup("ciBootstrappers", "ci", "Bootstrappers", "ciAdministrators")
AddCiAdministrator  == AddUserToGroup("ciAdministrators", "ci", "Administrators", "argoSecret")
CreateArgoUser      == CreateUser("argoUser", "argo", "argoReadOnly")
AddArgoReader       == AddUserToGroup("argoReadOnly", "argo", "ReadOnly", "update")

\* Update of the annotations; one that changes nothing keeps the version.
UpdateCr(at, next) ==
    /\ pc = at
    /\ \/ /\ inst.fresh
          /\ cache' \in {cache, [cache EXCEPT !.fresh = FALSE]}
          /\ Then(next)
       \/ ~inst.fresh /\ Return(TRUE) /\ UNCHANGED cache
    /\ UNCHANGED <<cr, secrets, server, deploy, calm>>

UpdateAnnotations == UpdateCr("update", IF KeycloakEnabled THEN "keycloak" ELSE AfterExposure)

CreateKeycloakSecret ==
    /\ pc = "keycloak"
    /\ CreateSecret("keycloakClient", Generated("keycloakClient"))
    /\ Then("updateKeycloak")
    /\ UNCHANGED <<kube, server, deploy, calm>>

UpdateKeycloakAnnotation == UpdateCr("updateKeycloak", AfterExposure)

----------------------------------------------------------------------------
(* Failures and the environment. *)

\* Adding u to g cannot succeed in Gerrit's present state.
CannotAdd(u, g) == ~SshLogin \/ (g \in VisibleGroups /\ ~(SshWorks /\ Exists(u)))

\* Nor can the call made at pc.
Hopeless ==
    \/ pc \in {"setPassword", "initAllProjects", "flush"} /\ ~SshWorks
    \/ pc = "checkGroups" /\ ~SshLogin
    \/ /\ pc \in {"createCITools", "createBootstrappers", "createDevelopers",
                  "createReadOnly"}
       /\ ~RestWorks
    \/ pc = "exposeClients" /\ secrets["adminKey"] = None
    \/ pc = "ciUser" /\ RestWorks /\ ~Exists("ci") /\ ~SshWorks
    \/ pc = "argoUser" /\ RestWorks /\ ~Exists("argo") /\ ~SshWorks
    \/ pc = "ciBootstrappers" /\ CannotAdd("ci", "Bootstrappers")
    \/ pc = "ciAdministrators" /\ CannotAdd("ci", "Administrators")
    \/ pc = "argoReadOnly" /\ CannotAdd("argo", "ReadOnly")

\* Every error path of the handler asks for another run.
CallFails ==
    /\ pc # "idle"
    /\ ~calm \/ Hopeless
    /\ Return(TRUE)
    /\ UNCHANGED <<kube, secrets, server, deploy, calm>>

OperatorCrash ==
    /\ ~calm
    /\ pc' = "idle"
    /\ queued' = TRUE
    /\ inst' = NoInst
    /\ mem' = NoMem
    /\ cache' = [status |-> cr.status, available |-> cr.available, fresh |-> TRUE]
    /\ UNCHANGED <<cr, secrets, server, deploy, calm>>

\* A watch event brings the cache up to date and queues the CR.
CacheSync ==
    /\ ~cache.fresh
    /\ cache' = [status |-> cr.status, available |-> cr.available, fresh |-> TRUE]
    /\ queued' = TRUE
    /\ UNCHANGED <<cr, pc, inst, mem, secrets, server, deploy, calm>>

\* Somebody else writes the CR: its version changes, its status does not.
CrEdited ==
    /\ ~calm
    /\ cache' = [cache EXCEPT !.fresh = FALSE]
    /\ inst' = [inst EXCEPT !.fresh = FALSE]
    /\ UNCHANGED <<cr, queued, pc, mem, secrets, server, deploy, calm>>

Resync ==
    /\ queued' = TRUE
    /\ UNCHANGED <<kube, pc, inst, mem, secrets, server, deploy, calm>>

DeploymentChanges ==
    /\ ~calm
    /\ deploy' \in [ready : BOOLEAN, pods : PodCounts, port : {deploy.port}]
    /\ UNCHANGED <<kube, local, secrets, server, calm>>

DeploymentSettles ==
    /\ deploy' = [deploy EXCEPT !.ready = TRUE, !.pods = 1]
    /\ UNCHANGED <<kube, local, secrets, server, calm>>

\* Gerrit restarts, or happens to read the rules again.
AclReloaded ==
    /\ acl = "pushed"
    /\ acl' = "live"
    /\ UNCHANGED <<kube, local, secrets, admin, accounts, groups, deploy, calm>>

\* From here on no call fails, nobody edits the CR and nothing crashes.
CallsStopFailing ==
    /\ ~calm
    /\ calm' = TRUE
    /\ UNCHANGED <<kube, local, secrets, server, deploy>>

Handle ==
    \/ InstallationStarted \/ InstallationFinished
    \/ ConfigurationStarted \/ ConfigurationFinished
    \/ ExposureStarted \/ ExposureFinished \/ MarkReady \/ MarkAvailable
    \/ StatusConflict \/ AvailableConflict
    \/ Begin \/ DeploymentNotReady
    \/ DeploymentReadyBeforeConfigure \/ DeploymentReadyAfterConfigure

Configure ==
    \/ CreateAdminSecret \/ PatchDeploymentEnv \/ PortsAgree \/ GetPods
    \/ CreateAdminKey \/ CheckCredentials \/ CheckDefaultCredentials
    \/ InitAdminUser \/ SetAdminPassword \/ CheckGroups \/ CreateGroups
    \/ GroupExists \/ InitAllProjects \/ FlushCaches

ExposeConfiguration ==
    \/ InitClients \/ CreateCiSecret \/ CreateCiKey \/ CreateCiUser
    \/ AddCiBootstrapper \/ AddCiAdministrator \/ CreateArgoSecret
    \/ CreateArgoKey \/ CreateArgoUser \/ AddArgoReader \/ UpdateAnnotations
    \/ CreateKeycloakSecret \/ UpdateKeycloakAnnotation

Reconcile == Handle \/ Configure \/ ExposeConfiguration \/ CallFails

Environment ==
    \/ OperatorCrash \/ CacheSync \/ CrEdited \/ Resync
    \/ DeploymentChanges \/ DeploymentSettles \/ AclReloaded \/ CallsStopFailing

Next == Reconcile \/ Environment

Spec == Init /\ [][Next]_vars

\* The worker keeps working, the watch delivers and the deployment comes up;
\* that calls stop failing is never assumed, only supposed by a property.
Fairness ==
    /\ WF_vars(Reconcile)
    /\ WF_vars(CacheSync)
    /\ WF_vars(DeploymentSettles)

FairSpec == Spec /\ Fairness

----------------------------------------------------------------------------
(* Properties. *)

\* Every variable keeps its type.
TypeOK ==
    /\ cr \in [status : Statuses, available : BOOLEAN]
    /\ cache \in [status : Statuses, available : BOOLEAN, fresh : BOOLEAN]
    /\ queued \in BOOLEAN
    /\ pc \in ControlPoints
    /\ inst \in [status : Statuses, available : BOOLEAN, fresh : BOOLEAN]
    /\ mem \in [key : Value, password : Value]
    /\ secrets \in [SecretNames -> Value]
    /\ deploy \in [ready : BOOLEAN, pods : PodCounts, port : EnvPorts \cup {NodePort}]
    /\ admin \in [member : BOOLEAN, password : Value \cup {DefaultPassword}, key : Value]
    /\ accounts \in [Users -> [password : Value, key : Value, groups : SUBSET AllGroups]]
    /\ groups \in SUBSET CreatedGroups
    /\ acl \in {"initial", "pushed", "live"}
    /\ calm \in BOOLEAN

\* The operator can log in to Gerrit as admin, or add the account: the account
\* has the stored credentials, or the default password the code falls back to
\* (gerrit.go:189), or does not exist yet.
CanTakeOver ==
    admin.password = None \/ (SshWorks /\ (RestWorks \/ admin.password = DefaultPassword))

\* No call that fails or repeats, no lost answer and no crash locks the operator
\* out of Gerrit for good, except a takeover script that stops half-way.
LockedOutOnlyByTheScript ==
    [][CanTakeOver => CanTakeOver' \/ (pc = "initAdmin" /\ AddInitialAdminUser)]_vars

\* The script pushed the login with the default password but not the account's
\* membership of Administrators, or not its key: it is never run again.
LockedOut == admin.password = DefaultPassword /\ ~SshWorks

\* Without the membership alone the operator does not even notice: it is refused
\* as a user, which Configure takes for a success, and sees no groups.
Unprivileged == admin.password = DefaultPassword /\ SshLogin /\ ~admin.member

\* The password stored for edp-ci is the one its Gerrit account has.
CiPasswordMatches == Exists("ci") => accounts["ci"].password = secrets["ciPassword"]

CiProvisioned ==
    /\ Exists("ci")
    /\ "Administrators" \in accounts["ci"].groups
    /\ CiPasswordMatches
    /\ RestWorks

\* Once the CR says that the configuration was exposed, or that Gerrit is
\* available, edp-ci exists with the stored password and is an administrator,
\* although CreateUser may skip the creation and Configure may hide a failure:
\* only a takeover script that stopped half-way makes the CR say so for nothing.
ExposedMeansCiProvisioned ==
    cr.available \/ cr.status \in {"exposed", "integration", "ready"} =>
        CiProvisioned \/ Unprivileged

\* The access rules of All-Projects name four groups: they are never pushed
\* before all of them exist, nor flushed before they are pushed.
RulesNameExistingGroups == acl # "initial" => groups = CreatedGroups

\* Status writes race with other writers of the CR and start from a cache of
\* any age: a write never takes back what an earlier one has announced.
AvailableNeverRevoked == [][cr.available => cr'.available]_vars

\* The only run that does not ask for another ends at "available", and what it
\* has seen of the CR may be stale or come from a conflict: a CR that is not
\* finished always has a run going on, a run to come or a watch event on its way.
NothingForgotten ==
    \/ cr.status = "ready" /\ cr.available
    \/ pc # "idle"
    \/ queued \/ ~cache.fresh

Ready(copy) == copy.status = "ready" /\ copy.available

\* The operator has seen the CR ready and available, and the run under way, if
\* any, started from there: none is left that may repeat an earlier write.
ReadySeen ==
    /\ Ready(cr)
    /\ Ready(cache)
    /\ pc # "idle" => Ready(inst)
    /\ pc \notin {"install", "create", "configuring", "configured", "startExpose", "exposed"}

\* A status goes back when a run that started from an old copy repeats its
\* writes after a conflict.  Once the operator has seen the CR ready and
\* available it stays so, whatever calls fail, whoever else writes it and
\* however old the cache gets again.
ReadySeenStaysReady == [][ReadySeen => ReadySeen']_vars

\* Creation stopped between the first two groups: CITools alone.
HalfCreated == "CITools" \in groups /\ "Bootstrappers" \notin groups

\* Once calls stop failing Gerrit gets ready and available, and again whenever
\* a run on an old copy has taken the status back, whatever was left behind by
\* then, except where the operator has no way out: when group creation stopped
\* after the first group, or the takeover script half-way.
RecoversUnlessHalfDone ==
    (calm /\ ~HalfCreated /\ ~LockedOut) ~> Ready(cr)

\* The lifecycle implements what it promises to those who wait for the CR.
Onboarding == INSTANCE GerritOnboarding WITH
    adminOwned <- SshWorks /\ RestWorks,
    unprivileged <- Unprivileged,
    ciProvisioned <- CiProvisioned,
    announced <- cr.available

\* Takeover of admin, then the CI user, then the announcement, none undone; or
\* a takeover that fails for ever.
ImplementsOnboarding == Onboarding!Spec

----------------------------------------------------------------------------
(* What the repository says of the program and the code does not keep. *)

\* service/gerrit/gerrit.go:170: with any number of pods but one Configure is to
\* fail, "unable to determine Gerrit pod name", so a configured Gerrit is one the
\* operator can log in to.
ConfiguredMeansAdminOwned ==
    cr.status \in {"configured", "exposing"} => RestWorks

\* client/gerrit/gerrit.go:327-331: until the caches are flushed edp-ci has no
\* push permission; a Gerrit that is ready serves the rules pushed to it.
ReadyMeansRulesServed == cr.status = "ready" => acl # "pushed"

\* service/gerrit/gerrit.go:640: "creates argocd user in Gerrit and adds this
\* user to the ReadOnly group".
ReadyMeansArgoReader == cr.status = "ready" => "ReadOnly" \in accounts["argo"].groups

\* service/gerrit/gerrit.go:641: "generates login/password and ssh
\* private/public and stores them in secrets".
ArgoCredentialsStored ==
    Exists("argo") => accounts["argo"].password = secrets["argoPassword"]

\* README.md: the operator "is responsible for installing and configuring
\* Gerrit"; once calls stop failing it gets there.
AlwaysRecovers == calm ~> cr.status = "ready"

=============================================================================
