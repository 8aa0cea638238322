----------------------- MODULE GerritLifecycleProofs -----------------------
(* Theorems about GerritLifecycle, for every value of its constants. *)
EXTENDS GerritLifecycle, TLAPS

LocalOK ==
    /\ queued \in BOOLEAN
    /\ pc \in ControlPoints
    /\ inst \in [status : Statuses, available : BOOLEAN, fresh : BOOLEAN]
    /\ mem \in [key : Value, password : Value]

\* A generated value is a credential, and not the one stored already.
LEMMA GeneratedFact ==
    ASSUME TypeOK, NEW s \in SecretNames
    PROVE  Generated(s) \in Cred /\ Generated(s) # secrets[s]
  <1>1. \E c \in Cred : c # secrets[s]
    BY CredAssumption DEF TypeOK, Value
  <1> QED  BY <1>1 DEF Generated

\* CreateSecret keeps the type of the secrets and every secret there is.
LEMMA CreateSecretFact ==
    ASSUME TypeOK, NEW s \in SecretNames, NEW v \in Cred, CreateSecret(s, v)
    PROVE  /\ secrets' \in [SecretNames -> Value]
           /\ secrets'[s] # None
           /\ \A t \in SecretNames : secrets[t] # None => secrets'[t] = secrets[t]
           /\ \A t \in SecretNames \ {s} : secrets'[t] = secrets[t]
  BY ValueAssumption DEF TypeOK, Value, CreateSecret

\* However a handler goes on, its local state keeps its type.
LEMMA ReturnType ==
    ASSUME TypeOK, NEW again \in BOOLEAN, Return(again)
    PROVE  LocalOK'
  BY DEF TypeOK, LocalOK, Return, NoInst, NoMem, Value, Statuses, ControlPoints

LEMMA GotoType ==
    ASSUME TypeOK, NEW p \in ControlPoints, Goto(p)
    PROVE  LocalOK'
  BY DEF TypeOK, LocalOK, Goto

LEMMA ThenType ==
    ASSUME TypeOK, NEW p \in ControlPoints, Then(p)
    PROVE  LocalOK'
  BY ReturnType, GotoType DEF Then

LEMMA InitType == Init => TypeOK
  <1> SUFFICES ASSUME Init PROVE TypeOK
    OBVIOUS
  <1> USE DEF Init, NoInst, NoMem, Value, Statuses, ControlPoints, TypeOK
  <1>1. CASE FreshInit
    BY <1>1, StatusAssumption, PortAssumption DEF FreshInit, NoAccount
  <1>2. CASE MidFlightInit
    <2> DEFINE c == CHOOSE x \in Cred : TRUE
    <2>1. c \in Cred
      BY CredAssumption
    <2>2. /\ secrets = [s \in SecretNames |-> c]
          /\ admin = [member |-> TRUE, password |-> c, key |-> c]
          /\ accounts = [u \in Users |->
               [password |-> c, key |-> c,
                groups |-> IF u = "ci" THEN {"Bootstrappers", "Administrators"}
                                       ELSE {"ReadOnly"}]]
          /\ groups = CreatedGroups /\ acl = "live"
          /\ cr \in [status : FirstStatuses \cap {"integration"}, available : {FALSE}]
      BY <1>2 DEF MidFlightInit
    <2> HIDE DEF c
    <2>3. accounts \in [Users -> [password : Value, key : Value, groups : SUBSET AllGroups]]
      BY <2>1, <2>2 DEF AllGroups, CreatedGroups
    <2> QED  BY <2>1, <2>2, <2>3, PortAssumption
  <1> QED  BY <1>1, <1>2 DEF Init


\* A status write keeps the type of the CR, of its cached copy and of the handler.
LEMMA UpdateStatusType ==
    ASSUME TypeOK, NEW at, NEW target \in Statuses, NEW next \in ControlPoints,
           UpdateStatus(at, target, next)
    PROVE  TypeOK'
  <1>1. LocalOK'
    BY ReturnType DEF UpdateStatus, TypeOK, LocalOK
  <1> QED  BY <1>1 DEF UpdateStatus, Accepted, TypeOK, LocalOK, server

LEMMA HandleType == TypeOK /\ Handle => TypeOK'
  <1> SUFFICES ASSUME TypeOK, Handle PROVE TypeOK'
    OBVIOUS
  <1>1. CASE \/ InstallationStarted \/ ConfigurationStarted \/ ConfigurationFinished
             \/ ExposureStarted \/ ExposureFinished \/ MarkReady
    BY <1>1, UpdateStatusType DEF InstallationStarted, ConfigurationStarted,
       ConfigurationFinished, ExposureStarted, ExposureFinished, MarkReady,
       Statuses, ControlPoints
  <1>2. CASE InstallationFinished
    <2>1. LocalOK'
      BY <1>2, ReturnType DEF InstallationFinished
    <2> QED  BY <1>2, <2>1 DEF InstallationFinished, Accepted, TypeOK, LocalOK, server, Statuses
  <1>3. CASE MarkAvailable
    <2>1. LocalOK'
      BY <1>3, ReturnType DEF MarkAvailable
    <2>2. CASE inst.available
      BY <1>3, <2>1, <2>2 DEF MarkAvailable, TypeOK, LocalOK, server, kube
    <2>3. CASE ~inst.available
      <3>1. Accepted([status |-> inst.status, available |-> TRUE])
        BY <1>3, <2>3 DEF MarkAvailable
      <3>2. cr' \in [status : Statuses, available : BOOLEAN]
        BY <3>1 DEF Accepted, TypeOK
      <3>3. cache' \in [status : Statuses, available : BOOLEAN, fresh : BOOLEAN]
        BY <3>1 DEF Accepted, TypeOK
      <3> QED  BY <1>3, <2>1, <3>2, <3>3 DEF MarkAvailable, TypeOK, LocalOK, server
    <2> QED  BY <2>2, <2>3
  <1>4. CASE StatusConflict \/ AvailableConflict
    <2>1. PICK at : Conflict(at)
      BY <1>4 DEF StatusConflict, AvailableConflict
    <2>2. LocalOK'
      BY <2>1, ReturnType DEF Conflict, TypeOK, LocalOK
    <2> QED  BY <2>1, <2>2 DEF Conflict, TypeOK, LocalOK, server, kube
  <1>5. CASE Begin
    BY <1>5 DEF Begin, TypeOK, server, kube, ControlPoints
  <1>6. CASE DeploymentNotReady
    <2>1. LocalOK'
      BY <1>6, ReturnType DEF DeploymentNotReady
    <2> QED  BY <1>6, <2>1 DEF DeploymentNotReady, TypeOK, LocalOK, server, kube
  <1>7. CASE DeploymentReadyBeforeConfigure
    <2>1. LocalOK'
      BY <1>7, GotoType DEF DeploymentReadyBeforeConfigure, ControlPoints
    <2> QED  BY <1>7, <2>1 DEF DeploymentReadyBeforeConfigure, TypeOK, LocalOK, server, kube
  <1>8. CASE DeploymentReadyAfterConfigure
    <2>1. LocalOK'
      BY <1>8, GotoType DEF DeploymentReadyAfterConfigure, ControlPoints
    <2> QED  BY <1>8, <2>1 DEF DeploymentReadyAfterConfigure, TypeOK, LocalOK, server, kube
  <1> QED  BY <1>1, <1>2, <1>3, <1>4, <1>5, <1>6, <1>7, <1>8 DEF Handle

LEMMA ConfigureType == TypeOK /\ Configure => TypeOK'
  <1> SUFFICES ASSUME TypeOK, Configure PROVE TypeOK'
    OBVIOUS
  <1> USE DEF kube, server
  <1>1. CASE CreateAdminSecret
    <2>1. LocalOK' /\ secrets' \in [SecretNames -> Value]
      BY <1>1, ThenType, GeneratedFact, CreateSecretFact
         DEF CreateAdminSecret, ControlPoints, SecretNames
    <2> QED  BY <1>1, <2>1 DEF CreateAdminSecret, TypeOK, LocalOK
  <1>2. CASE PatchDeploymentEnv
    <2>1. LocalOK'
      BY <1>2, ReturnType DEF PatchDeploymentEnv
    <2> QED  BY <1>2, <2>1 DEF PatchDeploymentEnv, TypeOK, LocalOK
  <1>3. CASE PortsAgree
    BY <1>3, GotoType DEF PortsAgree, TypeOK, LocalOK, ControlPoints
  <1>4. CASE GetPods
    <2>1. LocalOK'
      BY <1>4, GotoType DEF GetPods, ControlPoints
    <2> QED  BY <1>4, <2>1 DEF GetPods, TypeOK, LocalOK
  <1>5. CASE CreateAdminKey
    <2>1. LocalOK' /\ secrets' \in [SecretNames -> Value]
      BY <1>5, ThenType, GeneratedFact, CreateSecretFact
         DEF CreateAdminKey, ControlPoints, SecretNames
    <2> QED  BY <1>5, <2>1 DEF CreateAdminKey, TypeOK, LocalOK
  <1>6. CASE CheckCredentials
    <2>1. LocalOK'
      BY <1>6, GotoType DEF CheckCredentials, RefusedLogin, ControlPoints
    <2> QED  BY <1>6, <2>1 DEF CheckCredentials, TypeOK, LocalOK
  <1>7. CASE CheckDefaultCredentials
    <2>1. LocalOK'
      BY <1>7, GotoType DEF CheckDefaultCredentials, RefusedLogin, ControlPoints
    <2> QED  BY <1>7, <2>1 DEF CheckDefaultCredentials, TypeOK, LocalOK
  <1>8. CASE InitAdminUser
    <2>1. LocalOK'
      BY <1>8, ThenType DEF InitAdminUser, ControlPoints
    <2>2. secrets["adminKey"] \in Value
      BY DEF TypeOK, SecretNames
    <2>3. /\ admin.member \in BOOLEAN /\ admin.key \in Value
          /\ admin.password \in Value \cup {DefaultPassword}
      BY DEF TypeOK
    <2>4. admin' \in [member : BOOLEAN, password : Value \cup {DefaultPassword}, key : Value]
      <3>1. {admin.member, TRUE} \subseteq BOOLEAN
        BY <2>3
      <3>2. {admin.password, DefaultPassword} \subseteq Value \cup {DefaultPassword}
        BY <2>3
      <3>3. {admin.key, secrets["adminKey"]} \subseteq Value
        BY <2>2, <2>3
      <3> QED  BY <1>8, <3>1, <3>2, <3>3 DEF InitAdminUser, AddInitialAdminUser
    <2> QED  BY <1>8, <2>1, <2>4 DEF InitAdminUser, TypeOK, LocalOK
  <1>9. CASE SetAdminPassword
    <2>1. LocalOK'
      BY <1>9, ThenType DEF SetAdminPassword, ControlPoints
    <2> QED  BY <1>9, <2>1 DEF SetAdminPassword, TypeOK, LocalOK, SecretNames, Value
  <1>10. CASE CheckGroups
    <2>1. LocalOK'
      BY <1>10, GotoType DEF CheckGroups, ControlPoints
    <2> QED  BY <1>10, <2>1 DEF CheckGroups, TypeOK, LocalOK
  <1>11. CASE CreateGroups
    <2>1. PICK at \in ControlPoints, g \in CreatedGroups, next \in ControlPoints :
             CreateGroup(at, g, next)
      <3>1. \A at \in ControlPoints, g \in CreatedGroups, next \in ControlPoints :
               CreateGroup(at, g, next) =>
               \E a \in ControlPoints, h \in CreatedGroups, n \in ControlPoints : CreateGroup(a, h, n)
        OBVIOUS
      <3>2. {"createCITools", "createBootstrappers", "createDevelopers", "createReadOnly",
             "initAllProjects"} \subseteq ControlPoints
        BY DEF ControlPoints
      <3> QED  BY <1>11, <3>1, <3>2 DEF CreateGroups, CreatedGroups
    <2>2. LocalOK'
      BY <2>1, ThenType DEF CreateGroup
    <2> QED  BY <2>1, <2>2 DEF CreateGroup, TypeOK, LocalOK
  <1>12. CASE GroupExists
    <2>1. LocalOK'
      BY <1>12, ReturnType DEF GroupExists
    <2> QED  BY <1>12, <2>1 DEF GroupExists, TypeOK, LocalOK
  <1>13. CASE InitAllProjects
    <2>1. LocalOK'
      BY <1>13, ThenType DEF InitAllProjects, ControlPoints
    <2> QED  BY <1>13, <2>1 DEF InitAllProjects, TypeOK, LocalOK
  <1>14. CASE FlushCaches
    <2>1. LocalOK'
      BY <1>14, ThenType DEF FlushCaches, ControlPoints
    <2> QED  BY <1>14, <2>1 DEF FlushCaches, TypeOK, LocalOK
  <1> QED  BY <1>1, <1>2, <1>3, <1>4, <1>5, <1>6, <1>7, <1>8, <1>9, <1>10, <1>11,
              <1>12, <1>13, <1>14 DEF Configure

LEMMA GenerateType ==
    ASSUME TypeOK, NEW at, NEW s \in SecretNames, NEW next \in ControlPoints,
           NEW generated \in [key : Value, password : Value],
           Generate(at, s, generated, next)
    PROVE  TypeOK'
  <1>1. secrets' \in [SecretNames -> Value]
    BY GeneratedFact, CreateSecretFact DEF Generate
  <1>2. LocalOK'
    BY ReturnType DEF Generate, TypeOK, LocalOK
  <1> QED  BY <1>1, <1>2 DEF Generate, TypeOK, LocalOK, kube, server

LEMMA CreateUserType ==
    ASSUME TypeOK, NEW at, NEW u \in Users, NEW next \in ControlPoints,
           CreateUser(at, u, next)
    PROVE  TypeOK'
  <1>1. LocalOK'
    BY ThenType, GotoType DEF CreateUser
  <1>2. accounts' \in [Users -> [password : Value, key : Value, groups : SUBSET AllGroups]]
    BY DEF CreateUser, TypeOK
  <1> QED  BY <1>1, <1>2 DEF CreateUser, TypeOK, LocalOK, kube

LEMMA AddUserToGroupType ==
    ASSUME TypeOK, NEW at, NEW u \in Users, NEW g \in AllGroups, NEW next \in ControlPoints,
           AddUserToGroup(at, u, g, next)
    PROVE  TypeOK'
  <1>1. LocalOK'
    BY ThenType, GotoType DEF AddUserToGroup
  <1>2. accounts' \in [Users -> [password : Value, key : Value, groups : SUBSET AllGroups]]
    BY DEF AddUserToGroup, TypeOK
  <1> QED  BY <1>1, <1>2 DEF AddUserToGroup, TypeOK, LocalOK, kube

LEMMA UpdateCrType ==
    ASSUME TypeOK, NEW at, NEW next \in ControlPoints, UpdateCr(at, next)
    PROVE  TypeOK'
  <1>1. LocalOK'
    BY ThenType, ReturnType DEF UpdateCr
  <1> QED  BY <1>1 DEF UpdateCr, TypeOK, LocalOK, server

LEMMA ExposeType == TypeOK /\ ExposeConfiguration => TypeOK'
  <1> SUFFICES ASSUME TypeOK, ExposeConfiguration PROVE TypeOK'
    OBVIOUS
  <1>1. CASE InitClients
    <2>1. LocalOK'
      BY <1>1, GotoType DEF InitClients, ControlPoints
    <2> QED  BY <1>1, <2>1 DEF InitClients, TypeOK, LocalOK, kube, server
  <1>2. CASE CreateCiSecret
    <2>1. LocalOK' /\ secrets' \in [SecretNames -> Value]
      BY <1>2, ThenType, GeneratedFact, CreateSecretFact
         DEF CreateCiSecret, ControlPoints, SecretNames
    <2> QED  BY <1>2, <2>1 DEF CreateCiSecret, TypeOK, LocalOK, kube, server
  <1>3. CASE CreateCiKey \/ CreateArgoSecret \/ CreateArgoKey
    <2>1. /\ [key |-> Generated("ciKey"), password |-> secrets["ciPassword"]]
                \in [key : Value, password : Value]
          /\ [mem EXCEPT !.password = Generated("argoPassword")]
                \in [key : Value, password : Value]
          /\ [mem EXCEPT !.key = Generated("argoKey")] \in [key : Value, password : Value]
      BY GeneratedFact DEF SecretNames, TypeOK, Value
    <2> QED  BY <1>3, <2>1, GenerateType
             DEF CreateCiKey, CreateArgoSecret, CreateArgoKey, SecretNames, ControlPoints
  <1>4. CASE CreateCiUser \/ CreateArgoUser
    BY <1>4, CreateUserType DEF CreateCiUser, CreateArgoUser, Users, ControlPoints
  <1>5. CASE AddCiBootstrapper \/ AddCiAdministrator \/ AddArgoReader
    BY <1>5, AddUserToGroupType DEF AddCiBootstrapper, AddCiAdministrator, AddArgoReader,
       Users, ControlPoints, AllGroups, CreatedGroups
  <1>6. CASE UpdateAnnotations \/ UpdateKeycloakAnnotation
    BY <1>6, UpdateCrType DEF UpdateAnnotations, UpdateKeycloakAnnotation, AfterExposure,
       ControlPoints
  <1>7. CASE CreateKeycloakSecret
    <2>1. LocalOK' /\ secrets' \in [SecretNames -> Value]
      BY <1>7, ThenType, GeneratedFact, CreateSecretFact
         DEF CreateKeycloakSecret, ControlPoints, SecretNames
    <2> QED  BY <1>7, <2>1 DEF CreateKeycloakSecret, TypeOK, LocalOK, kube, server
  <1> QED  BY <1>1, <1>2, <1>3, <1>4, <1>5, <1>6, <1>7 DEF ExposeConfiguration

LEMMA CallFailsType == TypeOK /\ CallFails => TypeOK'
  <1> SUFFICES ASSUME TypeOK, CallFails PROVE TypeOK'
    OBVIOUS
  <1>1. LocalOK'
    BY ReturnType DEF CallFails
  <1> QED  BY <1>1 DEF CallFails, TypeOK, LocalOK, kube, server

LEMMA EnvironmentType == TypeOK /\ Environment => TypeOK'
  <1> SUFFICES ASSUME TypeOK, Environment PROVE TypeOK'
    OBVIOUS
  <1> USE DEF TypeOK, kube, server, local
  <1>1. CASE OperatorCrash
    BY <1>1 DEF OperatorCrash, NoInst, NoMem, Value, Statuses, ControlPoints
  <1>2. CASE CacheSync
    BY <1>2 DEF CacheSync
  <1>5. CASE CrEdited
    BY <1>5 DEF CrEdited
  <1>6. CASE Resync
    BY <1>6 DEF Resync
  <1>3. CASE DeploymentChanges \/ DeploymentSettles
    BY <1>3, PodAssumption DEF DeploymentChanges, DeploymentSettles
  <1>4. CASE AclReloaded \/ CallsStopFailing
    BY <1>4 DEF AclReloaded, CallsStopFailing
  <1> QED  BY <1>1, <1>2, <1>3, <1>4, <1>5, <1>6 DEF Environment

\* Every variable of GerritLifecycle keeps its type, whatever fails or crashes.
THEOREM TypeCorrect == Spec => []TypeOK
  <1>1. Init => TypeOK
    BY InitType
  <1>2. TypeOK /\ [Next]_vars => TypeOK'
    <2>1. TypeOK /\ Next => TypeOK'
      BY HandleType, ConfigureType, ExposeType, CallFailsType, EnvironmentType
         DEF Next, Reconcile
    <2>2. TypeOK /\ UNCHANGED vars => TypeOK'
      BY DEF TypeOK, vars
    <2> QED  BY <2>1, <2>2
  <1> QED  BY <1>1, <1>2, PTL DEF Spec


----------------------------------------------------------------------------
(* The inductive invariant: what the handler has established by the time it *)
(* makes a call, and what the properties of GerritLifecycle rest on.        *)

\* Before it logs in, the handler has stored the credentials it logs in with.
LoginPrepared ==
    /\ pc \in {"ports", "pods", "adminKey", "login", "defaultLogin",
               "initAdmin", "setPassword"} => secrets["adminPassword"] # None
    /\ pc \in {"login", "defaultLogin", "initAdmin", "setPassword"}
         => secrets["adminKey"] # None

\* The admin account is only added to a Gerrit that has none.
AdminAddedOnce ==
    /\ pc = "defaultLogin" => ~RestWorks
    /\ pc = "initAdmin" => admin.password = None

\* The account has no key but the stored one, and no password but the default
\* and the stored one; the latter only if its key works and it has its rights.
AdminKept ==
    /\ admin.key # None => admin.key = secrets["adminKey"]
    /\ admin.password \notin {None, DefaultPassword} => RestWorks /\ SshWorks

\* edp-ci is created with the stored password, and only by an operator that
\* has taken over the admin account.
CiCreatedByAdmin ==
    /\ pc = "ciUser" => mem.password = secrets["ciPassword"]
    /\ Exists("ci") => RestWorks

\* The groups are created in this order and the rules are pushed after them.
GroupsInOrder ==
    /\ pc = "createBootstrappers" => "CITools" \in groups
    /\ pc = "createDevelopers" => {"CITools", "Bootstrappers"} \subseteq groups
    /\ pc = "createReadOnly" => {"CITools", "Bootstrappers", "Developers"} \subseteq groups
    /\ pc = "initAllProjects" => groups = CreatedGroups

AfterCi == {"argoSecret", "argoKey", "argoUser", "argoReadOnly", "update",
            "keycloak", "updateKeycloak", "exposed", "ready", "available"}

\* From here on the handler, and every copy of the CR that says so, may rely
\* on edp-ci.
CiProvisionedBehind ==
    pc \in AfterCi \/ inst.available \/ cache.available => CiProvisioned \/ Unprivileged

\* A copy of the CR at its current version has the CR's availability.
FreshCopies ==
    /\ inst.fresh => inst.available = cr.available
    /\ cache.fresh => cache.available = cr.available

IInv ==
    /\ TypeOK
    /\ LoginPrepared
    /\ AdminAddedOnce
    /\ AdminKept
    /\ CiCreatedByAdmin
    /\ CiPasswordMatches
    /\ GroupsInOrder
    /\ RulesNameExistingGroups
    /\ CiProvisionedBehind
    /\ ExposedMeansCiProvisioned
    /\ FreshCopies

\* A step of the handler between the calls of the component service.
LEMMA HandleKeeps == IInv /\ TypeOK' /\ Handle => IInv'
  <1> SUFFICES ASSUME IInv, TypeOK', Handle PROVE IInv'
    OBVIOUS
  <1> USE DEF IInv, TypeOK, LoginPrepared, AdminAddedOnce, AdminKept,
          CiCreatedByAdmin, CiPasswordMatches, GroupsInOrder, RulesNameExistingGroups,
          CiProvisionedBehind, ExposedMeansCiProvisioned, FreshCopies, AfterCi,
          CiProvisioned, Unprivileged, Exists, SshLogin, SshWorks, RestWorks, Users, SecretNames, Value,
          Then, Goto, Return, NoInst, NoMem, kube, server, local
  <1>1. CASE InstallationStarted
    BY <1>1 DEF InstallationStarted, UpdateStatus, Accepted
  <1>2. CASE InstallationFinished
    BY <1>2 DEF InstallationFinished, Accepted
  <1>3. CASE ConfigurationStarted
    BY <1>3 DEF ConfigurationStarted, UpdateStatus, Accepted
  <1>4. CASE ConfigurationFinished
    BY <1>4 DEF ConfigurationFinished, UpdateStatus, Accepted
  <1>5. CASE ExposureStarted
    BY <1>5 DEF ExposureStarted, UpdateStatus, Accepted
  <1>6. CASE ExposureFinished
    BY <1>6 DEF ExposureFinished, UpdateStatus, Accepted
  <1>7. CASE MarkReady
    BY <1>7 DEF MarkReady, UpdateStatus, Accepted
  <1>8. CASE MarkAvailable
    BY <1>8 DEF MarkAvailable, Accepted
  <1>9. CASE StatusConflict
    BY <1>9 DEF StatusConflict, Conflict
  <1>10. CASE AvailableConflict
    BY <1>10 DEF AvailableConflict, Conflict
  <1>11. CASE Begin
    BY <1>11 DEF Begin
  <1>12. CASE DeploymentNotReady
    BY <1>12 DEF DeploymentNotReady
  <1>13. CASE DeploymentReadyBeforeConfigure
    BY <1>13 DEF DeploymentReadyBeforeConfigure
  <1>14. CASE DeploymentReadyAfterConfigure
    BY <1>14 DEF DeploymentReadyAfterConfigure
  <1> QED  BY <1>1, <1>2, <1>3, <1>4, <1>5, <1>6, <1>7, <1>8, <1>9, <1>10, <1>11, <1>12, <1>13, <1>14
           DEF Handle

\* A step of Configure.
LEMMA ConfigureKeeps == IInv /\ TypeOK' /\ Configure => IInv'
  <1> SUFFICES ASSUME IInv, TypeOK', Configure PROVE IInv'
    OBVIOUS
  <1> USE DEF IInv, TypeOK, LoginPrepared, AdminAddedOnce, AdminKept,
          CiCreatedByAdmin, CiPasswordMatches, GroupsInOrder, RulesNameExistingGroups,
          CiProvisionedBehind, ExposedMeansCiProvisioned, FreshCopies, AfterCi,
          CiProvisioned, Unprivileged, Exists, SshLogin, SshWorks, RestWorks, Users, SecretNames, Value,
          Then, Goto, Return, NoInst, NoMem, kube, server, local
  <1>1. CASE CreateAdminSecret
    BY <1>1, GeneratedFact, ValueAssumption DEF CreateAdminSecret, CreateSecret
  <1>2. CASE PatchDeploymentEnv
    BY <1>2 DEF PatchDeploymentEnv
  <1>3. CASE PortsAgree
    BY <1>3 DEF PortsAgree
  <1>4. CASE GetPods
    BY <1>4 DEF GetPods
  <1>5. CASE CreateAdminKey
    BY <1>5, GeneratedFact, ValueAssumption DEF CreateAdminKey, CreateSecret
  <1>6. CASE CheckCredentials
    BY <1>6 DEF CheckCredentials, RefusedLogin
  <1>7. CASE CheckDefaultCredentials
    BY <1>7, ValueAssumption DEF CheckDefaultCredentials, RefusedLogin
  <1>8. CASE InitAdminUser
    BY <1>8, ValueAssumption DEF InitAdminUser, AddInitialAdminUser
  <1>9. CASE SetAdminPassword
    BY <1>9, ValueAssumption DEF SetAdminPassword
  <1>10. CASE CheckGroups
    BY <1>10 DEF CheckGroups
  <1>11. CASE CreateGroups
    <2>1. GroupsInOrder'
      <3>1. CASE CreateGroup("createCITools", "CITools", "createBootstrappers")
        BY <3>1 DEF CreateGroup
      <3>2. CASE CreateGroup("createBootstrappers", "Bootstrappers", "createDevelopers")
        BY <3>2 DEF CreateGroup
      <3>3. CASE CreateGroup("createDevelopers", "Developers", "createReadOnly")
        BY <3>3 DEF CreateGroup
      <3>4. CASE CreateGroup("createReadOnly", "ReadOnly", "initAllProjects")
        <4>1. pc' \in {"initAllProjects", "idle"}
          BY <3>4 DEF CreateGroup
        <4>2. groups' = groups \cup {"ReadOnly"} /\ groups' \subseteq CreatedGroups
          BY <3>4 DEF CreateGroup
        <4>3. {"CITools", "Bootstrappers", "Developers"} \subseteq groups
          BY <3>4 DEF CreateGroup
        <4>4. CreatedGroups \subseteq groups'
          BY <4>2, <4>3 DEF CreatedGroups
        <4>5. groups' = CreatedGroups
          BY <4>2, <4>4
        <4> QED  BY <4>1, <4>5
      <3> QED  BY <1>11, <3>1, <3>2, <3>3, <3>4 DEF CreateGroups
    <2>2. RulesNameExistingGroups'
      BY <1>11 DEF CreateGroups, CreateGroup, CreatedGroups
    <2> QED  BY <1>11, <2>1, <2>2 DEF CreateGroups, CreateGroup
  <1>12. CASE GroupExists
    BY <1>12 DEF GroupExists
  <1>13. CASE InitAllProjects
    BY <1>13 DEF InitAllProjects
  <1>14. CASE FlushCaches
    BY <1>14 DEF FlushCaches
  <1> QED  BY <1>1, <1>2, <1>3, <1>4, <1>5, <1>6, <1>7, <1>8, <1>9, <1>10, <1>11, <1>12, <1>13, <1>14
           DEF Configure

\* A step of ExposeConfiguration.
LEMMA ExposeConfigurationKeeps == IInv /\ TypeOK' /\ ExposeConfiguration => IInv'
  <1> SUFFICES ASSUME IInv, TypeOK', ExposeConfiguration PROVE IInv'
    OBVIOUS
  <1> USE DEF IInv, TypeOK, LoginPrepared, AdminAddedOnce, AdminKept,
          CiCreatedByAdmin, CiPasswordMatches, GroupsInOrder, RulesNameExistingGroups,
          CiProvisionedBehind, ExposedMeansCiProvisioned, FreshCopies, AfterCi,
          CiProvisioned, Unprivileged, Exists, SshLogin, SshWorks, RestWorks, Users, SecretNames, Value,
          Then, Goto, Return, NoInst, NoMem, kube, server, local
  <1>1. CASE InitClients
    BY <1>1 DEF InitClients
  <1>2. CASE CreateCiSecret
    BY <1>2, GeneratedFact, ValueAssumption DEF CreateCiSecret, CreateSecret
  <1>3. CASE CreateCiKey
    BY <1>3, GeneratedFact, ValueAssumption DEF CreateCiKey, CreateSecret, Generate
  <1>4. CASE CreateCiUser
    BY <1>4 DEF CreateCiUser, CreateUser
  <1>5. CASE AddCiBootstrapper
    BY <1>5 DEF AddCiBootstrapper, AddUserToGroup, VisibleGroups
  <1>6. CASE AddCiAdministrator
    BY <1>6 DEF AddCiAdministrator, AddUserToGroup, VisibleGroups
  <1>7. CASE CreateArgoSecret
    BY <1>7, GeneratedFact, ValueAssumption DEF CreateArgoSecret, CreateSecret, Generate
  <1>8. CASE CreateArgoKey
    BY <1>8, GeneratedFact, ValueAssumption DEF CreateArgoKey, CreateSecret, Generate
  <1>9. CASE CreateArgoUser
    BY <1>9 DEF CreateArgoUser, CreateUser
  <1>10. CASE AddArgoReader
    BY <1>10 DEF AddArgoReader, AddUserToGroup, VisibleGroups
  <1>11. CASE UpdateAnnotations
    BY <1>11 DEF UpdateAnnotations, UpdateCr, AfterExposure
  <1>12. CASE CreateKeycloakSecret
    BY <1>12, GeneratedFact, ValueAssumption DEF CreateKeycloakSecret, CreateSecret
  <1>13. CASE UpdateKeycloakAnnotation
    BY <1>13 DEF UpdateKeycloakAnnotation, UpdateCr, AfterExposure
  <1> QED  BY <1>1, <1>2, <1>3, <1>4, <1>5, <1>6, <1>7, <1>8, <1>9, <1>10, <1>11, <1>12, <1>13
           DEF ExposeConfiguration

\* A step of anybody else.
LEMMA EnvironmentKeeps == IInv /\ TypeOK' /\ Environment => IInv'
  <1> SUFFICES ASSUME IInv, TypeOK', Environment PROVE IInv'
    OBVIOUS
  <1> USE DEF IInv, TypeOK, LoginPrepared, AdminAddedOnce, AdminKept,
          CiCreatedByAdmin, CiPasswordMatches, GroupsInOrder, RulesNameExistingGroups,
          CiProvisionedBehind, ExposedMeansCiProvisioned, FreshCopies, AfterCi,
          CiProvisioned, Unprivileged, Exists, SshLogin, SshWorks, RestWorks, Users, SecretNames, Value,
          Then, Goto, Return, NoInst, NoMem, kube, server, local
  <1>1. CASE OperatorCrash
    BY <1>1 DEF OperatorCrash
  <1>2. CASE CacheSync
    BY <1>2 DEF CacheSync
  <1>3. CASE CrEdited
    BY <1>3 DEF CrEdited
  <1>4. CASE Resync
    BY <1>4 DEF Resync
  <1>5. CASE DeploymentChanges
    BY <1>5 DEF DeploymentChanges
  <1>6. CASE DeploymentSettles
    BY <1>6 DEF DeploymentSettles
  <1>7. CASE AclReloaded
    BY <1>7 DEF AclReloaded
  <1>8. CASE CallsStopFailing
    BY <1>8 DEF CallsStopFailing
  <1> QED  BY <1>1, <1>2, <1>3, <1>4, <1>5, <1>6, <1>7, <1>8
           DEF Environment

\* A call that fails.
LEMMA CallFailsKeeps == IInv /\ TypeOK' /\ CallFails => IInv'
  BY DEF CallFails, IInv, LoginPrepared, AdminAddedOnce, AdminKept,
         CiCreatedByAdmin, CiPasswordMatches, GroupsInOrder, RulesNameExistingGroups,
         CiProvisionedBehind, ExposedMeansCiProvisioned, FreshCopies, AfterCi,
         CiProvisioned, Unprivileged, Exists, SshLogin, SshWorks, RestWorks, Return, NoInst, NoMem, kube, server

LEMMA InitInv == Init => IInv
  <1> SUFFICES ASSUME Init PROVE IInv
    OBVIOUS
  <1>1. TypeOK
    BY InitType
  <1> USE DEF IInv, LoginPrepared, AdminAddedOnce, AdminKept,
          CiCreatedByAdmin, CiPasswordMatches, GroupsInOrder, RulesNameExistingGroups,
          CiProvisionedBehind, ExposedMeansCiProvisioned, FreshCopies, AfterCi,
          CiProvisioned, Unprivileged, Exists, SshLogin, SshWorks, RestWorks, Init, NoInst, NoMem
  <1>2. CASE FreshInit
    BY <1>1, <1>2, StatusAssumption DEF FreshInit, NoAccount, Users, SecretNames
  <1>3. CASE MidFlightInit
    <2>1. PICK c \in Cred :
          /\ secrets = [s \in SecretNames |-> c]
          /\ admin = [member |-> TRUE, password |-> c, key |-> c]
          /\ accounts = [u \in Users |->
               [password |-> c, key |-> c,
                groups |-> IF u = "ci" THEN {"Bootstrappers", "Administrators"}
                                       ELSE {"ReadOnly"}]]
          /\ groups = CreatedGroups
      BY <1>3, CredAssumption DEF MidFlightInit
    <2>2. CiProvisioned /\ AdminKept
      BY <2>1, ValueAssumption DEF SecretNames, Users
    <2> QED  BY <1>1, <1>3, <2>1, <2>2 DEF MidFlightInit
  <1> QED  BY <1>2, <1>3

LEMMA NextInv == IInv /\ [Next]_vars => IInv'
  <1> SUFFICES ASSUME IInv, [Next]_vars PROVE IInv'
    OBVIOUS
  <1>1. CASE Next
    <2>1. TypeOK'
      BY <1>1, HandleType, ConfigureType, ExposeType, CallFailsType, EnvironmentType
         DEF IInv, Next, Reconcile
    <2> QED  BY <1>1, <2>1, HandleKeeps, ConfigureKeeps, ExposeConfigurationKeeps,
                CallFailsKeeps, EnvironmentKeeps DEF Next, Reconcile
  <1>2. CASE UNCHANGED vars
    BY <1>2 DEF vars, IInv, TypeOK, LoginPrepared, AdminAddedOnce, AdminKept,
       CiCreatedByAdmin, CiPasswordMatches, GroupsInOrder, RulesNameExistingGroups,
       CiProvisionedBehind, ExposedMeansCiProvisioned, FreshCopies,
       CiProvisioned, Unprivileged, Exists, SshLogin, SshWorks, RestWorks
  <1> QED  BY <1>1, <1>2

LEMMA Invariance == Spec => []IInv
  BY InitInv, NextInv, PTL DEF Spec

\* edp-ci's account in Gerrit has the password stored for it.
THEOREM CiPasswordStored == Spec => []CiPasswordMatches
  <1>1. IInv => CiPasswordMatches
    BY DEF IInv
  <1> QED  BY <1>1, Invariance, PTL

\* A CR that is exposed, ready or available has its CI administrator, although
\* CreateUser may skip the creation and Configure may hide a failure.
THEOREM ExposureIsReal == Spec => []ExposedMeansCiProvisioned
  <1>1. IInv => ExposedMeansCiProvisioned
    BY DEF IInv
  <1> QED  BY <1>1, Invariance, PTL

\* The rules of All-Projects are only ever pushed when the groups they name exist.
THEOREM RulesAfterGroups == Spec => []RulesNameExistingGroups
  <1>1. IInv => RulesNameExistingGroups
    BY DEF IInv
  <1> QED  BY <1>1, Invariance, PTL

----------------------------------------------------------------------------
(* The steps of the lifecycle, as they are seen from outside. *)

\* Who waits for the CR: TRUE of a step that does not touch what he relies on.
Unseen == UNCHANGED <<cr, admin, accounts, secrets>>

\* A write of the CR changes nothing else and takes no announcement back.
CrWritten == (cr.available => cr'.available) /\ UNCHANGED <<admin, accounts, secrets>>

\* A secret is only ever added.
SecretAdded ==
    /\ \A t \in SecretNames : secrets[t] # None => secrets'[t] = secrets[t]
    /\ \A t \in SecretNames : secrets'[t] \in Cred \cup {None}
    /\ UNCHANGED <<cr, admin, accounts>>

\* The takeover script, or some of its pushes.
ScriptRun ==
    /\ pc = "initAdmin" /\ AddInitialAdminUser
    /\ admin.password = None /\ admin'.password \in {None, DefaultPassword}
    /\ UNCHANGED <<cr, accounts, secrets>>

\* The admin account gets the stored password.
AdminWritten ==
    /\ SshWorks /\ admin' = [admin EXCEPT !.password = secrets["adminPassword"]]
    /\ UNCHANGED <<cr, accounts, secrets>>

\* Gerrit's other accounts are added once and never lose a group.
AccountsWritten ==
    /\ \A u \in Users : Exists(u) =>
          /\ accounts'[u].password = accounts[u].password
          /\ accounts[u].groups \subseteq accounts'[u].groups
    /\ UNCHANGED <<cr, admin, secrets>>

LEMMA HandleSeen == IInv /\ Handle => Unseen \/ CrWritten
  <1> SUFFICES ASSUME IInv, Handle PROVE Unseen \/ CrWritten
    OBVIOUS
  <1> USE DEF IInv, FreshCopies, Unseen, CrWritten, kube, server
  <1>1. CASE InstallationStarted
    BY <1>1 DEF InstallationStarted, UpdateStatus, Accepted
  <1>2. CASE InstallationFinished
    BY <1>2 DEF InstallationFinished, Accepted
  <1>3. CASE ConfigurationStarted
    BY <1>3 DEF ConfigurationStarted, UpdateStatus, Accepted
  <1>4. CASE ConfigurationFinished
    BY <1>4 DEF ConfigurationFinished, UpdateStatus, Accepted
  <1>5. CASE ExposureStarted
    BY <1>5 DEF ExposureStarted, UpdateStatus, Accepted
  <1>6. CASE ExposureFinished
    BY <1>6 DEF ExposureFinished, UpdateStatus, Accepted
  <1>7. CASE MarkReady
    BY <1>7 DEF MarkReady, UpdateStatus, Accepted
  <1>8. CASE MarkAvailable
    BY <1>8 DEF MarkAvailable, Accepted
  <1>9. CASE StatusConflict
    BY <1>9 DEF StatusConflict, Conflict
  <1>10. CASE AvailableConflict
    BY <1>10 DEF AvailableConflict, Conflict
  <1>11. CASE Begin
    BY <1>11 DEF Begin
  <1>12. CASE DeploymentNotReady
    BY <1>12 DEF DeploymentNotReady
  <1>13. CASE DeploymentReadyBeforeConfigure
    BY <1>13 DEF DeploymentReadyBeforeConfigure
  <1>14. CASE DeploymentReadyAfterConfigure
    BY <1>14 DEF DeploymentReadyAfterConfigure
  <1> QED  BY <1>1, <1>2, <1>3, <1>4, <1>5, <1>6, <1>7, <1>8, <1>9, <1>10, <1>11, <1>12, <1>13, <1>14 DEF Handle

LEMMA ConfigureSeen ==
    IInv /\ Configure => Unseen \/ SecretAdded \/ ScriptRun \/ AdminWritten
  <1> SUFFICES ASSUME IInv, Configure
               PROVE  Unseen \/ SecretAdded \/ ScriptRun \/ AdminWritten
    OBVIOUS
  <1>1. CASE CreateAdminSecret
    BY <1>1, GeneratedFact, CreateSecretFact
       DEF CreateAdminSecret, SecretAdded, IInv, TypeOK, SecretNames, Value, kube, server
  <1>2. CASE CreateAdminKey
    BY <1>2, GeneratedFact, CreateSecretFact
       DEF CreateAdminKey, SecretAdded, IInv, TypeOK, SecretNames, Value, kube, server
  <1>3. CASE InitAdminUser
    BY <1>3 DEF InitAdminUser, AddInitialAdminUser, ScriptRun, IInv, AdminAddedOnce, kube
  <1>4. CASE SetAdminPassword
    BY <1>4 DEF SetAdminPassword, AdminWritten, kube
  <1>5. CASE CreateGroups
    BY <1>5 DEF CreateGroups, CreateGroup, Unseen, kube
  <1>6. CASE \/ PatchDeploymentEnv \/ PortsAgree \/ GetPods \/ CheckCredentials
             \/ CheckDefaultCredentials \/ CheckGroups \/ GroupExists
             \/ InitAllProjects \/ FlushCaches
    BY <1>6 DEF PatchDeploymentEnv, PortsAgree, GetPods, CheckCredentials,
       CheckDefaultCredentials, CheckGroups, GroupExists, InitAllProjects, FlushCaches,
       Unseen, kube, server
  <1> QED  BY <1>1, <1>2, <1>3, <1>4, <1>5, <1>6 DEF Configure

LEMMA ExposeSeen == IInv /\ ExposeConfiguration => Unseen \/ SecretAdded \/ AccountsWritten
  <1> SUFFICES ASSUME IInv, ExposeConfiguration
               PROVE  Unseen \/ SecretAdded \/ AccountsWritten
    OBVIOUS
  <1>1. CASE CreateCiSecret \/ CreateKeycloakSecret
    BY <1>1, GeneratedFact, CreateSecretFact
       DEF CreateCiSecret, CreateKeycloakSecret, SecretAdded, IInv, TypeOK, SecretNames,
           Value, kube, server
  <1>2. CASE CreateCiKey \/ CreateArgoSecret \/ CreateArgoKey
    BY <1>2, GeneratedFact, CreateSecretFact
       DEF CreateCiKey, CreateArgoSecret, CreateArgoKey, Generate, SecretAdded, IInv,
           TypeOK, SecretNames, Value, kube, server
  <1>3. CASE CreateCiUser \/ CreateArgoUser
    BY <1>3 DEF CreateCiUser, CreateArgoUser, CreateUser, AccountsWritten, Exists, IInv,
       TypeOK, Users, kube
  <1>4. CASE AddCiBootstrapper \/ AddCiAdministrator \/ AddArgoReader
    BY <1>4 DEF AddCiBootstrapper, AddCiAdministrator, AddArgoReader, AddUserToGroup,
       AccountsWritten, Exists, IInv, TypeOK, Users, kube
  <1>5. CASE InitClients \/ UpdateAnnotations \/ UpdateKeycloakAnnotation
    BY <1>5 DEF InitClients, UpdateAnnotations, UpdateKeycloakAnnotation, UpdateCr,
       Unseen, kube, server
  <1> QED  BY <1>1, <1>2, <1>3, <1>4, <1>5 DEF ExposeConfiguration

LEMMA OthersSeen == CallFails \/ Environment \/ UNCHANGED vars => Unseen
  BY DEF CallFails, Environment, OperatorCrash, CacheSync, CrEdited, Resync,
         DeploymentChanges, DeploymentSettles, AclReloaded, CallsStopFailing, Unseen,
         kube, server, vars

LEMMA StepSeen ==
    ASSUME IInv, [Next]_vars
    PROVE  Unseen \/ CrWritten \/ SecretAdded \/ ScriptRun \/ AdminWritten \/ AccountsWritten
  BY HandleSeen, ConfigureSeen, ExposeSeen, OthersSeen DEF Next, Reconcile

\* Nothing the operator writes to the CR takes back that Gerrit is available,
\* however old the copy is that it started from.
THEOREM AvailabilityIsFinal == Spec => AvailableNeverRevoked
  <1>1. IInv /\ [Next]_vars => [cr.available => cr'.available]_vars
    BY StepSeen DEF Unseen, CrWritten, SecretAdded, ScriptRun, AdminWritten, AccountsWritten
  <1> QED  BY <1>1, Invariance, PTL DEF Spec, AvailableNeverRevoked

\* What a step does to the admin account's credentials being in place.
LEMMA AdminStaysOwned ==
    ASSUME IInv, [Next]_vars
    PROVE  SshWorks /\ RestWorks => SshWorks' /\ RestWorks'
  BY StepSeen, ValueAssumption
     DEF Unseen, CrWritten, SecretAdded, ScriptRun, AdminWritten, AccountsWritten, SshLogin,
         SshWorks, RestWorks, SecretNames, IInv, TypeOK

\* The credentials an account has are those the operator keeps.
LEMMA KeptCredentials ==
    ASSUME IInv
    PROVE  /\ RestWorks => SshWorks
           /\ Unprivileged => ~RestWorks /\ ~SshWorks
  BY ValueAssumption DEF IInv, TypeOK, AdminKept, Unprivileged, RestWorks, SshWorks,
     SecretNames, Value

\* An account without rights stays without them.
LEMMA StaysUnprivileged ==
    ASSUME IInv, [Next]_vars
    PROVE  Unprivileged => Unprivileged'
  BY StepSeen, ValueAssumption
     DEF Unseen, CrWritten, SecretAdded, ScriptRun, AdminWritten, AccountsWritten, SshLogin,
         SshWorks, Unprivileged, SecretNames, IInv, TypeOK

\* Only the takeover script locks the operator out.
THEOREM OnlyTheScriptLocksOut == Spec => LockedOutOnlyByTheScript
  <1> DEFINE A == CanTakeOver => CanTakeOver' \/ (pc = "initAdmin" /\ AddInitialAdminUser)
  <1>1. IInv /\ [Next]_vars => A
    <2> SUFFICES ASSUME IInv, [Next]_vars, CanTakeOver PROVE
                        CanTakeOver' \/ (pc = "initAdmin" /\ AddInitialAdminUser)
      OBVIOUS
    <2> USE DEF CanTakeOver, SshLogin, SshWorks, RestWorks
    <2>1. CASE Unseen
      BY <2>1 DEF Unseen
    <2>2. CASE CrWritten
      BY <2>2 DEF CrWritten
    <2>3. CASE SecretAdded
      BY <2>3 DEF SecretAdded, SecretNames
    <2>4. CASE ScriptRun
      BY <2>4 DEF ScriptRun
    <2>5. CASE AdminWritten
      BY <2>5 DEF AdminWritten, IInv, TypeOK
    <2>6. CASE AccountsWritten
      BY <2>6 DEF AccountsWritten
    <2> QED  BY <2>1, <2>2, <2>3, <2>4, <2>5, <2>6, StepSeen
  <1>2. IInv /\ [Next]_vars => [A]_vars
    BY <1>1
  <1> QED  BY <1>2, Invariance, PTL DEF Spec, LockedOutOnlyByTheScript

\* Once edp-ci is provisioned it stays so.
LEMMA CiStaysProvisioned ==
    ASSUME IInv, IInv', [Next]_vars
    PROVE  CiProvisioned => CiProvisioned'
  <1> SUFFICES ASSUME CiProvisioned PROVE CiProvisioned'
    OBVIOUS
  <1>1. RestWorks'
    BY AdminStaysOwned, KeptCredentials DEF CiProvisioned
  <1>2. /\ accounts'["ci"].password = accounts["ci"].password
        /\ accounts["ci"].groups \subseteq accounts'["ci"].groups
    BY StepSeen DEF CiProvisioned, Unseen, CrWritten, SecretAdded, ScriptRun, AdminWritten,
       AccountsWritten, Users
  <1> QED  BY <1>1, <1>2 DEF CiProvisioned, Exists, IInv

\* A step changes at most one of: who owns admin, that nobody ever will, whether
\* the CI user is provisioned, and what the CR says.
LEMMA OneAtATime ==
    ASSUME IInv, IInv', [Next]_vars
    PROVE  LET owned == SshWorks /\ RestWorks
           IN  \/ cr' = cr /\ (owned' => owned) /\ (Unprivileged' => Unprivileged)
               \/ cr' = cr /\ (owned' => owned) /\ (CiProvisioned' => CiProvisioned)
               \/ cr' = cr /\ (Unprivileged' => Unprivileged) /\ (CiProvisioned' => CiProvisioned)
               \/ (owned' => owned) /\ (Unprivileged' => Unprivileged)
                  /\ (CiProvisioned' => CiProvisioned)
  <1> USE DEF SshLogin, SshWorks, RestWorks, Unprivileged
  <1>1. CASE Unseen
    BY <1>1 DEF Unseen
  <1>2. CASE CrWritten
    BY <1>2 DEF CrWritten, CiProvisioned, CiPasswordMatches, Exists
  <1>3. CASE SecretAdded
    <2>1. secrets'["adminPassword"] # DefaultPassword
      BY <1>3, ValueAssumption DEF SecretAdded, SecretNames
    <2> QED  BY <1>3, <2>1 DEF SecretAdded, IInv, AdminKept, SecretNames
  <1>4. CASE ScriptRun
    <2>1. ~RestWorks'
      BY <1>4, ValueAssumption DEF ScriptRun, IInv, TypeOK, SecretNames, Value
    <2> QED  BY <1>4, <2>1 DEF ScriptRun, CiProvisioned
  <1>5. CASE AdminWritten
    <2>1. SshLogin /\ admin'.member = admin.member
      BY <1>5 DEF AdminWritten, IInv, TypeOK
    <2> QED  BY <1>5, <2>1 DEF AdminWritten, IInv, CiCreatedByAdmin, CiProvisioned,
                CiPasswordMatches, Exists
  <1>6. CASE AccountsWritten
    BY <1>6 DEF AccountsWritten
  <1> QED  BY <1>1, <1>2, <1>3, <1>4, <1>5, <1>6, StepSeen

\* The lifecycle keeps the promises of GerritOnboarding.
THEOREM ImplementsTheOnboarding == Spec => ImplementsOnboarding
  <1>1. Init => Onboarding!Init
    <2> SUFFICES ASSUME Init PROVE Onboarding!Init
      OBVIOUS
    <2>0. IInv
      BY InitInv
    <2> USE DEF Onboarding!Init, Init
    <2>1. CASE FreshInit
      BY <2>1 DEF FreshInit, NoAccount, Users, SecretNames, Unprivileged, CiProvisioned,
         Exists, SshLogin, SshWorks, RestWorks
    <2>2. CASE MidFlightInit
      <3>1. cr.status = "integration" /\ cr.available = FALSE /\ admin.member
        BY <2>2 DEF MidFlightInit
      <3>2. ~Unprivileged
        BY <3>1 DEF Unprivileged
      <3>3. CiProvisioned
        BY <2>0, <3>1, <3>2 DEF IInv, ExposedMeansCiProvisioned
      <3>4. SshWorks /\ RestWorks
        BY <2>0, <3>3, KeptCredentials DEF CiProvisioned
      <3> QED  BY <3>1, <3>2, <3>3, <3>4 DEF Unprivileged
    <2> QED  BY <2>1, <2>2
  <1>2. IInv /\ IInv' /\ [Next]_vars => [Onboarding!Next]_(Onboarding!vars)
    <2> SUFFICES ASSUME IInv, IInv', [Next]_vars
                 PROVE  [Onboarding!Next]_(Onboarding!vars)
      OBVIOUS
    <2> DEFINE owned == SshWorks /\ RestWorks
               lost == Unprivileged
               provisioned == CiProvisioned
    <2>1. (owned => owned') /\ (lost => lost') /\ (provisioned => provisioned')
      BY AdminStaysOwned, StaysUnprivileged, CiStaysProvisioned
    <2>2. /\ provisioned => owned
          /\ provisioned' => owned'
          /\ ~(lost /\ owned) /\ ~(lost' /\ owned')
      BY ValueAssumption DEF CiProvisioned, IInv, TypeOK, AdminKept, Unprivileged, SshWorks,
         RestWorks, SecretNames, Value
    <2>3. /\ cr'.available => provisioned' \/ lost'
          /\ cr.available => cr'.available
          /\ cr.available \in BOOLEAN /\ cr'.available \in BOOLEAN
      BY StepSeen DEF IInv, TypeOK, ExposedMeansCiProvisioned, Unseen, CrWritten, SecretAdded,
         ScriptRun, AdminWritten, AccountsWritten
    <2>4. /\ (owned' <=> owned) => (SshWorks /\ RestWorks)' = (SshWorks /\ RestWorks)
          /\ (lost' <=> lost) => Unprivileged' = Unprivileged
          /\ (provisioned' <=> provisioned) => CiProvisioned' = CiProvisioned
      BY DEF Unprivileged, CiProvisioned
    <2>5. \/ cr' = cr /\ (owned' => owned) /\ (lost' => lost)
          \/ cr' = cr /\ (owned' => owned) /\ (provisioned' => provisioned)
          \/ cr' = cr /\ (lost' => lost) /\ (provisioned' => provisioned)
          \/ (owned' => owned) /\ (lost' => lost) /\ (provisioned' => provisioned)
      BY OneAtATime
    <2> HIDE DEF owned, lost, provisioned
    <2>6. CASE cr' = cr /\ (owned' <=> owned) /\ (lost' <=> lost)
      <3>1. (provisioned' <=> provisioned) \/ (owned /\ ~provisioned /\ provisioned')
        BY <2>1, <2>2, <2>6
      <3>2. CASE provisioned' <=> provisioned
        BY <2>4, <2>6, <3>2 DEF Onboarding!vars
      <3>3. CASE owned /\ ~provisioned /\ provisioned'
        <4>1. Onboarding!ProvisionCi
          BY <2>4, <2>6, <3>3 DEF Onboarding!ProvisionCi, owned, provisioned
        <4> QED  BY <4>1 DEF Onboarding!Next
      <3> QED  BY <3>1, <3>2, <3>3
    <2>7. CASE cr' = cr /\ (owned' <=> owned) /\ (provisioned' <=> provisioned)
      <3>1. (lost' <=> lost) \/ (~owned /\ ~lost /\ lost')
        BY <2>1, <2>2, <2>7
      <3>2. CASE ~owned /\ ~lost /\ lost'
        <4>1. Onboarding!FailTakeOver
          BY <2>4, <2>7, <3>2 DEF Onboarding!FailTakeOver, owned, lost
        <4> QED  BY <4>1 DEF Onboarding!Next
      <3> QED  BY <2>6, <2>7, <3>1, <3>2
    <2>8. CASE cr' = cr /\ (lost' <=> lost) /\ (provisioned' <=> provisioned)
      <3>1. (owned' <=> owned) \/ (~owned /\ ~lost /\ owned')
        BY <2>1, <2>2, <2>8
      <3>2. CASE ~owned /\ ~lost /\ owned'
        <4>1. Onboarding!TakeOverAdmin
          BY <2>4, <2>8, <3>2 DEF Onboarding!TakeOverAdmin, owned, lost
        <4> QED  BY <4>1 DEF Onboarding!Next
      <3> QED  BY <2>6, <2>8, <3>1, <3>2
    <2>9. CASE (owned' <=> owned) /\ (lost' <=> lost) /\ (provisioned' <=> provisioned)
      <3>1. \/ cr'.available = cr.available
            \/ (provisioned \/ lost) /\ cr.available = FALSE /\ cr'.available = TRUE
        BY <2>3, <2>9
      <3>2. CASE cr'.available = cr.available
        BY <2>4, <2>9, <3>2 DEF Onboarding!vars
      <3>3. CASE (provisioned \/ lost) /\ cr.available = FALSE /\ cr'.available = TRUE
        <4>1. Onboarding!Announce
          BY <2>4, <2>9, <3>3 DEF Onboarding!Announce, provisioned, lost
        <4> QED  BY <4>1 DEF Onboarding!Next
      <3> QED  BY <3>1, <3>2, <3>3
    <2> QED  BY <2>1, <2>5, <2>6, <2>7, <2>8, <2>9
  <1> QED  BY <1>1, <1>2, Invariance, PTL DEF Spec, ImplementsOnboarding, Onboarding!Spec

----------------------------------------------------------------------------
(* No wake-up is lost: what the handler knows of the CR's status at each    *)
(* call, and what becomes of a copy that is stale.                          *)

ConfigurePoints == {"adminSecret", "ports", "pods", "adminKey", "login",
                    "defaultLogin", "initAdmin", "setPassword", "checkGroups",
                    "createCITools", "createBootstrappers", "createDevelopers",
                    "createReadOnly", "initAllProjects", "flush", "ready2"}

ExposePoints == {"exposeClients", "ciSecret", "ciKey", "ciUser", "ciBootstrappers",
                 "ciAdministrators", "argoSecret", "argoKey", "argoUser",
                 "argoReadOnly", "update", "keycloak", "updateKeycloak"}

BeforeConfigure == {"none", "failed", "installing", "created"}
FromExposing == {"exposing", "exposed", "integration", "ready"}

\* A copy of the CR at its current version has the CR's status.
FreshStatuses ==
    /\ inst.fresh => inst.status = cr.status
    /\ cache.fresh => cache.status = cr.status

\* The phase of the handler fits the status it has read or written.
StatusReached ==
    /\ pc = "ready1" => inst.status \notin {"none", "failed", "installing"}
    /\ pc \in ConfigurePoints => inst.status \notin BeforeConfigure
    /\ pc \in ExposePoints => inst.status \in FromExposing

\* A handler with a stale CR is followed by another run.
StaleIsRetried == pc # "idle" /\ ~inst.fresh => queued \/ ~cache.fresh

\* So is one that is about to end without having seen the last status.
EndIsFinal == pc = "available" /\ inst.status # "ready" => queued \/ ~cache.fresh

WakeInv == FreshStatuses /\ StatusReached /\ StaleIsRetried /\ EndIsFinal /\ NothingForgotten

LEMMA HandleWakes == TypeOK /\ FreshCopies /\ WakeInv /\ Handle => WakeInv'
  <1> SUFFICES ASSUME TypeOK, FreshCopies, WakeInv, Handle PROVE WakeInv'
    OBVIOUS
  <1> USE DEF TypeOK, FreshCopies, WakeInv, FreshStatuses, StatusReached, StaleIsRetried,
          EndIsFinal, NothingForgotten, ConfigurePoints, ExposePoints, BeforeConfigure,
          FromExposing, Goto, Return, NoInst, kube, Statuses
  <1>1. CASE InstallationStarted
    BY <1>1 DEF InstallationStarted, UpdateStatus, Accepted
  <1>2. CASE InstallationFinished
    BY <1>2 DEF InstallationFinished, Accepted
  <1>3. CASE ConfigurationStarted
    BY <1>3 DEF ConfigurationStarted, UpdateStatus, Accepted
  <1>4. CASE ConfigurationFinished
    BY <1>4 DEF ConfigurationFinished, UpdateStatus, Accepted
  <1>5. CASE ExposureStarted
    BY <1>5 DEF ExposureStarted, UpdateStatus, Accepted
  <1>6. CASE ExposureFinished
    BY <1>6 DEF ExposureFinished, UpdateStatus, Accepted
  <1>7. CASE MarkReady
    BY <1>7 DEF MarkReady, UpdateStatus, Accepted
  <1>8. CASE MarkAvailable
    BY <1>8 DEF MarkAvailable, Accepted
  <1>9. CASE StatusConflict
    BY <1>9 DEF StatusConflict, Conflict
  <1>10. CASE AvailableConflict
    BY <1>10 DEF AvailableConflict, Conflict
  <1>11. CASE Begin
    BY <1>11 DEF Begin
  <1>12. CASE DeploymentNotReady
    BY <1>12 DEF DeploymentNotReady
  <1>13. CASE DeploymentReadyBeforeConfigure
    BY <1>13 DEF DeploymentReadyBeforeConfigure
  <1>14. CASE DeploymentReadyAfterConfigure
    BY <1>14 DEF DeploymentReadyAfterConfigure
  <1> QED  BY <1>1, <1>2, <1>3, <1>4, <1>5, <1>6, <1>7, <1>8, <1>9, <1>10, <1>11, <1>12, <1>13, <1>14
           DEF Handle

\* Where a step of Configure leads: on within Configure, or to another run.
LEMMA ConfigureGoes ==
    Configure => /\ pc \in ConfigurePoints
                 /\ \/ pc' \in ConfigurePoints /\ UNCHANGED <<queued, inst>>
                    \/ pc' = "idle" /\ queued' = TRUE /\ inst' = NoInst
                 /\ UNCHANGED kube
  <1> SUFFICES ASSUME Configure
               PROVE  /\ pc \in ConfigurePoints
                      /\ \/ pc' \in ConfigurePoints /\ UNCHANGED <<queued, inst>>
                         \/ pc' = "idle" /\ queued' = TRUE /\ inst' = NoInst
                      /\ UNCHANGED kube
    OBVIOUS
  <1> USE DEF ConfigurePoints, Then, Goto, Return
  <1>1. CASE CreateAdminSecret \/ PatchDeploymentEnv \/ PortsAgree \/ GetPods \/ CreateAdminKey
    BY <1>1 DEF CreateAdminSecret, PatchDeploymentEnv, PortsAgree, GetPods, CreateAdminKey
  <1>2. CASE \/ CheckCredentials \/ CheckDefaultCredentials \/ InitAdminUser
             \/ SetAdminPassword \/ CheckGroups
    BY <1>2 DEF CheckCredentials, CheckDefaultCredentials, InitAdminUser, SetAdminPassword,
       CheckGroups, RefusedLogin
  <1>3. CASE CreateGroups \/ GroupExists
    BY <1>3 DEF CreateGroups, CreateGroup, GroupExists
  <1>4. CASE InitAllProjects \/ FlushCaches
    BY <1>4 DEF InitAllProjects, FlushCaches
  <1> QED  BY <1>1, <1>2, <1>3, <1>4 DEF Configure

LEMMA ConfigureWakes == TypeOK /\ WakeInv /\ Configure => WakeInv'
  BY ConfigureGoes
     DEF TypeOK, WakeInv, FreshStatuses, StatusReached, StaleIsRetried, EndIsFinal,
         NothingForgotten, ConfigurePoints, ExposePoints, NoInst, kube

\* Where a step of ExposeConfiguration leads, which never writes the status.
LEMMA ExposeGoes ==
    ExposeConfiguration =>
      /\ pc \in ExposePoints
      /\ \/ /\ pc' \in ExposePoints \/ pc' = AfterExposure
            /\ UNCHANGED <<queued, inst>>
         \/ pc' = "idle" /\ queued' = TRUE /\ inst' = NoInst
      /\ cr' = cr
      /\ cache' \in {cache, [cache EXCEPT !.fresh = FALSE]}
  <1> SUFFICES ASSUME ExposeConfiguration
               PROVE  /\ pc \in ExposePoints
                      /\ \/ /\ pc' \in ExposePoints \/ pc' = AfterExposure
                            /\ UNCHANGED <<queued, inst>>
                         \/ pc' = "idle" /\ queued' = TRUE /\ inst' = NoInst
                      /\ cr' = cr
                      /\ cache' \in {cache, [cache EXCEPT !.fresh = FALSE]}
    OBVIOUS
  <1> USE DEF ExposePoints, Then, Goto, Return, kube
  <1>1. CASE InitClients \/ CreateCiSecret \/ CreateKeycloakSecret
    BY <1>1 DEF InitClients, CreateCiSecret, CreateKeycloakSecret
  <1>2. CASE CreateCiKey \/ CreateArgoSecret \/ CreateArgoKey
    BY <1>2 DEF CreateCiKey, CreateArgoSecret, CreateArgoKey, Generate
  <1>3. CASE CreateCiUser \/ CreateArgoUser
    BY <1>3 DEF CreateCiUser, CreateArgoUser, CreateUser
  <1>4. CASE AddCiBootstrapper \/ AddCiAdministrator \/ AddArgoReader
    BY <1>4 DEF AddCiBootstrapper, AddCiAdministrator, AddArgoReader, AddUserToGroup
  <1>5. CASE UpdateAnnotations \/ UpdateKeycloakAnnotation
    BY <1>5 DEF UpdateAnnotations, UpdateKeycloakAnnotation, UpdateCr
  <1> QED  BY <1>1, <1>2, <1>3, <1>4, <1>5 DEF ExposeConfiguration

LEMMA ExposeWakes == TypeOK /\ WakeInv /\ ExposeConfiguration => WakeInv'
  <1> SUFFICES ASSUME TypeOK, WakeInv, ExposeConfiguration PROVE WakeInv'
    OBVIOUS
  <1>1. /\ AfterExposure \in {"exposed", "ready", "available"}
        /\ pc \in ExposePoints /\ AfterExposure = "available" => inst.status = "ready"
    BY DEF AfterExposure, WakeInv, StatusReached, FromExposing
  <1> QED  BY <1>1, ExposeGoes
           DEF TypeOK, WakeInv, FreshStatuses, StatusReached, StaleIsRetried, EndIsFinal,
               NothingForgotten, ConfigurePoints, ExposePoints, NoInst

LEMMA OthersWake ==
    TypeOK /\ WakeInv /\ (CallFails \/ Environment \/ UNCHANGED vars) => WakeInv'
  <1> SUFFICES ASSUME TypeOK, WakeInv, CallFails \/ Environment \/ UNCHANGED vars
               PROVE  WakeInv'
    OBVIOUS
  <1> USE DEF TypeOK, WakeInv, FreshStatuses, StatusReached, StaleIsRetried, EndIsFinal,
          NothingForgotten, ConfigurePoints, ExposePoints, BeforeConfigure, FromExposing,
          NoInst, kube, local
  <1>1. CASE CallFails
    BY <1>1 DEF CallFails, Return
  <1>2. CASE OperatorCrash \/ CacheSync \/ CrEdited \/ Resync
    BY <1>2 DEF OperatorCrash, CacheSync, CrEdited, Resync
  <1>3. CASE \/ DeploymentChanges \/ DeploymentSettles \/ AclReloaded \/ CallsStopFailing
             \/ UNCHANGED vars
    BY <1>3 DEF DeploymentChanges, DeploymentSettles, AclReloaded, CallsStopFailing, vars
  <1> QED  BY <1>1, <1>2, <1>3 DEF Environment

LEMMA WakeInvariance == Spec => []WakeInv
  <1>1. Init => WakeInv
    BY DEF Init, WakeInv, FreshStatuses, StatusReached, StaleIsRetried, EndIsFinal,
       NothingForgotten, ConfigurePoints, ExposePoints, NoInst
  <1>2. IInv /\ WakeInv /\ [Next]_vars => WakeInv'
    BY HandleWakes, ConfigureWakes, ExposeWakes, OthersWake DEF IInv, Next, Reconcile
  <1> QED  BY <1>1, <1>2, Invariance, PTL DEF Spec

\* No conflict, lost answer, crash or late watch event makes the operator
\* forget a CR it has not finished: a run is going on, queued, or will be.
THEOREM NoWakeUpLost == Spec => []NothingForgotten
  <1>1. WakeInv => NothingForgotten
    BY DEF WakeInv
  <1> QED  BY <1>1, WakeInvariance, PTL

----------------------------------------------------------------------------
(* What the operator has seen ready stays ready. *)

LEMMA ReadySeenKept == ASSUME TypeOK, ReadySeen, [Next]_vars PROVE ReadySeen'
  <1> USE DEF TypeOK, ReadySeen, Ready, kube, Goto, Return
  <1>1. CASE \/ InstallationStarted \/ InstallationFinished \/ ConfigurationStarted
             \/ ConfigurationFinished \/ ExposureStarted \/ ExposureFinished
    BY <1>1 DEF InstallationStarted, InstallationFinished, ConfigurationStarted,
       ConfigurationFinished, ExposureStarted, ExposureFinished, UpdateStatus
  <1>2. CASE MarkReady
    BY <1>2 DEF MarkReady, UpdateStatus, Accepted
  <1>3. CASE MarkAvailable
    BY <1>3 DEF MarkAvailable
  <1>4. CASE StatusConflict \/ AvailableConflict
    <2>1. PICK at : Conflict(at)
      BY <1>4 DEF StatusConflict, AvailableConflict
    <2> QED  BY <2>1 DEF Conflict
  <1>5. CASE Begin
    BY <1>5 DEF Begin
  <1>6. CASE \/ DeploymentNotReady \/ DeploymentReadyBeforeConfigure
             \/ DeploymentReadyAfterConfigure
    BY <1>6 DEF DeploymentNotReady, DeploymentReadyBeforeConfigure,
       DeploymentReadyAfterConfigure
  <1>7. CASE Configure
    BY <1>7, ConfigureGoes DEF ConfigurePoints
  <1>8. CASE ExposeConfiguration
    <2>1. AfterExposure = "available"
      <3>1. pc # "idle"
        BY <1>8, ExposeGoes DEF ExposePoints
      <3> QED  BY <3>1 DEF AfterExposure
    <2> QED  BY <1>8, <2>1, ExposeGoes DEF ExposePoints
  <1>9. CASE CallFails
    BY <1>9 DEF CallFails
  <1>10. CASE OperatorCrash \/ CacheSync \/ CrEdited
    BY <1>10 DEF OperatorCrash, CacheSync, CrEdited
  <1>11. CASE \/ Resync \/ DeploymentChanges \/ DeploymentSettles \/ AclReloaded
              \/ CallsStopFailing \/ UNCHANGED vars
    BY <1>11 DEF Resync, DeploymentChanges, DeploymentSettles, AclReloaded,
       CallsStopFailing, vars, local
  <1> QED  BY <1>1, <1>2, <1>3, <1>4, <1>5, <1>6, <1>7, <1>8, <1>9, <1>10, <1>11
           DEF Next, Reconcile, Handle, Environment

\* A CR that the operator has seen ready and available, with no run from an older
\* copy under way, is never taken back, however old a later copy is.
THEOREM SeenReadyStays == Spec => ReadySeenStaysReady
  <1>1. TypeOK /\ [Next]_vars => [ReadySeen => ReadySeen']_vars
    BY ReadySeenKept
  <1> QED  BY <1>1, TypeCorrect, PTL DEF Spec, ReadySeenStaysReady

\* Who finds the operator at rest, with a cache that says that the CR is ready as
\* it is, may rely on it for ever.
THEOREM ReadinessIsFinal ==
    Spec => [](pc = "idle" /\ Ready(cr) /\ Ready(cache) => []Ready(cr))
  <1>1. TypeOK /\ ReadySeen /\ [Next]_vars => ReadySeen'
    BY ReadySeenKept
  <1>2. ReadySeen => Ready(cr)
    BY DEF ReadySeen
  <1>3. pc = "idle" /\ Ready(cr) /\ Ready(cache) => ReadySeen
    BY DEF ReadySeen
  <1> QED  BY <1>1, <1>2, <1>3, TypeCorrect, PTL DEF Spec

=============================================================================
