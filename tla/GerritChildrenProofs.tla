------------------------ MODULE GerritChildrenProofs ------------------------
(* What holds of GerritChildren for every value of its constants. *)
EXTENDS GerritChildren, TLAPS

----------------------------------------------------------------------------
(* The inductive invariant. *)

\* A CR that is there has a spec.
SpecifiedCr == {c \in Cr : c.phase # "absent" => c.spec \in Specs}

SpecifiedCopy == [name : Names \cup {None}, cr : SpecifiedCr, fresh : BOOLEAN]

\* The cache has every CR under its name; a copy of the current version is the CR.
CacheOK ==
    /\ cache \in [Names -> SpecifiedCopy]
    /\ \A n \in Names : cache[n].name = n /\ (cache[n].fresh => cache[n].cr = crs[n])

KubeOK == crs \in [Names -> SpecifiedCr] /\ CacheOK /\ pending \subseteq Names

\* A copy of the current version may be ahead of the CR in the status only.
Agrees(i) ==
    /\ crs[i.name].phase = i.cr.phase /\ crs[i.name].spec = i.cr.spec
    /\ crs[i.name].known => i.cr.known

Ends == {"idle", "reportOK", "reportError"}

WorkerOK(k) ==
    /\ pc[k] = "idle" => inst[k] = NoCopy
    /\ pc[k] # "idle" => inst[k].name \in Names /\ KindOf[inst[k].name] = k
    /\ pc[k] \notin Ends => inst[k].cr.phase # "absent"
    /\ pc[k] \in {"remove", "release"} => inst[k].cr.phase = "deleting"
    /\ inst[k].fresh => Agrees(inst[k])

WorkOK ==
    /\ queued \subseteq Names
    /\ pc \in [Kinds -> Calls] /\ inst \in [Kinds -> SpecifiedCopy]
    /\ \A k \in Kinds : WorkerOK(k)

\* Whoever makes a request, or will without initialising the client, has a host.
NeedsHost(k) == k \in ready \/ pc[k] = "auth" \/ pc[k] \in GerritCalls

RestOK ==
    /\ client \in [host : Gerrits \cup {None}, auth : Gerrits \cup {None}]
    /\ ready \subseteq Kinds
    /\ \A k \in Kinds : NeedsHost(k) => client.host \in Gerrits

AllRights == UNION {RightsOf[s] : s \in Specs}

ServerOK ==
    /\ groups \in [Gerrits -> Specs \cup {None}]
    /\ members \in [Gerrits -> SUBSET Specs]
    /\ projects \subseteq Gerrits
    /\ rights \in [Gerrits -> SUBSET AllRights]
    /\ parents \in [Gerrits -> Specs \cup {None}]

WorldOK == calm \in BOOLEAN /\ busy \in BOOLEAN

Typed == KubeOK /\ WorkOK /\ RestOK /\ ServerOK /\ WorldOK

----------------------------------------------------------------------------
(* Records. *)

LEMMA FailureCounts == MaxFailures \in Nat /\ 0 \in Failures
  <1>1. MaxFailures \in Nat
    BY BackoffAssumption, Zenon
  <1> QED  BY <1>1 DEF Failures

LEMMA NextFailure == ASSUME NEW n \in Failures PROVE SetFailureCount(n) \in Failures
  BY FailureCounts DEF Failures, SetFailureCount

LEMMA AbsentMade == Absent \in SpecifiedCr /\ Absent.phase = "absent" /\ Absent.value = ""
  BY FailureCounts DEF Absent, SpecifiedCr, Cr, Phases

LEMMA CrMade ==
    ASSUME NEW s \in Specs
    PROVE  NewCr(s) \in SpecifiedCr /\ NewCr(s).phase = "live"
  BY FailureCounts DEF NewCr, Absent, SpecifiedCr, Cr, Phases

LEMMA CrOwned ==
    ASSUME NEW c \in SpecifiedCr
    PROVE  /\ [c EXCEPT !.owned = TRUE] \in SpecifiedCr
           /\ [c EXCEPT !.owned = TRUE].phase = c.phase
           /\ [c EXCEPT !.owned = TRUE].spec = c.spec
           /\ [c EXCEPT !.owned = TRUE].value = c.value
  BY DEF SpecifiedCr, Cr

LEMMA CrFinalized ==
    ASSUME NEW c \in SpecifiedCr
    PROVE  /\ [c EXCEPT !.finalizer = TRUE] \in SpecifiedCr
           /\ [c EXCEPT !.finalizer = TRUE].phase = c.phase
           /\ [c EXCEPT !.finalizer = TRUE].spec = c.spec
           /\ [c EXCEPT !.finalizer = TRUE].value = c.value
  BY DEF SpecifiedCr, Cr

LEMMA CrDeleting ==
    ASSUME NEW c \in SpecifiedCr, c.phase # "absent"
    PROVE  /\ [c EXCEPT !.phase = "deleting"] \in SpecifiedCr
           /\ [c EXCEPT !.phase = "deleting"].phase = "deleting"
           /\ [c EXCEPT !.phase = "deleting"].value = c.value
  BY DEF SpecifiedCr, Cr, Phases

LEMMA CrRespecified ==
    ASSUME NEW c \in SpecifiedCr, NEW s \in Specs
    PROVE  /\ [c EXCEPT !.spec = s] \in SpecifiedCr
           /\ [c EXCEPT !.spec = s].phase = c.phase
           /\ [c EXCEPT !.spec = s].value = c.value
  BY DEF SpecifiedCr, Cr

LEMMA CrKnown ==
    ASSUME NEW c \in SpecifiedCr
    PROVE  /\ [c EXCEPT !.known = TRUE] \in SpecifiedCr
           /\ [c EXCEPT !.known = TRUE].phase = c.phase
           /\ [c EXCEPT !.known = TRUE].spec = c.spec
           /\ [c EXCEPT !.known = TRUE].known
  BY DEF SpecifiedCr, Cr

LEMMA NoCopyMade == NoCopy \in SpecifiedCopy /\ ~NoCopy.fresh /\ NoCopy.name = None
  BY AbsentMade DEF NoCopy, CopyOf, SpecifiedCopy

LEMMA CopyRead ==
    ASSUME crs \in [Names -> SpecifiedCr], NEW n \in Names
    PROVE  /\ CopyOf(n, crs[n], TRUE) \in SpecifiedCopy
           /\ CopyOf(n, crs[n], TRUE).name = n /\ CopyOf(n, crs[n], TRUE).cr = crs[n]
  BY DEF CopyOf, SpecifiedCopy

LEMMA CopyOutdated ==
    ASSUME NEW i \in SpecifiedCopy
    PROVE  /\ [i EXCEPT !.fresh = FALSE] \in SpecifiedCopy
           /\ [i EXCEPT !.fresh = FALSE].name = i.name
           /\ [i EXCEPT !.fresh = FALSE].cr = i.cr
           /\ ~[i EXCEPT !.fresh = FALSE].fresh
  BY DEF SpecifiedCopy

LEMMA CopyRewritten ==
    ASSUME NEW i \in SpecifiedCopy, NEW c \in SpecifiedCr
    PROVE  /\ [i EXCEPT !.cr = c] \in SpecifiedCopy
           /\ [i EXCEPT !.cr = c].name = i.name
           /\ [i EXCEPT !.cr = c].cr = c
           /\ [i EXCEPT !.cr = c].fresh = i.fresh
  BY DEF SpecifiedCopy

LEMMA CrStatus ==
    ASSUME KubeOK, WorkOK, NEW k \in Kinds
    PROVE  /\ Status(k) \in SpecifiedCr
           /\ Status(k).phase = inst[k].cr.phase /\ Status(k).spec = inst[k].cr.spec
           /\ Status(k).value = IF pc[k] = "reportOK" THEN "OK" ELSE "error"
  <1>1. inst[k].cr \in SpecifiedCr
    BY DEF WorkOK, SpecifiedCopy
  <1>2. inst[k].cr.failures \in Failures /\ 0 \in Failures
    BY <1>1, FailureCounts DEF SpecifiedCr, Cr
  <1>3. SetFailureCount(inst[k].cr.failures) \in Failures
    BY <1>2, NextFailure
  <1>4. inst[k].cr.known \in BOOLEAN
    BY <1>1 DEF SpecifiedCr, Cr
  <1> DEFINE known == inst[k].cr.known \/ k = "access"
             failures == IF k = "member" THEN SetFailureCount(inst[k].cr.failures)
                         ELSE inst[k].cr.failures
  <1>5. known \in BOOLEAN /\ failures \in Failures
    BY <1>2, <1>3, <1>4
  <1>6. CASE pc[k] = "reportOK"
    <2>1. Status(k) = [inst[k].cr EXCEPT !.value = "OK", !.failures = 0, !.known = known]
      BY <1>6 DEF Status
    <2>2. /\ Status(k) \in SpecifiedCr
          /\ Status(k).phase = inst[k].cr.phase /\ Status(k).spec = inst[k].cr.spec
      BY <1>1, <1>2, <1>5, <2>1 DEF SpecifiedCr, Cr
    <2>3. Status(k).value = "OK"
      BY <1>1, <2>1 DEF SpecifiedCr, Cr
    <2> QED  BY <1>6, <2>2, <2>3
  <1>7. CASE pc[k] # "reportOK"
    <2>1. Status(k) = [inst[k].cr EXCEPT !.value = "error", !.failures = failures]
      BY <1>7 DEF Status
    <2>2. /\ Status(k) \in SpecifiedCr
          /\ Status(k).phase = inst[k].cr.phase /\ Status(k).spec = inst[k].cr.spec
      BY <1>1, <1>5, <2>1 DEF SpecifiedCr, Cr
    <2>3. Status(k).value = "error"
      BY <1>1, <2>1 DEF SpecifiedCr, Cr
    <2> QED  BY <1>7, <2>2, <2>3
  <1> QED  BY <1>6, <1>7

----------------------------------------------------------------------------
(* Writes of CRs. *)

LEMMA KubeStays == ASSUME KubeOK, UNCHANGED kube PROVE KubeOK'
  BY DEF KubeOK, CacheOK, kube

LEMMA KubeWritten ==
    ASSUME KubeOK, NEW n \in Names, NEW c \in SpecifiedCr,
           crs' = [crs EXCEPT ![n] = c], cache' = [cache EXCEPT ![n].fresh = FALSE],
           pending' \subseteq Names
    PROVE  KubeOK' /\ crs'[n] = c /\ \A o \in Names \ {n} : crs'[o] = crs[o]
  <1>1. crs' \in [Names -> SpecifiedCr] /\ crs'[n] = c /\ \A o \in Names \ {n} : crs'[o] = crs[o]
    BY DEF KubeOK
  <1>2. cache[n] \in SpecifiedCopy
    BY DEF KubeOK, CacheOK
  <1>3. cache' = [cache EXCEPT ![n] = [cache[n] EXCEPT !.fresh = FALSE]]
    BY DEF KubeOK, CacheOK
  <1>4. cache' \in [Names -> SpecifiedCopy]
    BY <1>2, <1>3, CopyOutdated DEF KubeOK, CacheOK
  <1>5. ASSUME NEW o \in Names
        PROVE  cache'[o].name = o /\ (cache'[o].fresh => cache'[o].cr = crs'[o])
    BY <1>1, <1>2, <1>3, CopyOutdated DEF KubeOK, CacheOK
  <1> QED  BY <1>1, <1>4, <1>5 DEF KubeOK, CacheOK

LEMMA StoreOK ==
    ASSUME KubeOK, NEW k \in Kinds, inst[k].name \in Names, NEW c \in SpecifiedCr, Store(k, c)
    PROVE  /\ KubeOK' /\ inst[k].fresh
           /\ crs'[inst[k].name] = c /\ \A o \in Names \ {inst[k].name} : crs'[o] = crs[o]
  BY KubeWritten DEF Store, KubeOK

----------------------------------------------------------------------------
(* The ways a worker goes on. *)

LEMMA WorkStays ==
    ASSUME WorkOK, UNCHANGED <<work, crs>>
    PROVE  WorkOK'
  BY DEF WorkOK, WorkerOK, Agrees, work

\* Another worker's write is one of another CR.
LEMMA OtherWorker ==
    ASSUME WorkOK, NEW k \in Kinds, NEW j \in Kinds \ {k}, pc[k] # "idle",
           pc'[j] = pc[j], inst'[j] = inst[j],
           \A o \in Names \ {inst[k].name} : crs'[o] = crs[o]
    PROVE  WorkerOK(j)'
  <1>1. WorkerOK(j) /\ WorkerOK(k)
    BY DEF WorkOK
  <1>2. CASE pc[j] = "idle"
    BY <1>1, <1>2, NoCopyMade DEF WorkerOK
  <1>3. CASE pc[j] # "idle"
    <2>1. inst[j].name \in Names \ {inst[k].name}
      BY <1>1, <1>3 DEF WorkerOK
    <2>2. crs'[inst[j].name] = crs[inst[j].name]
      BY <2>1
    <2> QED  BY <1>1, <2>2 DEF WorkerOK, Agrees
  <1> QED  BY <1>2, <1>3

LEMMA GotoOK ==
    ASSUME WorkOK, NEW k \in Kinds, pc[k] # "idle", NEW p \in Calls \ {"idle"}, Goto(k, p),
           p \in Ends \/ pc[k] \notin Ends,
           p \in {"remove", "release"} => inst[k].cr.phase = "deleting",
           UNCHANGED crs
    PROVE  WorkOK'
  <1>1. ASSUME NEW j \in Kinds \ {k} PROVE WorkerOK(j)'
    BY <1>1, OtherWorker DEF Goto, WorkOK
  <1>2. WorkerOK(k)'
    BY DEF WorkOK, WorkerOK, Goto, Agrees
  <1> QED  BY <1>1, <1>2 DEF WorkOK, Goto

LEMMA FailOK ==
    ASSUME WorkOK, NEW k \in Kinds, pc[k] # "idle", Fail(k), UNCHANGED crs
    PROVE  WorkOK'
  BY GotoOK DEF Fail, Calls, Ends

LEMMA ThenOK ==
    ASSUME WorkOK, NEW k \in Kinds, pc[k] \notin Ends, NEW p \in Calls \ {"idle"}, Then(k, p),
           p \in {"remove", "release"} => inst[k].cr.phase = "deleting",
           UNCHANGED crs
    PROVE  WorkOK'
  BY GotoOK, FailOK DEF Then, Ends

LEMMA UpdateAndOK ==
    ASSUME KubeOK, WorkOK, NEW k \in Kinds, pc[k] \notin Ends,
           NEW c \in SpecifiedCr, NEW p \in {"host", "reportOK"},
           p = "host" => c.phase # "absent", UpdateAnd(k, c, p)
    PROVE  KubeOK' /\ WorkOK'
  <1>0. inst[k] \in SpecifiedCopy /\ inst[k].name \in Names /\ KindOf[inst[k].name] = k
    BY DEF WorkOK, WorkerOK, Ends
  <1>1. CASE Store(k, c) /\ UNCHANGED queued
    <2>1. KubeOK' /\ crs'[inst[k].name] = c /\ \A o \in Names \ {inst[k].name} : crs'[o] = crs[o]
      BY <1>0, <1>1, StoreOK
    <2>2. CASE pc' = [pc EXCEPT ![k] = p] /\ inst' = [inst EXCEPT ![k].cr = c]
      <3>1. inst' = [inst EXCEPT ![k] = [inst[k] EXCEPT !.cr = c]]
        BY <2>2 DEF WorkOK
      <3>2. inst'[k] \in SpecifiedCopy /\ inst'[k].name = inst[k].name /\ inst'[k].cr = c
        BY <1>0, <3>1, CopyRewritten DEF WorkOK
      <3>3. inst' \in [Kinds -> SpecifiedCopy] /\ pc' \in [Kinds -> Calls] /\ pc'[k] = p
        BY <2>2, <3>1, <3>2 DEF WorkOK, Calls
      <3>4. WorkerOK(k)'
        BY <1>0, <2>1, <3>2, <3>3 DEF WorkerOK, Ends, Agrees
      <3>5. ASSUME NEW j \in Kinds \ {k} PROVE WorkerOK(j)'
        BY <2>1, <2>2, <3>1, <3>5, OtherWorker DEF WorkOK, Ends
      <3> QED  BY <1>1, <2>1, <3>3, <3>4, <3>5 DEF WorkOK
    <2>3. CASE pc' = [pc EXCEPT ![k] = "reportError"] /\ inst' = [inst EXCEPT ![k].fresh = FALSE]
      <3>1. inst' = [inst EXCEPT ![k] = [inst[k] EXCEPT !.fresh = FALSE]]
        BY <2>3 DEF WorkOK
      <3>2. inst'[k] \in SpecifiedCopy /\ inst'[k].name = inst[k].name /\ ~inst'[k].fresh
        BY <1>0, <3>1, CopyOutdated DEF WorkOK
      <3>3. inst' \in [Kinds -> SpecifiedCopy] /\ pc' \in [Kinds -> Calls] /\ pc'[k] = "reportError"
        BY <2>3, <3>1, <3>2 DEF WorkOK, Calls
      <3>4. WorkerOK(k)'
        BY <1>0, <3>2, <3>3 DEF WorkerOK, Ends
      <3>5. ASSUME NEW j \in Kinds \ {k} PROVE WorkerOK(j)'
        BY <2>1, <2>3, <3>1, <3>5, OtherWorker DEF WorkOK, Ends
      <3> QED  BY <1>1, <2>1, <3>3, <3>4, <3>5 DEF WorkOK
    <2> QED  BY <1>1, <2>1, <2>2, <2>3 DEF UpdateAnd, Store, Fail, Goto
  <1>2. CASE Fail(k) /\ UNCHANGED kube
    BY <1>2, KubeStays, FailOK DEF Ends, kube
  <1> QED  BY <1>1, <1>2 DEF UpdateAnd

----------------------------------------------------------------------------
(* The steps. *)

LEMMA RestStays ==
    ASSUME RestOK, UNCHANGED rest, NEW k \in Kinds,
           \A j \in Kinds \ {k} : pc'[j] = pc[j],
           NeedsHost(k) \/ pc'[k] \notin GerritCalls \cup {"auth"}
    PROVE  RestOK'
  BY DEF RestOK, NeedsHost, rest

LEMMA AskedSpec ==
    ASSUME WorkOK, NEW k \in Kinds, pc[k] \notin Ends
    PROVE  inst[k].cr \in SpecifiedCr /\ Asked(k) \in Specs
  BY DEF WorkOK, WorkerOK, SpecifiedCopy, SpecifiedCr, Asked

LEMMA HostKnown ==
    ASSUME RestOK, NEW k \in Kinds, NeedsHost(k)
    PROVE  Host \in Gerrits
  BY DEF RestOK, Host

LEMMA SetOwnerStep ==
    ASSUME Typed, NEW k \in Kinds, SetOwner(k)
    PROVE  Typed'
  <1>0. KubeOK /\ WorkOK /\ RestOK /\ ServerOK /\ WorldOK
    BY DEF Typed
  <1>1. pc[k] = "owner" /\ UNCHANGED <<rest, server, world>>
    BY DEF SetOwner
  <1>2. inst[k].name \in Names /\ inst[k].cr.phase # "absent"
    BY <1>0, <1>1 DEF WorkOK, WorkerOK, Ends
  <1>3. KubeOK' /\ WorkOK'
    <2>1. CASE Goto(k, "host") /\ UNCHANGED kube
      BY <1>0, <1>1, <2>1, KubeStays, GotoOK DEF Calls, Ends, kube
    <2>2. CASE UpdateAnd(k, [crs[inst[k].name] EXCEPT !.owned = TRUE], "host")
      <3>1. CASE inst[k].fresh
        <4>1. crs[inst[k].name] \in SpecifiedCr /\ crs[inst[k].name].phase # "absent"
          BY <1>0, <1>2, <3>1 DEF KubeOK, WorkOK, WorkerOK, Agrees
        <4> QED  BY <1>0, <1>1, <2>2, <4>1, CrOwned, UpdateAndOK DEF Ends
      <3>2. CASE ~inst[k].fresh
        <4>1. Fail(k) /\ UNCHANGED kube
          BY <2>2, <3>2 DEF UpdateAnd, Store
        <4> QED  BY <1>0, <1>1, <4>1, KubeStays, FailOK DEF kube
      <3> QED  BY <3>1, <3>2
    <2> QED  BY <2>1, <2>2 DEF SetOwner
  <1>4. /\ \A j \in Kinds \ {k} : pc'[j] = pc[j]
        /\ pc'[k] \in {"host", "reportError"}
    BY <1>0, <1>1 DEF SetOwner, UpdateAnd, Goto, Fail, WorkOK
  <1>5. RestOK'
    BY <1>0, <1>1, <1>4, RestStays DEF GerritCalls
  <1>6. ServerOK' /\ WorldOK'
    BY <1>0, <1>1 DEF ServerOK, WorldOK, server, world
  <1> QED  BY <1>3, <1>5, <1>6 DEF Typed

LEMMA FinalizerStep ==
    ASSUME Typed, NEW k \in Kinds, Finalizer(k)
    PROVE  Typed'
  <1>0. KubeOK /\ WorkOK /\ RestOK /\ ServerOK /\ WorldOK
    BY DEF Typed
  <1>1. pc[k] \in {"addFinalizer", "release"} /\ UNCHANGED <<rest, server, world>>
    BY DEF Finalizer, AddFinalizer, Release
  <1>2. inst[k].name \in Names
    BY <1>0, <1>1 DEF WorkOK, WorkerOK
  <1>3. PICK c \in SpecifiedCr : UpdateAnd(k, c, "reportOK")
    <2>1. [crs[inst[k].name] EXCEPT !.finalizer = TRUE] \in SpecifiedCr
      BY <1>0, <1>2, CrFinalized DEF KubeOK
    <2> QED  BY <2>1, AbsentMade DEF Finalizer, AddFinalizer, Release
  <1>4. KubeOK' /\ WorkOK'
    BY <1>0, <1>1, <1>3, UpdateAndOK DEF Ends
  <1>5. /\ \A j \in Kinds \ {k} : pc'[j] = pc[j]
        /\ pc'[k] \in {"reportOK", "reportError"}
    BY <1>0, <1>3 DEF UpdateAnd, Goto, Fail, WorkOK
  <1>6. RestOK'
    BY <1>0, <1>1, <1>5, RestStays DEF GerritCalls
  <1>7. ServerOK' /\ WorldOK'
    BY <1>0, <1>1 DEF ServerOK, WorldOK, server, world
  <1> QED  BY <1>4, <1>6, <1>7 DEF Typed

LEMMA ClientStep ==
    ASSUME Typed, NEW k \in Kinds, GetRestClient(k) \/ InitNewRestClient(k)
    PROVE  Typed'
  <1>0. KubeOK /\ WorkOK /\ RestOK /\ ServerOK /\ WorldOK
    BY DEF Typed
  <1>1. pc[k] \in {"host", "auth"} /\ UNCHANGED <<kube, server, world>>
    BY DEF GetRestClient, InitNewRestClient
  <1>2. OwnerOf[inst[k].name] \in Gerrits
    BY <1>0, <1>1, NameAssumption DEF WorkOK, WorkerOK
  <1>3. /\ FirstCall(k) \in {"create", "add", "rights", "parent", "remove", "addFinalizer",
                              "reportOK"}
        /\ FirstCall(k) = "remove" => inst[k].cr.phase = "deleting"
    BY DEF FirstCall, AfterRights, Deletion, Kinds
  <1>4. PICK p \in {"create", "add", "rights", "parent", "remove", "addFinalizer", "reportOK",
                    "auth"} :
            Goto(k, p) /\ (p = "remove" => inst[k].cr.phase = "deleting")
    BY <1>3 DEF GetRestClient, InitNewRestClient
  <1>5. KubeOK' /\ WorkOK'
    BY <1>0, <1>1, <1>4, KubeStays, GotoOK DEF Calls, GerritCalls, Ends, kube
  <1>6. \A j \in Kinds \ {k} : pc'[j] = pc[j]
    BY <1>0, <1>4 DEF Goto, WorkOK
  <1>7. RestOK'
    <2>1. CASE NeedsHost(k) /\ client' = client /\ ready' = ready
      BY <1>0, <1>6, <2>1, RestStays DEF rest
    <2>2. CASE client' = [client EXCEPT !.host = OwnerOf[inst[k].name]] /\ ready' = ready
      BY <1>0, <1>2, <2>2 DEF RestOK
    <2>3. CASE /\ NeedsHost(k) /\ client' = [client EXCEPT !.auth = OwnerOf[inst[k].name]]
               /\ ready' = ready \cup {k}
      <3>1. client'.host = client.host /\ client.host \in Gerrits
        BY <1>0, <2>3 DEF RestOK
      <3> QED  BY <1>0, <1>2, <2>3, <3>1 DEF RestOK
    <2> QED  BY <2>1, <2>2, <2>3 DEF GetRestClient, InitNewRestClient, NeedsHost
  <1>8. ServerOK' /\ WorldOK'
    BY <1>0, <1>1 DEF ServerOK, WorldOK, server, world
  <1> QED  BY <1>5, <1>7, <1>8 DEF Typed

LEMMA ServerWritten ==
    ASSUME ServerOK, NEW g \in Gerrits
    PROVE  /\ \A s \in Specs : [groups EXCEPT ![g] = s] \in [Gerrits -> Specs \cup {None}]
           /\ \A s \in Specs : [parents EXCEPT ![g] = s] \in [Gerrits -> Specs \cup {None}]
           /\ \A s \in Specs : [members EXCEPT ![g] = @ \cup {s}] \in [Gerrits -> SUBSET Specs]
           /\ \A s \in Specs : [members EXCEPT ![g] = @ \ {s}] \in [Gerrits -> SUBSET Specs]
           /\ \A r : [rights EXCEPT ![g] = @ \ r] \in [Gerrits -> SUBSET AllRights]
           /\ \A r, s \in SUBSET AllRights :
                 [rights EXCEPT ![g] = r \cup s] \in [Gerrits -> SUBSET AllRights]
  BY DEF ServerOK

LEMMA ListedRights == ASSUME NEW s \in Specs PROVE RightsOf[s] \in SUBSET AllRights
  BY DEF AllRights

\* What the requests change, and where they lead.
LEMMA RequestServer ==
    ASSUME Typed,
           \/ CreateGroup \/ UpdateGroup \/ AddUserToGroup \/ DeleteUserFromGroup
           \/ SetAccessRights \/ SetProjectParent \/ DeleteAccessRights
    PROVE  ServerOK'
  <1>0. WorkOK /\ RestOK /\ ServerOK
    BY DEF Typed
  <1>1. CASE CreateGroup \/ UpdateGroup
    <2>1. pc["group"] \in {"create", "update"}
      BY <1>1 DEF CreateGroup, UpdateGroup, Request
    <2>2. Host \in Gerrits /\ Asked("group") \in Specs
      BY <1>0, <2>1, HostKnown, AskedSpec DEF NeedsHost, GerritCalls, Ends, Kinds
    <2>3. /\ groups' \in {groups, [groups EXCEPT ![Host] = Asked("group")]}
          /\ UNCHANGED <<members, projects, rights, parents>>
      BY <1>1 DEF CreateGroup, UpdateGroup
    <2> QED  BY <1>0, <2>2, <2>3, ServerWritten DEF ServerOK
  <1>2. CASE AddUserToGroup \/ DeleteUserFromGroup
    <2>1. pc["member"] \in {"add", "remove"}
      BY <1>2 DEF AddUserToGroup, DeleteUserFromGroup, Request
    <2>2. Host \in Gerrits /\ Asked("member") \in Specs
      BY <1>0, <2>1, HostKnown, AskedSpec DEF NeedsHost, GerritCalls, Ends, Kinds
    <2>3. /\ \/ members' = [members EXCEPT ![Host] = @ \cup {Asked("member")}]
             \/ members' = [members EXCEPT ![Host] = @ \ {Asked("member")}]
          /\ UNCHANGED <<groups, projects, rights, parents>>
      BY <1>2 DEF AddUserToGroup, DeleteUserFromGroup
    <2> QED  BY <1>0, <2>2, <2>3, ServerWritten DEF ServerOK
  <1>3. CASE SetAccessRights \/ DeleteAccessRights
    <2>1. pc["access"] \in {"rights", "remove"}
      BY <1>3 DEF SetAccessRights, DeleteAccessRights, Request
    <2>2. Host \in Gerrits /\ Asked("access") \in Specs
      BY <1>0, <2>1, HostKnown, AskedSpec DEF NeedsHost, GerritCalls, Ends, Kinds
    <2>3. Listed \in SUBSET AllRights /\ rights[Host] \in SUBSET AllRights
      BY <1>0, <2>2, ListedRights DEF Listed, ServerOK
    <2>4. PICK r, s \in SUBSET AllRights : rights' = [rights EXCEPT ![Host] = r \cup s]
      <3>1. CASE rights' = [rights EXCEPT ![Host] = @ \ Replaced]
        <4>1. rights' = [rights EXCEPT ![Host] = (rights[Host] \ Replaced) \cup {}]
          BY <3>1
        <4> QED  BY <2>3, <4>1
      <3>2. CASE rights' = [rights EXCEPT ![Host] = @ \cup Listed]
        BY <2>3, <3>2
      <3>3. CASE rights' = [rights EXCEPT ![Host] = (@ \ Replaced) \cup Listed]
        BY <2>3, <3>3
      <3> QED  BY <1>3, <3>1, <3>2, <3>3 DEF SetAccessRights, DeleteAccessRights
    <2>5. UNCHANGED <<groups, members, projects, parents>>
      BY <1>3 DEF SetAccessRights, DeleteAccessRights
    <2> QED  BY <1>0, <2>2, <2>4, <2>5, ServerWritten DEF ServerOK
  <1>4. CASE SetProjectParent
    <2>1. pc["access"] = "parent"
      BY <1>4 DEF SetProjectParent, Request
    <2>2. Host \in Gerrits /\ Asked("access") \in Specs
      BY <1>0, <2>1, HostKnown, AskedSpec DEF NeedsHost, GerritCalls, Ends, Kinds
    <2>3. /\ parents' = [parents EXCEPT ![Host] = Asked("access")]
          /\ UNCHANGED <<groups, members, projects, rights>>
      BY <1>4 DEF SetProjectParent
    <2> QED  BY <1>0, <2>2, <2>3, ServerWritten DEF ServerOK
  <1> QED  BY <1>1, <1>2, <1>3, <1>4

\* Of a group that was made the worker knows the id.
LEMMA GroupMade ==
    ASSUME WorkOK, pc["group"] \notin Ends, UNCHANGED <<crs, queued>>,
           pc' = [pc EXCEPT !["group"] = "reportOK"],
           inst' = [inst EXCEPT !["group"].cr.known = TRUE]
    PROVE  /\ WorkOK'
           /\ inst'["group"].name = inst["group"].name
           /\ inst'["group"].cr.spec = inst["group"].cr.spec
  <1> DEFINE c == [inst["group"].cr EXCEPT !.known = TRUE]
             i == [inst["group"] EXCEPT !.cr = c]
  <1>0. inst["group"] \in SpecifiedCopy /\ inst["group"].cr \in SpecifiedCr /\ "group" \in Kinds
    BY DEF WorkOK, SpecifiedCopy, Kinds
  <1>1. inst' = [inst EXCEPT !["group"] = i]
    BY <1>0 DEF WorkOK, SpecifiedCopy
  <1>2. c \in SpecifiedCr /\ c.phase = inst["group"].cr.phase
            /\ c.spec = inst["group"].cr.spec /\ c.known
    BY <1>0, CrKnown
  <1>3. i \in SpecifiedCopy /\ i.name = inst["group"].name /\ i.cr = c
            /\ i.fresh = inst["group"].fresh
    BY <1>0, <1>2, CopyRewritten
  <1> HIDE DEF c, i
  <1>4. inst' \in [Kinds -> SpecifiedCopy] /\ inst'["group"] = i
    BY <1>0, <1>1, <1>3 DEF WorkOK
  <1>5. WorkerOK("group")'
    BY <1>0, <1>2, <1>3, <1>4 DEF WorkOK, WorkerOK, Agrees, Ends
  <1>6. ASSUME NEW j \in Kinds \ {"group"} PROVE WorkerOK(j)'
    BY <1>0, <1>1, <1>6, OtherWorker DEF WorkOK, Ends
  <1>7. pc' \in [Kinds -> Calls]
    BY DEF WorkOK, Calls
  <1> QED  BY <1>2, <1>3, <1>4, <1>5, <1>6, <1>7 DEF WorkOK

LEMMA RequestWork ==
    ASSUME Typed,
           \/ CreateGroup \/ UpdateGroup \/ AddUserToGroup \/ DeleteUserFromGroup
           \/ SetAccessRights \/ SetProjectParent \/ DeleteAccessRights
    PROVE  KubeOK' /\ WorkOK' /\ RestOK' /\ WorldOK'
  <1>0. KubeOK /\ WorkOK /\ RestOK /\ WorldOK
    BY DEF Typed
  <1>1. UNCHANGED <<kube, rest, world>>
    BY DEF CreateGroup, UpdateGroup, AddUserToGroup, DeleteUserFromGroup,
           SetAccessRights, SetProjectParent, DeleteAccessRights
  <1>2. KubeOK' /\ WorldOK' /\ crs' = crs
    BY <1>0, <1>1, KubeStays DEF WorldOK, kube, world
  <1>3. CASE CreateGroup
    <2>1. pc["group"] = "create" /\ "group" \in Kinds
      BY <1>3 DEF CreateGroup, Request, Kinds
    <2>2. CASE /\ pc' = [pc EXCEPT !["group"] = "reportOK"]
               /\ inst' = [inst EXCEPT !["group"].cr.known = TRUE] /\ UNCHANGED queued
      <3>1. WorkOK'
        BY <1>0, <1>2, <2>1, <2>2, GroupMade DEF Ends
      <3> QED  BY <1>0, <1>1, <1>2, <2>1, <2>2, <3>1, RestStays DEF WorkOK, GerritCalls
    <2>3. CASE \E p \in {"update", "reportOK", "reportError"} : Goto("group", p)
      <3>1. PICK p \in {"update", "reportOK", "reportError"} : Goto("group", p)
        BY <2>3
      <3>2. WorkOK'
        BY <1>0, <1>2, <2>1, <3>1, GotoOK DEF Calls, GerritCalls, Ends
      <3>3. NeedsHost("group")
        BY <2>1 DEF NeedsHost, GerritCalls
      <3> QED  BY <1>0, <1>1, <1>2, <2>1, <3>1, <3>2, <3>3, RestStays DEF WorkOK, Goto
    <2> QED  BY <1>3, <2>2, <2>3 DEF CreateGroup, Fail
  <1>4. CASE \/ UpdateGroup \/ AddUserToGroup \/ DeleteUserFromGroup
             \/ SetAccessRights \/ SetProjectParent \/ DeleteAccessRights
    <2>1. PICK k \in Kinds, p \in {"parent", "remove", "release", "addFinalizer", "reportOK"} :
              /\ pc[k] \in GerritCalls /\ Then(k, p)
              /\ p \in {"remove", "release"} => inst[k].cr.phase = "deleting"
      <3>0. {"group", "member", "access"} \subseteq Kinds
        BY DEF Kinds
      <3>1. CASE UpdateGroup
        BY <3>0, <3>1 DEF UpdateGroup, Request, GerritCalls
      <3>2. CASE AddUserToGroup \/ SetProjectParent
        BY <3>0, <3>2 DEF AddUserToGroup, SetProjectParent, Request, Deletion, GerritCalls
      <3>3. CASE SetAccessRights
        BY <3>0, <3>3 DEF SetAccessRights, AfterRights, Deletion, Request, GerritCalls
      <3>4. CASE DeleteUserFromGroup \/ DeleteAccessRights
        <4>1. PICK k \in {"member", "access"} : pc[k] = "remove" /\ Then(k, "release")
          BY <3>4 DEF DeleteUserFromGroup, DeleteAccessRights, Request
        <4>2. inst[k].cr.phase = "deleting"
          BY <1>0, <3>0, <4>1 DEF WorkOK, WorkerOK
        <4> QED  BY <3>0, <4>1, <4>2 DEF GerritCalls
      <3> QED  BY <1>4, <3>1, <3>2, <3>3, <3>4
    <2>2. WorkOK'
      BY <1>0, <1>2, <2>1, ThenOK DEF Calls, GerritCalls, Ends
    <2>3. \A j \in Kinds \ {k} : pc'[j] = pc[j]
      BY <1>0, <2>1 DEF Then, Goto, Fail, WorkOK
    <2>4. RestOK'
      BY <1>0, <1>1, <2>1, <2>3, RestStays DEF NeedsHost
    <2> QED  BY <1>2, <2>2, <2>4
  <1> QED  BY <1>3, <1>4

LEMMA FailStep ==
    ASSUME Typed, NEW k \in Kinds, CallFails(k)
    PROVE  Typed'
  <1>0. KubeOK /\ WorkOK /\ RestOK /\ ServerOK /\ WorldOK
    BY DEF Typed
  <1>1. /\ pc[k] # "idle" /\ Fail(k) /\ UNCHANGED <<kube, rest, server, world>>
    BY DEF CallFails, GerritCalls
  <1>2. KubeOK' /\ WorkOK'
    BY <1>0, <1>1, KubeStays, FailOK DEF kube
  <1>3. RestOK'
    BY <1>0, <1>1, RestStays DEF Fail, Goto, WorkOK, GerritCalls
  <1>4. ServerOK' /\ WorldOK'
    BY <1>0, <1>1 DEF ServerOK, WorldOK, server, world
  <1> QED  BY <1>2, <1>3, <1>4 DEF Typed

LEMMA ReportStep ==
    ASSUME Typed, NEW k \in Kinds, ReportOK(k) \/ ReportError(k)
    PROVE  Typed'
  <1>0. KubeOK /\ WorkOK /\ RestOK /\ ServerOK /\ WorldOK
    BY DEF Typed
  <1>1. pc[k] # "idle" /\ WriteStatus(k) /\ Stop(k) /\ UNCHANGED <<rest, server, world>>
    BY DEF ReportOK, ReportError
  <1>2. inst[k].name \in Names
    BY <1>0, <1>1 DEF WorkOK, WorkerOK
  <1>3. KubeOK' /\ \A o \in Names \ {inst[k].name} : crs'[o] = crs[o]
    <2>1. CASE Store(k, Status(k))
      BY <1>0, <1>2, <2>1, CrStatus, StoreOK
    <2>2. CASE UNCHANGED kube
      BY <1>0, <2>2, KubeStays DEF kube
    <2> QED  BY <1>1, <2>1, <2>2 DEF WriteStatus
  <1>4. queued' \subseteq Names
    BY <1>0, <1>2 DEF ReportOK, ReportError, WorkOK
  <1>5. /\ pc' \in [Kinds -> Calls] /\ inst' \in [Kinds -> SpecifiedCopy]
        /\ pc'[k] = "idle" /\ inst'[k] = NoCopy
        /\ \A j \in Kinds \ {k} : pc'[j] = pc[j] /\ inst'[j] = inst[j]
    BY <1>0, <1>1, NoCopyMade DEF Stop, WorkOK, Calls
  <1>6. WorkerOK(k)'
    BY <1>5, NoCopyMade DEF WorkerOK, Ends
  <1>7. ASSUME NEW j \in Kinds \ {k} PROVE WorkerOK(j)'
    BY <1>0, <1>1, <1>3, <1>5, <1>7, OtherWorker
  <1>8. WorkOK'
    BY <1>4, <1>5, <1>6, <1>7 DEF WorkOK
  <1>9. RestOK'
    BY <1>0, <1>1, <1>5, RestStays DEF GerritCalls
  <1>10. ServerOK' /\ WorldOK'
    BY <1>0, <1>1 DEF ServerOK, WorldOK, server, world
  <1> QED  BY <1>3, <1>8, <1>9, <1>10 DEF Typed

LEMMA BeginStep ==
    ASSUME Typed, NEW n \in Names, Begin(n)
    PROVE  Typed'
  <1>0. KubeOK /\ WorkOK /\ RestOK /\ ServerOK /\ WorldOK
    BY DEF Typed
  <1> DEFINE k == KindOf[n]
  <1>1. k \in Kinds /\ pc[k] = "idle" /\ UNCHANGED <<kube, rest, server, world>>
    BY NameAssumption DEF Begin
  <1>2. KubeOK' /\ crs' = crs
    BY <1>0, <1>1, KubeStays DEF kube
  <1>3. WorkOK' /\ RestOK'
    <2>1. CASE UNCHANGED <<pc, inst>>
      <3>1. queued' \subseteq Names
        BY <1>0, <2>1 DEF Begin, WorkOK
      <3>2. \A j \in Kinds : WorkerOK(j)'
        BY <1>0, <1>2, <2>1 DEF WorkOK, WorkerOK, Agrees
      <3> QED  BY <1>0, <1>1, <2>1, <3>1, <3>2 DEF WorkOK, RestOK, NeedsHost, rest
    <2>2. CASE /\ cache[n].cr.phase # "absent"
               /\ pc' = [pc EXCEPT ![k] = "owner"] /\ inst' = [inst EXCEPT ![k] = cache[n]]
      <3>1. cache[n] \in SpecifiedCopy /\ cache[n].name = n
                /\ (cache[n].fresh => cache[n].cr = crs[n])
        BY <1>0 DEF KubeOK, CacheOK
      <3>2. cache[n].cr \in SpecifiedCr
        BY <3>1 DEF SpecifiedCopy
      <3>3. /\ pc' \in [Kinds -> Calls] /\ inst' \in [Kinds -> SpecifiedCopy]
            /\ pc'[k] = "owner" /\ inst'[k] = cache[n]
            /\ \A j \in Kinds \ {k} : pc'[j] = pc[j] /\ inst'[j] = inst[j]
        BY <1>0, <1>1, <2>2, <3>1 DEF WorkOK, Calls
      <3>4. WorkerOK(k)'
        BY <1>2, <2>2, <3>1, <3>2, <3>3 DEF WorkerOK, Ends, Agrees
      <3>5. ASSUME NEW j \in Kinds \ {k} PROVE WorkerOK(j)'
        BY <1>0, <1>2, <3>3, <3>5 DEF WorkOK, WorkerOK, Agrees
      <3>6. queued' \subseteq Names
        BY <1>0 DEF Begin, WorkOK
      <3>7. RestOK'
        BY <1>0, <1>1, <3>3, RestStays DEF GerritCalls
      <3> QED  BY <3>3, <3>4, <3>5, <3>6, <3>7 DEF WorkOK
    <2> QED  BY <2>1, <2>2 DEF Begin
  <1>4. ServerOK' /\ WorldOK'
    BY <1>0, <1>1 DEF ServerOK, WorldOK, server, world
  <1> QED  BY <1>2, <1>3, <1>4 DEF Typed

LEMMA CrashStep ==
    ASSUME Typed, OperatorCrash
    PROVE  Typed'
  <1>0. KubeOK /\ WorkOK /\ RestOK /\ ServerOK /\ WorldOK
    BY DEF Typed
  <1>1. ASSUME NEW n \in Names
        PROVE  /\ CopyOf(n, crs[n], TRUE) \in SpecifiedCopy
               /\ CopyOf(n, crs[n], TRUE).name = n /\ CopyOf(n, crs[n], TRUE).cr = crs[n]
    BY <1>0, <1>1, CopyRead DEF KubeOK
  <1>2. KubeOK'
    BY <1>0, <1>1 DEF KubeOK, CacheOK, OperatorCrash
  <1>3. WorkOK'
    <2>1. ASSUME NEW k \in Kinds PROVE WorkerOK(k)'
      <3>1. pc'[k] = "idle" /\ inst'[k] = NoCopy
        BY <2>1 DEF OperatorCrash
      <3> QED  BY <3>1, NoCopyMade DEF WorkerOK, Ends
    <2>2. queued' \subseteq Names /\ pc' \in [Kinds -> Calls] /\ inst' \in [Kinds -> SpecifiedCopy]
      BY NoCopyMade DEF OperatorCrash, Calls
    <2> QED  BY <2>1, <2>2 DEF WorkOK
  <1>4. RestOK'
    BY DEF RestOK, NeedsHost, OperatorCrash, GerritCalls
  <1>5. ServerOK' /\ WorldOK'
    BY <1>0 DEF OperatorCrash, ServerOK, WorldOK, server, world
  <1> QED  BY <1>2, <1>3, <1>4, <1>5 DEF Typed

LEMMA CacheSyncStep ==
    ASSUME Typed, NEW n \in Names, CacheSync(n)
    PROVE  Typed'
  <1>0. KubeOK /\ WorkOK /\ RestOK /\ ServerOK /\ WorldOK
    BY DEF Typed
  <1>1. /\ CopyOf(n, crs[n], TRUE) \in SpecifiedCopy
        /\ CopyOf(n, crs[n], TRUE).name = n /\ CopyOf(n, crs[n], TRUE).cr = crs[n]
    BY <1>0, CopyRead DEF KubeOK
  <1>2. KubeOK'
    BY <1>0, <1>1 DEF KubeOK, CacheOK, CacheSync
  <1>3. WorkOK'
    BY <1>0 DEF CacheSync, WorkOK, WorkerOK, Agrees
  <1>4. RestOK' /\ ServerOK' /\ WorldOK'
    BY <1>0 DEF CacheSync, RestOK, NeedsHost, ServerOK, WorldOK, rest, server, world
  <1> QED  BY <1>2, <1>3, <1>4 DEF Typed

\* Somebody's write makes the copies of that CR old ones.
LEMMA PeopleStoreOK ==
    ASSUME Typed, NEW n \in Names, NEW c \in SpecifiedCr, PeopleStore(n, c),
           pending' \subseteq Names
    PROVE  Typed'
  <1>0. KubeOK /\ WorkOK /\ RestOK /\ ServerOK /\ WorldOK
    BY DEF Typed
  <1>1. KubeOK' /\ \A o \in Names \ {n} : crs'[o] = crs[o]
    BY <1>0, KubeWritten DEF PeopleStore
  <1>2. ASSUME NEW k \in Kinds
        PROVE  inst'[k] \in SpecifiedCopy /\ WorkerOK(k)'
    <2>1. inst[k] \in SpecifiedCopy /\ WorkerOK(k) /\ pc'[k] = pc[k]
      BY <1>0, <1>2 DEF WorkOK, PeopleStore
    <2>2. CASE inst[k].name = n
      <3>1. inst'[k] = [inst[k] EXCEPT !.fresh = FALSE]
        BY <1>2, <2>2 DEF PeopleStore
      <3>2. /\ inst'[k] \in SpecifiedCopy /\ inst'[k].name = inst[k].name
            /\ inst'[k].cr = inst[k].cr /\ ~inst'[k].fresh
        BY <2>1, <3>1, CopyOutdated
      <3>3. pc[k] # "idle"
        <4>1. CASE pc[k] = "idle"
          <5>1. inst[k].name = None
            BY <2>1, <4>1, NoCopyMade DEF WorkerOK
          <5> QED  BY <2>2, <5>1, NameAssumption
        <4> QED  BY <4>1
      <3> QED  BY <2>1, <3>2, <3>3 DEF WorkerOK
    <2>3. CASE inst[k].name # n
      <3>1. inst'[k] = inst[k]
        BY <1>2, <2>3 DEF PeopleStore
      <3>2. inst[k].fresh => inst[k].name \in Names \ {n}
        BY <2>1, <2>3, NoCopyMade DEF WorkerOK
      <3> QED  BY <1>1, <2>1, <3>1, <3>2 DEF WorkerOK, Agrees
    <2> QED  BY <2>2, <2>3
  <1>3. queued' \subseteq Names /\ pc' \in [Kinds -> Calls] /\ inst' \in [Kinds -> SpecifiedCopy]
    <2>1. inst' = [k \in Kinds |-> inst'[k]]
      BY DEF PeopleStore
    <2>2. queued' = queued /\ pc' = pc
      BY DEF PeopleStore
    <2> QED  BY <1>0, <1>2, <2>1, <2>2 DEF WorkOK
  <1>4. WorkOK'
    BY <1>2, <1>3 DEF WorkOK
  <1>5. RestOK' /\ ServerOK' /\ WorldOK'
    BY <1>0 DEF PeopleStore, RestOK, NeedsHost, ServerOK, WorldOK, rest, server, world
  <1> QED  BY <1>1, <1>4, <1>5 DEF Typed

LEMMA PeopleStep ==
    ASSUME Typed, NEW n \in Names, CrEdited(n) \/ CrDeleted(n)
    PROVE  Typed'
  <1>0. crs[n] \in SpecifiedCr /\ pending \subseteq Names
    BY DEF Typed, KubeOK
  <1>1. CASE CrEdited(n)
    <2>1. PICK s \in Specs : PeopleStore(n, [crs[n] EXCEPT !.spec = s])
      BY <1>1 DEF CrEdited
    <2>2. pending' \subseteq Names
      BY <1>0, <1>1 DEF CrEdited
    <2> QED  BY <1>0, <2>1, <2>2, CrRespecified, PeopleStoreOK
  <1>2. CASE CrDeleted(n)
    <2>1. pending' \subseteq Names /\ crs[n].phase # "absent"
      BY <1>0, <1>2 DEF CrDeleted
    <2>2. PICK c \in SpecifiedCr : PeopleStore(n, c)
      BY <1>0, <1>2, <2>1, AbsentMade, CrDeleting DEF CrDeleted
    <2> QED  BY <2>1, <2>2, PeopleStoreOK
  <1> QED  BY <1>1, <1>2

LEMMA WorldStep ==
    ASSUME Typed,
           \/ CallsStopFailing \/ PeopleStop
           \/ \E g \in Gerrits : GerritChanges(g) \/ LifecycleInitsClient(g)
    PROVE  Typed'
  <1>0. KubeOK /\ WorkOK /\ RestOK /\ ServerOK /\ WorldOK
    BY DEF Typed
  <1>1. UNCHANGED <<kube, work>>
    BY DEF CallsStopFailing, PeopleStop, GerritChanges, LifecycleInitsClient
  <1>2. KubeOK' /\ WorkOK'
    BY <1>0, <1>1, KubeStays, WorkStays DEF kube
  <1>3. CASE CallsStopFailing \/ PeopleStop
    <2>1. RestOK' /\ ServerOK' /\ WorldOK'
      BY <1>0, <1>1, <1>3 DEF CallsStopFailing, PeopleStop, RestOK, NeedsHost, ServerOK, WorldOK,
                             work, rest, server
    <2> QED  BY <1>2, <2>1 DEF Typed
  <1>4. CASE \E g \in Gerrits : GerritChanges(g)
    <2>1. ServerOK'
      BY <1>0, <1>4 DEF GerritChanges, ServerOK
    <2>2. RestOK' /\ WorldOK'
      BY <1>0, <1>1, <1>4 DEF GerritChanges, RestOK, NeedsHost, WorldOK, work, rest, world
    <2> QED  BY <1>2, <2>1, <2>2 DEF Typed
  <1>5. CASE \E g \in Gerrits : LifecycleInitsClient(g)
    <2>1. RestOK'
      BY <1>0, <1>1, <1>5 DEF LifecycleInitsClient, RestOK
    <2>2. ServerOK' /\ WorldOK'
      BY <1>0, <1>5 DEF LifecycleInitsClient, ServerOK, WorldOK, server, world
    <2> QED  BY <1>2, <2>1, <2>2 DEF Typed
  <1> QED  BY <1>3, <1>4, <1>5

----------------------------------------------------------------------------
(* Type correctness. *)

LEMMA InitTyped == Init => Typed
  <1> SUFFICES ASSUME Init PROVE Typed
    OBVIOUS
  <1>1. ASSUME NEW s \in Specs PROVE NewCr(s) \in SpecifiedCr
    BY <1>1, CrMade
  <1>2. crs \in [Names -> SpecifiedCr]
    <2>1. {Absent} \cup {NewCr(s) : s \in Specs} \subseteq SpecifiedCr
      BY <1>1, AbsentMade
    <2> QED  BY <2>1 DEF Init
  <1>3. ASSUME NEW n \in Names
        PROVE  /\ CopyOf(n, crs[n], TRUE) \in SpecifiedCopy
               /\ CopyOf(n, crs[n], TRUE).name = n /\ CopyOf(n, crs[n], TRUE).cr = crs[n]
    BY <1>2, <1>3, CopyRead
  <1>4. KubeOK
    BY <1>2, <1>3 DEF Init, KubeOK, CacheOK
  <1>5. ASSUME NEW k \in Kinds PROVE WorkerOK(k)
    <2>1. pc[k] = "idle" /\ inst[k] = NoCopy
      BY <1>5 DEF Init
    <2> QED  BY <2>1, NoCopyMade DEF WorkerOK, Ends
  <1>6. WorkOK
    BY <1>5, NoCopyMade DEF Init, WorkOK, Calls
  <1>7. RestOK
    BY DEF Init, RestOK, NeedsHost, GerritCalls
  <1>8. ServerOK /\ WorldOK
    BY DEF Init, ServerOK, WorldOK
  <1> QED  BY <1>4, <1>6, <1>7, <1>8 DEF Typed

LEMMA StepTyped == Typed /\ [Next]_vars => Typed'
  <1> SUFFICES ASSUME Typed, [Next]_vars PROVE Typed'
    OBVIOUS
  <1>0. {"group", "member", "access"} \subseteq Kinds
    BY DEF Kinds
  <1>1. ASSUME NEW k \in Kinds, Common(k) PROVE Typed'
    BY <1>1, SetOwnerStep, ClientStep, ReportStep, FailStep DEF Common
  <1>2. CASE GroupRun
    BY <1>0, <1>1, <1>2, RequestServer, RequestWork DEF GroupRun, Typed
  <1>3. CASE MemberRun
    BY <1>0, <1>1, <1>3, RequestServer, RequestWork, FinalizerStep DEF MemberRun, Typed
  <1>4. CASE AccessRun
    BY <1>0, <1>1, <1>4, RequestServer, RequestWork, FinalizerStep DEF AccessRun, Typed
  <1>5. CASE Environment
    BY <1>5, CrashStep, WorldStep, CacheSyncStep, PeopleStep DEF Environment
  <1>6. CASE \E n \in Names : Begin(n)
    BY <1>6, BeginStep
  <1>7. CASE UNCHANGED vars
    <2>1. UNCHANGED <<kube, work, crs, rest, server, world>>
      BY <1>7 DEF vars, kube, work, rest, server, world
    <2>2. KubeOK' /\ WorkOK'
      BY <2>1, KubeStays, WorkStays DEF Typed
    <2>3. RestOK' /\ ServerOK' /\ WorldOK'
      BY <2>1 DEF Typed, RestOK, NeedsHost, ServerOK, WorldOK, work, rest, server, world
    <2> QED  BY <2>2, <2>3 DEF Typed
  <1> QED  BY <1>2, <1>3, <1>4, <1>5, <1>6, <1>7 DEF Next

LEMMA TypedIsTypeOK == Typed => TypeOK
  <1> SUFFICES ASSUME Typed PROVE TypeOK
    OBVIOUS
  <1>0. KubeOK /\ WorkOK /\ RestOK /\ ServerOK /\ WorldOK
    BY DEF Typed
  <1>1. SpecifiedCr \subseteq Cr /\ SpecifiedCopy \subseteq Copy
    BY DEF SpecifiedCr, SpecifiedCopy, Copy
  <1>2. crs \in [Names -> Cr] /\ cache \in [Names -> Copy] /\ inst \in [Kinds -> Copy]
    BY <1>0, <1>1 DEF KubeOK, CacheOK, WorkOK
  <1>3. pending \subseteq Names /\ queued \subseteq Names /\ pc \in [Kinds -> Calls]
    BY <1>0 DEF KubeOK, WorkOK
  <1>4. \A k \in Kinds : pc[k] # "idle" => inst[k].name \in Names
    BY <1>0 DEF WorkOK, WorkerOK
  <1>5. /\ client \in [host : Gerrits \cup {None}, auth : Gerrits \cup {None}]
        /\ ready \subseteq Kinds
        /\ \A k \in Kinds : pc[k] \in GerritCalls => Host # None
    BY <1>0, NameAssumption DEF RestOK, NeedsHost, Host
  <1>6. /\ groups \in [Gerrits -> Specs \cup {None}] /\ members \in [Gerrits -> SUBSET Specs]
        /\ projects \subseteq Gerrits /\ parents \in [Gerrits -> Specs \cup {None}]
        /\ rights \in [Gerrits -> SUBSET UNION {RightsOf[s] : s \in Specs}]
    BY <1>0 DEF ServerOK, AllRights
  <1>7. calm \in BOOLEAN /\ busy \in BOOLEAN
    BY <1>0 DEF WorldOK
  <1> QED  BY <1>2, <1>3, <1>4, <1>5, <1>6, <1>7 DEF TypeOK

\* Every variable keeps its type, whatever the CRs, the Gerrits and the rights: in
\* particular every request has a host, also after a crash, since a worker that has
\* initialised its REST client leaves one behind.
THEOREM TypeCorrect == Spec => []TypeOK
  <1> QED  BY InitTyped, StepTyped, TypedIsTypeOK, PTL DEF Spec

----------------------------------------------------------------------------
(* With one Gerrit: what a worker has achieved when it comes to the end of its run. *)

OneGerrit == \A g, h \in Gerrits : g = h

Home(k) == OwnerOf[inst[k].name]
Live(k) == inst[k].cr.phase = "live"
Deleting(k) == inst[k].cr.phase = "deleting"

GroupDone ==
    pc["group"] = "reportOK" =>
        /\ groups[Home("group")] # None
        /\ groups[Home("group")] = Asked("group") \/ ~inst["group"].cr.known

MemberDone ==
    /\ pc["member"] \in {"addFinalizer", "reportOK"} =>
          /\ ~Deleting("member")
          /\ Live("member") => Asked("member") \in members[Home("member")]
    /\ pc["member"] = "release" => Asked("member") \notin members[Home("member")]

AccessDone ==
    /\ pc["access"] \in {"parent", "addFinalizer", "reportOK"} /\ Live("access") =>
          Listed \subseteq rights[Home("access")]
    /\ pc["access"] \in {"addFinalizer", "reportOK"} =>
          /\ ~Deleting("access")
          /\ Live("access") => \/ parents[Home("access")] = Asked("access")
                               \/ Asked("access") \in Parentless
    /\ pc["access"] = "release" =>
          \A r \in rights[Home("access")], l \in Listed : l[1] # r[1]

Achieved == GroupDone /\ MemberDone /\ AccessDone

\* A step that leaves the worker where it is, or sends it elsewhere than to the end.
Keeps(k) == pc'[k] = pc[k] /\ inst'[k].name = inst[k].name /\ inst'[k].cr = inst[k].cr
Leaves(k) == pc'[k] \notin {"parent", "addFinalizer", "release", "reportOK"}

LEMMA GroupStays ==
    ASSUME Typed, GroupDone, Keeps("group") \/ Leaves("group"),
           \A g \in Gerrits : groups[g] # None => groups'[g] = groups[g]
    PROVE  GroupDone'
  <1>1. CASE pc["group"] = "reportOK" /\ Keeps("group")
    <2>1. Home("group") \in Gerrits
      BY <1>1, NameAssumption DEF Typed, WorkOK, WorkerOK, Home, Kinds
    <2> QED  BY <1>1, <2>1 DEF GroupDone, Keeps, Home, Asked
  <1>2. CASE pc'["group"] # "reportOK"
    BY <1>2 DEF GroupDone
  <1> QED  BY <1>1, <1>2 DEF Keeps, Leaves

LEMMA MemberStays ==
    ASSUME MemberDone, Keeps("member") \/ Leaves("member"), UNCHANGED members
    PROVE  MemberDone'
  BY DEF MemberDone, Keeps, Leaves, Home, Asked, Live, Deleting

LEMMA AccessStays ==
    ASSUME AccessDone, Keeps("access") \/ Leaves("access"), UNCHANGED <<rights, parents>>
    PROVE  AccessDone'
  BY DEF AccessDone, Keeps, Leaves, Home, Asked, Listed, Live, Deleting

LEMMA HostIsHome ==
    ASSUME OneGerrit, Typed, NEW k \in Kinds, NeedsHost(k), pc[k] # "idle"
    PROVE  Host = Home(k) /\ Host \in Gerrits
  <1>1. Host \in Gerrits
    BY HostKnown DEF Typed
  <1>2. Home(k) \in Gerrits
    BY NameAssumption DEF Typed, WorkOK, WorkerOK, Home
  <1> QED  BY <1>1, <1>2 DEF OneGerrit

\* The steps around the calls: the others' copies, Gerrit, and where they lead.
LEMMA OthersKept ==
    ASSUME Typed, NEW k \in Kinds, Common(k) \/ Finalizer(k)
    PROVE  UNCHANGED server /\ \A j \in Kinds \ {k} : Keeps(j)
  <1>0. WorkOK
    BY DEF Typed
  <1>1. CASE SetOwner(k) \/ Finalizer(k)
    <2>1. UNCHANGED server /\ \E c, p : UpdateAnd(k, c, p) \/ Goto(k, p)
      BY <1>1 DEF SetOwner, Finalizer, AddFinalizer, Release
    <2>2. PICK c, p : UpdateAnd(k, c, p) \/ Goto(k, p)
      BY <2>1
    <2>3. \A j \in Kinds \ {k} : pc'[j] = pc[j] /\ inst'[j] = inst[j]
      BY <1>0, <2>2 DEF UpdateAnd, Fail, Goto, WorkOK
    <2> QED  BY <2>1, <2>3 DEF Keeps
  <1>2. CASE GetRestClient(k) \/ InitNewRestClient(k) \/ CallFails(k)
    <2>1. UNCHANGED server /\ \E p : Goto(k, p)
      BY <1>2 DEF GetRestClient, InitNewRestClient, CallFails, Fail
    <2> QED  BY <1>0, <2>1 DEF Keeps, Goto, WorkOK
  <1>3. CASE ReportOK(k) \/ ReportError(k)
    <2>1. UNCHANGED server /\ Stop(k)
      BY <1>3 DEF ReportOK, ReportError
    <2> QED  BY <1>0, <2>1 DEF Keeps, Stop, WorkOK
  <1> QED  BY <1>1, <1>2, <1>3 DEF Common

\* What follows the rights comes first only if the spec lists none.
LEMMA CommonLeads ==
    ASSUME Typed, NEW k \in Kinds, Common(k)
    PROVE  \/ Leaves(k)
           \/ /\ k = "access" /\ pc'[k] = AfterRights(k) /\ inst' = inst
              /\ RightsOf[Asked(k)] = {}
  <1>0. WorkOK
    BY DEF Typed
  <1>1. CASE SetOwner(k)
    <2>1. pc'[k] \in {"host", "reportError"}
      BY <1>0, <1>1 DEF SetOwner, UpdateAnd, Goto, Fail, WorkOK
    <2> QED  BY <2>1 DEF Leaves
  <1>2. CASE GetRestClient(k) \/ InitNewRestClient(k)
    <2>1. FirstCall(k) \in {"create", "add", "rights"}
              \/ (k = "access" /\ FirstCall(k) = AfterRights(k) /\ RightsOf[Asked(k)] = {})
      BY DEF FirstCall, Kinds
    <2>2. pc'[k] \in {FirstCall(k), "auth"} /\ inst' = inst
      BY <1>0, <1>2 DEF GetRestClient, InitNewRestClient, Goto, WorkOK
    <2> QED  BY <2>1, <2>2 DEF Leaves
  <1>3. CASE ReportOK(k) \/ ReportError(k)
    BY <1>0, <1>3 DEF ReportOK, ReportError, Stop, Leaves, WorkOK
  <1>4. CASE CallFails(k)
    BY <1>0, <1>4 DEF CallFails, Fail, Goto, Leaves, WorkOK
  <1> QED  BY <1>1, <1>2, <1>3, <1>4 DEF Common

LEMMA FinalizerLeads ==
    ASSUME Typed, NEW k \in Kinds, Finalizer(k)
    PROVE  \/ Leaves(k)
           \/ /\ pc'[k] = "reportOK" /\ inst'[k].cr.phase = "absent"
           \/ /\ pc[k] = "addFinalizer" /\ pc'[k] = "reportOK"
              /\ inst'[k].name = inst[k].name
              /\ inst'[k].cr.phase = inst[k].cr.phase /\ inst'[k].cr.spec = inst[k].cr.spec
  <1>0. KubeOK /\ WorkOK /\ inst[k] \in SpecifiedCopy /\ inst[k].name \in Names /\ pc[k] # "idle"
    BY DEF Typed, WorkOK, WorkerOK, Finalizer, AddFinalizer, Release
  <1>1. ASSUME NEW c \in SpecifiedCr, UpdateAnd(k, c, "reportOK")
        PROVE  \/ Leaves(k)
               \/ /\ pc'[k] = "reportOK" /\ inst'[k].name = inst[k].name
                  /\ inst'[k].cr = c /\ inst[k].fresh
    <2>1. CASE pc' = [pc EXCEPT ![k] = "reportOK"] /\ inst' = [inst EXCEPT ![k].cr = c]
                   /\ inst[k].fresh
      <3>1. inst' = [inst EXCEPT ![k] = [inst[k] EXCEPT !.cr = c]]
        BY <1>0, <2>1 DEF WorkOK
      <3>2. inst'[k].name = inst[k].name /\ inst'[k].cr = c
        BY <1>0, <1>1, <3>1, CopyRewritten DEF WorkOK
      <3> QED  BY <1>0, <2>1, <3>2 DEF WorkOK
    <2>2. CASE pc' = [pc EXCEPT ![k] = "reportError"]
      BY <1>0, <2>2 DEF Leaves, WorkOK
    <2> QED  BY <1>1, <2>1, <2>2 DEF UpdateAnd, Store, Fail, Goto
  <1>2. CASE AddFinalizer(k)
    <2> DEFINE c == [crs[inst[k].name] EXCEPT !.finalizer = TRUE]
    <2>1. /\ c \in SpecifiedCr /\ c.phase = crs[inst[k].name].phase
          /\ c.spec = crs[inst[k].name].spec
      BY <1>0, CrFinalized DEF KubeOK
    <2>2. UpdateAnd(k, c, "reportOK") /\ pc[k] = "addFinalizer"
      BY <1>2 DEF AddFinalizer
    <2> HIDE DEF c
    <2>3. inst[k].fresh => c.phase = inst[k].cr.phase /\ c.spec = inst[k].cr.spec
      BY <1>0, <2>1 DEF WorkOK, WorkerOK, Agrees
    <2> QED  BY <1>1, <2>1, <2>2, <2>3
  <1>3. CASE Release(k)
    BY <1>1, <1>3, AbsentMade DEF Release
  <1> QED  BY <1>2, <1>3 DEF Finalizer

LEMMA GroupAchieves ==
    ASSUME OneGerrit, Typed, Achieved, CreateGroup \/ UpdateGroup
    PROVE  Achieved'
  <1>0. WorkOK /\ ServerOK /\ {"group", "member", "access"} \subseteq Kinds
    BY DEF Typed, Kinds
  <1>1. pc["group"] \in {"create", "update"} /\ UNCHANGED <<members, rights, parents>>
    BY DEF CreateGroup, UpdateGroup, Request
  <1>2. Host = Home("group") /\ Host \in Gerrits
    BY <1>0, <1>1, HostIsHome DEF NeedsHost, GerritCalls
  <1>3. Asked("group") \in Specs /\ Asked("group") # None
    BY <1>0, <1>1, AskedSpec, NameAssumption DEF Ends
  <1>4. CASE \E p \in {"update", "reportError"} : Goto("group", p)
    <2>1. Leaves("group") /\ Keeps("member") /\ Keeps("access")
      BY <1>0, <1>4 DEF Leaves, Keeps, Goto, WorkOK
    <2>2. GroupDone'
      BY <2>1 DEF GroupDone, Leaves
    <2> QED  BY <1>1, <2>1, <2>2, MemberStays, AccessStays DEF Achieved
  <1>5. CASE Goto("group", "reportOK")
    <2>1. Keeps("member") /\ Keeps("access")
      BY <1>0, <1>5 DEF Keeps, Goto, WorkOK
    <2>2. \/ groups'[Host] = Asked("group")
          \/ groups' = groups /\ groups[Host] # None /\ ~inst["group"].cr.known
      <3>1. CASE CreateGroup
        <4>1. groups[Host] # None => Goto("group", IF inst["group"].cr.known THEN "update"
                                                   ELSE "reportOK")
          BY <3>1 DEF CreateGroup
        <4>2. pc'["group"] = "reportOK"
          BY <1>0, <1>5 DEF Goto, WorkOK
        <4>3. groups[Host] # None => ~inst["group"].cr.known
          BY <1>0, <4>1, <4>2 DEF Goto, WorkOK
        <4>4. \/ groups' = [groups EXCEPT ![Host] = Asked("group")]
              \/ groups' = groups /\ groups[Host] # None
          BY <3>1 DEF CreateGroup
        <4> QED  BY <1>0, <1>2, <4>3, <4>4 DEF ServerOK
      <3>2. CASE UpdateGroup
        BY <1>0, <1>2, <3>2 DEF UpdateGroup, ServerOK
      <3> QED  BY <3>1, <3>2
    <2>3. inst' = inst
      BY <1>5 DEF Goto
    <2>4. GroupDone'
      BY <1>2, <1>3, <2>2, <2>3 DEF GroupDone, Home, Asked
    <2> QED  BY <1>1, <2>1, <2>4, MemberStays, AccessStays DEF Achieved
  <1>6. CASE /\ groups' = [groups EXCEPT ![Host] = Asked("group")] /\ UNCHANGED queued
             /\ pc' = [pc EXCEPT !["group"] = "reportOK"]
             /\ inst' = [inst EXCEPT !["group"].cr.known = TRUE]
    <2>1. UNCHANGED crs
      BY DEF CreateGroup, UpdateGroup, kube
    <2>2. inst'["group"].name = inst["group"].name
              /\ inst'["group"].cr.spec = inst["group"].cr.spec
      BY <1>0, <1>1, <1>6, <2>1, GroupMade DEF Ends
    <2>3. groups'[Host] = Asked("group")
      BY <1>0, <1>2, <1>6 DEF ServerOK
    <2>4. GroupDone'
      BY <1>2, <1>3, <2>2, <2>3 DEF GroupDone, Home, Asked
    <2>5. Keeps("member") /\ Keeps("access")
      BY <1>0, <1>6 DEF Keeps, WorkOK
    <2> QED  BY <1>1, <2>4, <2>5, MemberStays, AccessStays DEF Achieved
  <1> QED  BY <1>4, <1>5, <1>6 DEF CreateGroup, UpdateGroup, Then, Fail

LEMMA MemberAchieves ==
    ASSUME OneGerrit, Typed, Achieved, AddUserToGroup \/ DeleteUserFromGroup
    PROVE  Achieved'
  <1>0. WorkOK /\ ServerOK /\ {"group", "member", "access"} \subseteq Kinds
    BY DEF Typed, Kinds
  <1>1. pc["member"] \in {"add", "remove"} /\ UNCHANGED <<groups, rights, parents>>
    BY DEF AddUserToGroup, DeleteUserFromGroup, Request
  <1>2. Host = Home("member") /\ Host \in Gerrits
    BY <1>0, <1>1, HostIsHome DEF NeedsHost, GerritCalls
  <1>3. PICK p : Goto("member", p)
    BY DEF AddUserToGroup, DeleteUserFromGroup, Then, Fail
  <1>4. inst' = inst /\ pc'["member"] = p /\ Keeps("group") /\ Keeps("access")
    BY <1>0, <1>3 DEF Keeps, Goto, WorkOK
  <1>5. MemberDone'
    <2>1. CASE p = "reportError"
      BY <1>4, <2>1 DEF MemberDone
    <2>2. CASE p # "reportError" /\ AddUserToGroup
      <3>1. members'[Host] = members[Host] \cup {Asked("member")}
        BY <1>0, <1>2, <2>2 DEF AddUserToGroup, ServerOK
      <3>2. p = Deletion("member")
        BY <1>0, <1>4, <2>2 DEF AddUserToGroup, Then, Fail, Goto, WorkOK
      <3> QED  BY <1>2, <1>4, <3>1, <3>2 DEF MemberDone, Home, Asked, Live, Deleting, Deletion
    <2>3. CASE p # "reportError" /\ DeleteUserFromGroup
      <3>1. members'[Host] = members[Host] \ {Asked("member")}
        BY <1>0, <1>2, <2>3 DEF DeleteUserFromGroup, ServerOK
      <3>2. p = "release"
        BY <1>0, <1>4, <2>3 DEF DeleteUserFromGroup, Then, Fail, Goto, WorkOK
      <3> QED  BY <1>2, <1>4, <3>1, <3>2 DEF MemberDone, Home, Asked
    <2> QED  BY <2>1, <2>2, <2>3
  <1> QED  BY <1>1, <1>4, <1>5, GroupStays, AccessStays DEF Achieved

LEMMA AccessAchieves ==
    ASSUME OneGerrit, Typed, Achieved, SetAccessRights \/ SetProjectParent \/ DeleteAccessRights
    PROVE  Achieved'
  <1>0. WorkOK /\ ServerOK /\ {"group", "member", "access"} \subseteq Kinds
    BY DEF Typed, Kinds
  <1>1. pc["access"] \in {"rights", "parent", "remove"} /\ UNCHANGED <<groups, members>>
    BY DEF SetAccessRights, SetProjectParent, DeleteAccessRights, Request
  <1>2. Host = Home("access") /\ Host \in Gerrits
    BY <1>0, <1>1, HostIsHome DEF NeedsHost, GerritCalls
  <1>3. PICK p : Goto("access", p)
    BY DEF SetAccessRights, SetProjectParent, DeleteAccessRights, Then, Fail
  <1>4. inst' = inst /\ pc'["access"] = p /\ Keeps("group") /\ Keeps("member")
    BY <1>0, <1>3 DEF Keeps, Goto, WorkOK
  <1>5. Home("access")' = Home("access") /\ Asked("access")' = Asked("access")
            /\ Listed' = Listed /\ Live("access")' = Live("access")
            /\ Deleting("access")' = Deleting("access")
    BY <1>4 DEF Home, Asked, Listed, Live, Deleting
  <1>6. AccessDone'
    <2>1. CASE p = "reportError"
      BY <1>4, <2>1 DEF AccessDone
    <2>2. CASE p # "reportError" /\ SetAccessRights
      <3>1. Listed \subseteq rights'[Host]
        BY <1>0, <1>2, <2>2 DEF SetAccessRights, ServerOK
      <3>2. p = AfterRights("access")
        BY <1>0, <1>4, <2>2 DEF SetAccessRights, Then, Fail, Goto, WorkOK
      <3>3. \/ p \in {"parent", "remove"}
            \/ /\ p \in {"reportOK", "addFinalizer"} /\ ~Deleting("access")
               /\ Asked("access") \in Parentless
        BY <3>2 DEF AfterRights, Deletion, Deleting
      <3> QED  BY <1>2, <1>4, <1>5, <3>1, <3>3 DEF AccessDone
    <2>3. CASE p # "reportError" /\ SetProjectParent
      <3>1. parents'[Host] = Asked("access") /\ rights' = rights
        BY <1>0, <1>2, <2>3 DEF SetProjectParent, ServerOK
      <3>2. p = Deletion("access")
        BY <1>0, <1>4, <2>3 DEF SetProjectParent, Then, Fail, Goto, WorkOK
      <3>3. p = "remove" \/ (p \in {"reportOK", "addFinalizer"} /\ ~Deleting("access"))
        BY <3>2 DEF Deletion, Deleting
      <3>4. Live("access") => Listed \subseteq rights[Home("access")]
        BY <2>3 DEF SetProjectParent, Request, Achieved, AccessDone
      <3> QED  BY <1>2, <1>4, <1>5, <3>1, <3>3, <3>4 DEF AccessDone
    <2>4. CASE p # "reportError" /\ DeleteAccessRights
      <3>1. rights'[Host] = rights[Host] \ Replaced
        BY <1>0, <1>2, <2>4 DEF DeleteAccessRights, ServerOK
      <3>2. \A r \in rights'[Host], l \in Listed : l[1] # r[1]
        BY <3>1 DEF Replaced
      <3>3. p = "release"
        BY <1>0, <1>4, <2>4 DEF DeleteAccessRights, Then, Fail, Goto, WorkOK
      <3> QED  BY <1>2, <1>4, <1>5, <3>2, <3>3 DEF AccessDone
    <2> QED  BY <2>1, <2>2, <2>3, <2>4
  <1> QED  BY <1>1, <1>4, <1>6, GroupStays, MemberStays DEF Achieved

LEMMA AroundAchieves ==
    ASSUME Typed, Achieved, NEW k \in Kinds, Common(k) \/ (k # "group" /\ Finalizer(k))
    PROVE  Achieved'
  <1>0. UNCHANGED <<groups, members, rights, parents>> /\ \A j \in Kinds \ {k} : Keeps(j)
    BY OthersKept DEF server
  <1>1. CASE k = "group"
    <2>1. Keeps("member") /\ Keeps("access") /\ Leaves("group")
      BY <1>0, <1>1, CommonLeads DEF Kinds
    <2> QED  BY <1>0, <2>1, GroupStays, MemberStays, AccessStays DEF Achieved
  <1>2. CASE k = "member"
    <2>1. Keeps("group") /\ Keeps("access")
      BY <1>0, <1>2 DEF Kinds
    <2>2. MemberDone'
      <3>1. CASE Leaves("member")
        BY <1>0, <3>1, MemberStays DEF Achieved
      <3>2. CASE pc'["member"] = "reportOK" /\ inst'["member"].cr.phase = "absent"
        BY <3>2 DEF MemberDone, Live, Deleting
      <3>3. CASE /\ pc["member"] = "addFinalizer" /\ pc'["member"] = "reportOK"
                 /\ inst'["member"].name = inst["member"].name
                 /\ inst'["member"].cr.phase = inst["member"].cr.phase
                 /\ inst'["member"].cr.spec = inst["member"].cr.spec
        BY <1>0, <3>3 DEF Achieved, MemberDone, Home, Asked, Live, Deleting
      <3> QED  BY <1>2, <3>1, <3>2, <3>3, CommonLeads, FinalizerLeads
    <2> QED  BY <1>0, <2>1, <2>2, GroupStays, AccessStays DEF Achieved
  <1>3. CASE k = "access"
    <2>1. Keeps("group") /\ Keeps("member")
      BY <1>0, <1>3 DEF Kinds
    <2>2. AccessDone'
      <3>1. CASE Leaves("access")
        BY <1>0, <3>1, AccessStays DEF Achieved
      <3>2. CASE pc'["access"] = "reportOK" /\ inst'["access"].cr.phase = "absent"
        BY <3>2 DEF AccessDone, Live, Deleting
      <3>3. CASE /\ pc["access"] = "addFinalizer" /\ pc'["access"] = "reportOK"
                 /\ inst'["access"].name = inst["access"].name
                 /\ inst'["access"].cr.phase = inst["access"].cr.phase
                 /\ inst'["access"].cr.spec = inst["access"].cr.spec
        <4>1. Home("access")' = Home("access") /\ Asked("access")' = Asked("access")
                  /\ Listed' = Listed /\ Live("access")' = Live("access")
            /\ Deleting("access")' = Deleting("access")
          BY <3>3 DEF Home, Asked, Listed, Live, Deleting
        <4> QED  BY <1>0, <3>3, <4>1 DEF Achieved, AccessDone
      <3>4. CASE /\ pc'["access"] = AfterRights("access") /\ inst' = inst
                 /\ RightsOf[Asked("access")] = {}
        <4>1. /\ Listed' = {} /\ Live("access")' = Live("access")
              /\ Deleting("access")' = Deleting("access")
              /\ Asked("access")' = Asked("access")
          BY <3>4 DEF Listed, Asked, Live, Deleting
        <4>2. \/ pc'["access"] \in {"parent", "remove"}
              \/ /\ pc'["access"] \in {"reportOK", "addFinalizer"} /\ ~Deleting("access")
                 /\ Asked("access") \in Parentless
          BY <3>4 DEF AfterRights, Deletion, Deleting
        <4> QED  BY <4>1, <4>2 DEF AccessDone
      <3> QED  BY <1>3, <3>1, <3>2, <3>3, <3>4, CommonLeads, FinalizerLeads
    <2> QED  BY <1>0, <2>1, <2>2, GroupStays, MemberStays DEF Achieved
  <1> QED  BY <1>1, <1>2, <1>3 DEF Kinds

LEMMA BeginAchieves ==
    ASSUME Typed, Achieved, NEW n \in Names, Begin(n)
    PROVE  Achieved'
  <1>0. UNCHANGED <<groups, members, rights, parents>>
    BY DEF Begin, server
  <1>1. WorkOK /\ KindOf[n] \in Kinds
    BY NameAssumption DEF Typed
  <1>2. \A k \in Kinds : Keeps(k) \/ Leaves(k)
    BY <1>1 DEF Begin, Keeps, Leaves, WorkOK
  <1> QED  BY <1>0, <1>2, GroupStays, MemberStays, AccessStays DEF Achieved, Kinds

LEMMA EnvironmentAchieves ==
    ASSUME Typed, Achieved, Environment \/ UNCHANGED vars
    PROVE  Achieved'
  <1>0. WorkOK /\ {"group", "member", "access"} \subseteq Kinds
    BY DEF Typed, Kinds
  <1>1. \A k \in Kinds : Keeps(k) \/ Leaves(k)
    <2>1. CASE OperatorCrash
      BY <2>1 DEF OperatorCrash, Leaves
    <2>2. CASE \E n \in Names : \E c : PeopleStore(n, c)
      <3>1. PICK n \in Names : \E c : PeopleStore(n, c)
        BY <2>2
      <3>2. ASSUME NEW k \in Kinds PROVE Keeps(k)
        <4>1. inst[k] \in SpecifiedCopy
          BY <1>0, <3>2 DEF WorkOK
        <4>2. inst'[k] \in {inst[k], [inst[k] EXCEPT !.fresh = FALSE]} /\ pc' = pc
          BY <3>1, <3>2 DEF PeopleStore
        <4> QED  BY <4>1, <4>2, CopyOutdated DEF Keeps
      <3> QED  BY <3>2
    <2>3. CASE UNCHANGED <<pc, inst>>
      BY <2>3 DEF Keeps
    <2> QED  BY <2>1, <2>2, <2>3
             DEF Environment, CallsStopFailing, PeopleStop, CacheSync, CrEdited, CrDeleted,
                 GerritChanges, LifecycleInitsClient, work, vars
  <1>2. UNCHANGED <<members, rights, parents>>
    BY DEF Environment, OperatorCrash, CallsStopFailing, PeopleStop, CacheSync, CrEdited, CrDeleted,
           PeopleStore, GerritChanges, LifecycleInitsClient, server, vars
  <1>3. \A g \in Gerrits : groups[g] # None => groups'[g] = groups[g]
    <2>1. CASE \E g \in Gerrits : GerritChanges(g)
      <3>1. ASSUME NEW h \in Gerrits, groups[h] # None, groups' # groups
            PROVE  groups'[h] = groups[h]
        <4>1. PICK g \in Gerrits, s \in Specs :
                  groups[g] = None /\ groups' = [groups EXCEPT ![g] = s]
          BY <2>1, <3>1 DEF GerritChanges
        <4> QED  BY <3>1, <4>1 DEF Typed, ServerOK
      <3> QED  BY <3>1
    <2>2. CASE UNCHANGED groups
      BY <2>2
    <2> QED  BY <2>1, <2>2
             DEF Environment, OperatorCrash, CallsStopFailing, PeopleStop, CacheSync, CrEdited,
                 CrDeleted, PeopleStore, LifecycleInitsClient, server, vars
  <1> QED  BY <1>0, <1>1, <1>2, <1>3, GroupStays, MemberStays, AccessStays DEF Achieved

LEMMA StepAchieves ==
    ASSUME OneGerrit, Typed, Achieved, [Next]_vars
    PROVE  Achieved'
  <1>0. {"group", "member", "access"} \subseteq Kinds
    BY DEF Kinds
  <1>1. CASE GroupRun
    BY <1>0, <1>1, AroundAchieves, GroupAchieves DEF GroupRun
  <1>2. CASE MemberRun
    BY <1>0, <1>2, AroundAchieves, MemberAchieves DEF MemberRun
  <1>3. CASE AccessRun
    BY <1>0, <1>3, AroundAchieves, AccessAchieves DEF AccessRun
  <1>4. CASE Environment \/ UNCHANGED vars
    BY <1>4, EnvironmentAchieves
  <1>5. CASE \E n \in Names : Begin(n)
    BY <1>5, BeginAchieves
  <1> QED  BY <1>1, <1>2, <1>3, <1>4, <1>5 DEF Next

LEMMA InitAchieves == Init => Achieved
  BY DEF Init, Achieved, GroupDone, MemberDone, AccessDone, Kinds

----------------------------------------------------------------------------
(* Who writes a CR, and what. *)

\* Neither drops a CR under deletion nor reports that it is OK.
Harmless(n) ==
    /\ crs'[n].phase = "absent" => crs[n].phase # "deleting"
    /\ crs'[n].value = "OK" => crs[n].value = "OK"

Releases(k, n) == Release(k) /\ inst[k].name = n /\ inst[k].fresh
Reports(k, n) ==
    /\ pc[k] = "reportOK" /\ inst[k].name = n /\ crs[n].phase # "absent"
    /\ Store(k, Status(k))

LEMMA PeopleWrites ==
    ASSUME Typed, NEW n \in Names, NEW o \in Names, CrEdited(o) \/ CrDeleted(o)
    PROVE  Harmless(n)
  <1>0. crs \in [Names -> SpecifiedCr]
    BY DEF Typed, KubeOK
  <1>1. CASE CrEdited(o)
    <2>1. PICK s \in Specs : crs' = [crs EXCEPT ![o] = [crs[o] EXCEPT !.spec = s]]
      BY <1>1 DEF CrEdited, PeopleStore
    <2>2. /\ [crs[o] EXCEPT !.spec = s].phase = crs[o].phase
          /\ [crs[o] EXCEPT !.spec = s].value = crs[o].value
      BY <1>0, <2>1, CrRespecified
    <2> HIDE DEF Harmless
    <2>3. crs[o].phase # "absent"
      BY <1>1 DEF CrEdited
    <2>4. crs'[n].phase = crs[n].phase /\ crs'[n].value = crs[n].value
      BY <1>0, <2>1, <2>2
    <2>5. crs[n].phase = "absent" => crs[n].phase # "deleting"
      OBVIOUS
    <2> QED  BY <2>4, <2>5 DEF Harmless
  <1>2. CASE CrDeleted(o)
    <2>1. crs[o].phase = "live"
      BY <1>2 DEF CrDeleted
    <2>2. CASE crs' = [crs EXCEPT ![o] = [crs[o] EXCEPT !.phase = "deleting"]]
      <3>1. /\ [crs[o] EXCEPT !.phase = "deleting"].phase = "deleting"
            /\ [crs[o] EXCEPT !.phase = "deleting"].value = crs[o].value
        BY <1>0, <2>1, CrDeleting
      <3> QED  BY <1>0, <2>2, <3>1 DEF Harmless
    <2>3. CASE crs' = [crs EXCEPT ![o] = Absent]
      BY <1>0, <2>1, <2>3, AbsentMade DEF Harmless
    <2> QED  BY <1>2, <2>2, <2>3 DEF CrDeleted, PeopleStore
  <1> QED  BY <1>1, <1>2

LEMMA WorkerWrites ==
    ASSUME Typed, NEW n \in Names, NEW k \in Kinds, Common(k) \/ Finalizer(k)
    PROVE  /\ Common(k) => Harmless(n) \/ Reports(k, n)
           /\ Finalizer(k) => Harmless(n) \/ Releases(k, n)
  <1>0. KubeOK /\ WorkOK /\ crs \in [Names -> SpecifiedCr]
    BY DEF Typed, KubeOK
  <1>1. ASSUME crs' = crs PROVE Harmless(n)
    BY <1>1 DEF Harmless
  <1>2. ASSUME NEW c \in SpecifiedCr, Store(k, c), pc[k] # "idle",
               /\ c.phase = crs[inst[k].name].phase
               /\ c.value \in {crs[inst[k].name].value, "error"}
        PROVE  Harmless(n)
    <2>1. inst[k].name \in Names
      BY <1>0, <1>2 DEF WorkOK, WorkerOK
    <2>2. crs'[inst[k].name] = c /\ \A o \in Names \ {inst[k].name} : crs'[o] = crs[o]
      BY <1>0, <1>2, <2>1, StoreOK
    <2>3. crs'[n].phase = crs[n].phase /\ crs'[n].value \in {crs[n].value, "error"}
      BY <1>2, <2>1, <2>2
    <2> QED  BY <2>3 DEF Harmless
  <1>3. ASSUME SetOwner(k) PROVE Harmless(n)
    <2>1. inst[k].name \in Names /\ pc[k] # "idle"
      BY <1>0, <1>3 DEF SetOwner, WorkOK, WorkerOK
    <2> DEFINE c == [crs[inst[k].name] EXCEPT !.owned = TRUE]
    <2>2. /\ c \in SpecifiedCr /\ c.phase = crs[inst[k].name].phase
          /\ c.value = crs[inst[k].name].value
      BY <1>0, <2>1, CrOwned
    <2>3. crs' = crs \/ Store(k, c)
      BY <1>3 DEF SetOwner, UpdateAnd, kube
    <2> HIDE DEF c
    <2> QED  BY <1>1, <1>2, <2>1, <2>2, <2>3
  <1>4. ASSUME AddFinalizer(k) PROVE Harmless(n)
    <2>1. inst[k].name \in Names /\ pc[k] # "idle"
      BY <1>0, <1>4 DEF AddFinalizer, WorkOK, WorkerOK
    <2> DEFINE c == [crs[inst[k].name] EXCEPT !.finalizer = TRUE]
    <2>2. /\ c \in SpecifiedCr /\ c.phase = crs[inst[k].name].phase
          /\ c.value = crs[inst[k].name].value
      BY <1>0, <2>1, CrFinalized
    <2>3. crs' = crs \/ Store(k, c)
      BY <1>4 DEF AddFinalizer, UpdateAnd, kube
    <2> HIDE DEF c
    <2> QED  BY <1>1, <1>2, <2>1, <2>2, <2>3
  <1>5. ASSUME Release(k) PROVE Harmless(n) \/ Releases(k, n)
    <2>1. inst[k].name \in Names
      BY <1>0, <1>5 DEF Release, WorkOK, WorkerOK
    <2>2. crs' = crs \/ Store(k, Absent)
      BY <1>5 DEF Release, UpdateAnd, kube
    <2>3. CASE Store(k, Absent)
      <3>1. inst[k].fresh /\ \A o \in Names \ {inst[k].name} : crs'[o] = crs[o]
        BY <1>0, <2>1, <2>3, AbsentMade, StoreOK
      <3>2. inst[k].name # n => crs'[n] = crs[n]
        BY <3>1
      <3> QED  BY <1>5, <3>1, <3>2 DEF Releases, Harmless
    <2> QED  BY <1>1, <2>2, <2>3
  <1>6. ASSUME ReportOK(k) \/ ReportError(k) PROVE Harmless(n) \/ Reports(k, n)
    <2>1. /\ pc[k] \in {"reportOK", "reportError"} /\ inst[k].name \in Names
          /\ crs' = crs \/ (CrNow(k).phase # "absent" /\ Store(k, Status(k)))
      BY <1>0, <1>6 DEF ReportOK, ReportError, WriteStatus, WorkOK, WorkerOK, kube
    <2>2. CASE CrNow(k).phase # "absent" /\ Store(k, Status(k))
      <3>1. /\ Status(k) \in SpecifiedCr /\ Status(k).phase = inst[k].cr.phase
            /\ Status(k).value = IF pc[k] = "reportOK" THEN "OK" ELSE "error"
        BY <1>0, CrStatus
      <3>2. inst[k].cr.phase = crs[inst[k].name].phase
        BY <1>0, <2>2 DEF Store, WorkOK, WorkerOK, Agrees
      <3>3. CASE pc[k] = "reportError"
        BY <1>2, <2>2, <3>1, <3>2, <3>3
      <3>4. CASE pc[k] = "reportOK" /\ inst[k].name # n
        <4>1. \A o \in Names \ {inst[k].name} : crs'[o] = crs[o]
          BY <1>0, <2>1, <2>2, <3>1, StoreOK
        <4> QED  BY <3>4, <4>1 DEF Harmless
      <3>5. CASE pc[k] = "reportOK" /\ inst[k].name = n
        BY <2>2, <3>5 DEF Reports, CrNow
      <3> QED  BY <2>1, <3>3, <3>4, <3>5
    <2> QED  BY <1>1, <2>1, <2>2
  <1>7. ASSUME GetRestClient(k) \/ InitNewRestClient(k) \/ CallFails(k) PROVE Harmless(n)
    BY <1>1, <1>7 DEF GetRestClient, InitNewRestClient, CallFails, kube
  <1> QED  BY <1>3, <1>4, <1>5, <1>6, <1>7 DEF Common, Finalizer

LEMMA Writes ==
    ASSUME Typed, [Next]_vars, NEW n \in Names
    PROVE  \/ Harmless(n)
           \/ \E k \in Kinds : Reports(k, n) /\ UNCHANGED server
           \/ \E k \in Kinds \ {"group"} : Releases(k, n) /\ UNCHANGED server
  <1>0. Kinds = {"group", "member", "access"}
    BY DEF Kinds
  <1>1. CASE crs' = crs
    BY <1>1 DEF Harmless
  <1>2. ASSUME NEW k \in Kinds, Common(k) \/ (k # "group" /\ Finalizer(k))
        PROVE  \/ Harmless(n)
               \/ Reports(k, n) /\ UNCHANGED server
               \/ k # "group" /\ Releases(k, n) /\ UNCHANGED server
    <2>1. UNCHANGED server
      BY <1>2, OthersKept
    <2> QED  BY <1>2, <2>1, WorkerWrites
  <1>3. CASE GroupRun
    BY <1>0, <1>1, <1>2, <1>3 DEF GroupRun, CreateGroup, UpdateGroup, kube
  <1>4. CASE MemberRun
    BY <1>0, <1>1, <1>2, <1>4 DEF MemberRun, AddUserToGroup, DeleteUserFromGroup, kube
  <1>5. CASE AccessRun
    BY <1>0, <1>1, <1>2, <1>5 DEF AccessRun, SetAccessRights, SetProjectParent, DeleteAccessRights, kube
  <1>6. CASE Environment
    BY <1>1, <1>6, PeopleWrites
       DEF Environment, OperatorCrash, CallsStopFailing, PeopleStop, CacheSync, GerritChanges,
           LifecycleInitsClient, kube
  <1>7. CASE (\E o \in Names : Begin(o)) \/ UNCHANGED vars
    BY <1>1, <1>7 DEF Begin, kube, vars
  <1> QED  BY <1>3, <1>4, <1>5, <1>6, <1>7 DEF Next

----------------------------------------------------------------------------
(* The theorems. *)

LEMMA ReleasesCleanly ==
    ASSUME Typed, Achieved, NEW n \in Names, NEW k \in {"member", "access"}, Releases(k, n),
           UNCHANGED server
    PROVE  /\ KindOf[n] = "member" => crs[n].spec \notin members'[OwnerOf[n]]
           /\ KindOf[n] = "access" => UnderListed(n) \cap rights'[OwnerOf[n]] = {}
  <1>0. pc[k] = "release" /\ k \in Kinds /\ members' = members /\ rights' = rights
    BY DEF Releases, Release, Kinds, server
  <1>1. KindOf[n] = k /\ crs[n].spec = Asked(k) /\ OwnerOf[n] = Home(k)
    BY <1>0 DEF Releases, Typed, WorkOK, WorkerOK, Agrees, Asked, Home
  <1>2. CASE k = "member"
    BY <1>0, <1>1, <1>2 DEF Achieved, MemberDone
  <1>3. CASE k = "access"
    <2>1. Lists(n) \subseteq Listed
      BY <1>1, <1>3 DEF Lists, Listed
    <2>2. UnderListed(n) = {}
      BY <1>0, <1>1, <1>3, <2>1 DEF UnderListed, Achieved, AccessDone
    <2> QED  BY <1>1, <1>3, <2>2
  <1> QED  BY <1>2, <1>3

LEMMA ReportsTruly ==
    ASSUME Typed, Achieved, NEW n \in Names, NEW k \in Kinds, Reports(k, n), UNCHANGED server
    PROVE  Satisfied(n)'
  <1>0. KubeOK /\ WorkOK
    BY DEF Typed
  <1>1. /\ groups' = groups /\ members' = members /\ rights' = rights /\ parents' = parents
        /\ pc[k] = "reportOK" /\ inst[k].name = n /\ inst[k].fresh /\ Store(k, Status(k))
        /\ crs[n].phase # "absent"
    BY DEF Reports, Store, server
  <1>2. /\ KindOf[n] = k /\ OwnerOf[n] = Home(k)
        /\ crs[n].phase = inst[k].cr.phase
    BY <1>0, <1>1 DEF WorkOK, WorkerOK, Agrees, Home
  <1>3. crs'[n] = Status(k)
    BY <1>0, <1>1, CrStatus, StoreOK
  <1>4. crs'[n].spec = Asked(k)
    BY <1>0, <1>3, CrStatus DEF Asked
  <1>5. CASE k = "group"
    <2>1. crs'[n].known = inst[k].cr.known
      <3>1. inst[k].cr \in SpecifiedCr
        BY <1>0 DEF WorkOK, SpecifiedCopy
      <3>2. Status(k) = [inst[k].cr EXCEPT !.value = "OK", !.failures = 0,
                                           !.known = inst[k].cr.known \/ k = "access"]
        BY <1>1 DEF Status
      <3>3. Status(k).known = (inst[k].cr.known \/ k = "access")
        BY <3>1, <3>2 DEF SpecifiedCr, Cr
      <3>4. inst[k].cr.known \in BOOLEAN
        BY <3>1 DEF SpecifiedCr, Cr
      <3> QED  BY <1>3, <1>5, <3>3, <3>4
    <2> QED  BY <1>1, <1>2, <1>4, <1>5, <2>1 DEF Satisfied, Achieved, GroupDone
  <1>6. ASSUME k # "group" PROVE Live(k)
    <2>1. ~Deleting(k)
      BY <1>1, <1>6 DEF Achieved, MemberDone, AccessDone, Kinds
    <2>2. inst[k].cr.phase \in Phases
      BY <1>0 DEF WorkOK, SpecifiedCopy, SpecifiedCr, Cr
    <2> QED  BY <1>1, <1>2, <2>1, <2>2 DEF Live, Deleting, Phases
  <1>7. CASE k = "member"
    BY <1>1, <1>2, <1>4, <1>6, <1>7 DEF Satisfied, Achieved, MemberDone
  <1>8. CASE k = "access"
    <2>1. Lists(n)' \subseteq Listed
      BY <1>4, <1>8 DEF Lists, Listed
    <2>2. /\ Listed \subseteq rights[Home(k)]
          /\ parents[Home(k)] = Asked(k) \/ Asked(k) \in Parentless
      BY <1>1, <1>6, <1>8 DEF Achieved, AccessDone
    <2> QED  BY <1>1, <1>2, <1>4, <1>8, <2>1, <2>2 DEF Satisfied
  <1> QED  BY <1>5, <1>7, <1>8 DEF Kinds

\* With one Gerrit no member or access CR under deletion is released before Gerrit has
\* nothing left of it: its last runs add the account or the rights once more, but a
\* release comes after the removal by the same run, and is not stored if the spec was
\* edited in between.
THEOREM ReleasedCleanlyByOne ==
    ASSUME OneGerrit
    PROVE  Spec => ReleasedCleanly
  <1> DEFINE Inv == Typed /\ Achieved
             Clean == \A n \in Names : crs[n].phase = "deleting" /\ crs'[n].phase = "absent"
                        => /\ KindOf[n] = "member" => crs[n].spec \notin members'[OwnerOf[n]]
                           /\ KindOf[n] = "access" => UnderListed(n) \cap rights'[OwnerOf[n]] = {}
  <1>1. Init => Inv
    BY InitTyped, InitAchieves
  <1>2. Inv /\ [Next]_vars => Inv'
    BY StepTyped, StepAchieves
  <1>3. ASSUME Inv, [Next]_vars  PROVE Clean
    <2> SUFFICES ASSUME NEW n \in Names, crs[n].phase = "deleting", crs'[n].phase = "absent"
                 PROVE  /\ KindOf[n] = "member" => crs[n].spec \notin members'[OwnerOf[n]]
                        /\ KindOf[n] = "access" => UnderListed(n) \cap rights'[OwnerOf[n]] = {}
      OBVIOUS
    <2>1. CASE Harmless(n)
      BY <2>1 DEF Harmless
    <2>2. ASSUME NEW k \in Kinds, Reports(k, n) PROVE FALSE
      <3>1. KubeOK /\ WorkOK /\ pc[k] # "idle" /\ inst[k].name = n /\ Store(k, Status(k))
        BY <1>3, <2>2 DEF Typed, Reports
      <3>2. crs'[n] = Status(k) /\ inst[k].fresh
        BY <3>1, CrStatus, StoreOK
      <3>3. Status(k).phase = crs[n].phase
        BY <3>1, <3>2, CrStatus DEF WorkOK, WorkerOK, Agrees
      <3> QED  BY <3>2, <3>3
    <2>3. CASE \E k \in Kinds \ {"group"} : Releases(k, n) /\ UNCHANGED server
      BY <1>3, <2>3, ReleasesCleanly DEF Kinds
    <2> QED  BY <1>3, <2>1, <2>2, <2>3, Writes
  <1>4. Inv /\ [Next]_vars => [Clean]_vars
    BY <1>3
  <1> QED  BY <1>1, <1>2, <1>4, PTL DEF Spec, ReleasedCleanly

\* With one Gerrit a CR becomes OK only when Gerrit has what its spec asks for then:
\* a run that read an older spec cannot store its status.
THEOREM OkIsTrueOfOne ==
    ASSUME OneGerrit
    PROVE  Spec => OkIsTrue
  <1> DEFINE Inv == Typed /\ Achieved
             True == \A n \in Names : crs'[n].value = "OK" /\ crs[n].value # "OK" => Satisfied(n)'
  <1>1. Init => Inv
    BY InitTyped, InitAchieves
  <1>2. Inv /\ [Next]_vars => Inv'
    BY StepTyped, StepAchieves
  <1>3. ASSUME Inv, [Next]_vars  PROVE True
    <2> SUFFICES ASSUME NEW n \in Names, crs'[n].value = "OK", crs[n].value # "OK"
                 PROVE  Satisfied(n)'
      OBVIOUS
    <2>1. CASE Harmless(n)
      BY <2>1 DEF Harmless
    <2>2. CASE \E k \in Kinds : Reports(k, n) /\ UNCHANGED server
      BY <1>3, <2>2, ReportsTruly
    <2>3. ASSUME NEW k \in Kinds, Releases(k, n) PROVE FALSE
      <3>1. KubeOK /\ WorkOK /\ inst[k].name = n
        BY <1>3, <2>3 DEF Typed, Releases
      <3>2. crs' = crs \/ Store(k, Absent)
        BY <2>3 DEF Releases, Release, UpdateAnd, kube
      <3>3. CASE Store(k, Absent)
        BY <3>1, <3>3, AbsentMade, StoreOK
      <3> QED  BY <3>2, <3>3
    <2> QED  BY <1>3, <2>1, <2>2, <2>3, Writes
  <1>4. Inv /\ [Next]_vars => [True]_vars
    BY <1>3
  <1> QED  BY <1>1, <1>2, <1>4, PTL DEF Spec, OkIsTrue

=============================================================================
