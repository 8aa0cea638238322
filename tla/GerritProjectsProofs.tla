------------------------ MODULE GerritProjectsProofs ------------------------
(* What holds of GerritProjects for every value of its constants. *)
EXTENDS GerritProjects, TLAPS

----------------------------------------------------------------------------
(* The inductive invariant behind TypeOK: what each group of variables holds, and *)
(* that the cache has every CR under its own name.                                *)

CacheTypes == cache \in [Names -> Copy] /\ \A n \in Names : cache[n].name = n

KubeTypes == crs \in [Names -> Cr] /\ CacheTypes /\ pending \subseteq Names

WorkerTypes ==
    /\ queued \subseteq Names /\ pc \in WorkerCalls /\ inst \in Copy
    /\ pc # "idle" => inst.name \in Names

SyncerTypes ==
    /\ listed \subseteq Names /\ todo \subseteq Projects
    /\ spc \in SyncerCalls /\ copy \in Copy
    /\ spc \in {"createCr", "listBranches", "reload", "write"} => copy.name \in Names

WorldTypes == projects \subseteq Projects /\ calm \in BOOLEAN

Typed == KubeTypes /\ WorkerTypes /\ SyncerTypes /\ WorldTypes

----------------------------------------------------------------------------
(* Records. *)

LEMMA CrMade ==
    /\ Absent \in Cr /\ Absent.phase = "absent"
    /\ NewCr \in Cr /\ NewCr.phase = "live"
  BY DEF Absent, NewCr, Cr, Phases

LEMMA CrWritten ==
    ASSUME NEW c \in Cr
    PROVE  /\ [c EXCEPT !.owned = TRUE] \in Cr
           /\ [c EXCEPT !.owned = TRUE].phase = c.phase
           /\ [c EXCEPT !.finalizer = TRUE] \in Cr
           /\ [c EXCEPT !.finalizer = TRUE].phase = c.phase
           /\ [c EXCEPT !.phase = "deleting"] \in Cr
           /\ [c EXCEPT !.phase = "deleting"].phase = "deleting"
  BY DEF Cr, Phases

LEMMA CopyMade ==
    ASSUME NEW n \in Names \cup {None}, NEW c \in Cr, NEW b \in BOOLEAN
    PROVE  CopyOf(n, c, b) \in Copy /\ CopyOf(n, c, b).name = n
  BY DEF CopyOf, Copy

LEMMA NoCopyMade == NoCopy \in Copy
  BY CrMade, CopyMade DEF NoCopy

LEMMA CopyOutdated ==
    ASSUME NEW k \in Copy, NEW n
    PROVE  /\ Outdated(k, n) \in Copy /\ Outdated(k, n).name = k.name
           /\ [k EXCEPT !.fresh = FALSE] \in Copy /\ [k EXCEPT !.fresh = FALSE].name = k.name
  BY DEF Outdated, Copy

LEMMA CacheOutdated ==
    ASSUME CacheTypes, NEW n \in Names, cache' = [cache EXCEPT ![n].fresh = FALSE]
    PROVE  CacheTypes'
  <1>1. cache[n] \in Copy /\ cache[n].name = n
    BY DEF CacheTypes
  <1>2. [cache[n] EXCEPT !.fresh = FALSE] \in Copy /\ [cache[n] EXCEPT !.fresh = FALSE].name = n
    BY <1>1, CopyOutdated
  <1>3. cache' = [cache EXCEPT ![n] = [cache[n] EXCEPT !.fresh = FALSE]]
    BY DEF CacheTypes
  <1> QED  BY <1>2, <1>3 DEF CacheTypes

LEMMA StoreTypes ==
    ASSUME KubeTypes, NEW n \in Names, NEW c \in Cr, Store(n, c)
    PROVE  /\ crs' \in [Names -> Cr] /\ CacheTypes'
           /\ crs'[n] = c /\ \A o \in Names \ {n} : crs'[o] = crs[o]
  <1>1. crs' \in [Names -> Cr] /\ crs'[n] = c /\ \A o \in Names \ {n} : crs'[o] = crs[o]
    BY DEF KubeTypes, Store
  <1>2. CacheTypes'
    BY CacheOutdated DEF KubeTypes, Store
  <1> QED  BY <1>1, <1>2

----------------------------------------------------------------------------
(* The ways a worker goes on. *)

LEMMA GotoTypes ==
    ASSUME WorkerTypes, pc # "idle", NEW p \in WorkerCalls, Goto(p)
    PROVE  WorkerTypes'
  BY DEF WorkerTypes, Goto

LEMMA FailTypes ==
    ASSUME WorkerTypes, pc # "idle", Fail
    PROVE  WorkerTypes'
  BY GotoTypes DEF Fail, WorkerCalls

LEMMA ThenTypes ==
    ASSUME WorkerTypes, pc # "idle", NEW p \in WorkerCalls, Then(p)
    PROVE  WorkerTypes'
  BY GotoTypes, FailTypes DEF Then

\* The syncer's copy may become an old one, and remains one of the same CR.
SyncerStays == UNCHANGED <<spc, listed, todo>> /\ copy' \in {copy, Outdated(copy, inst.name)}

LEMMA SyncerStaysTypes ==
    ASSUME SyncerTypes, SyncerStays
    PROVE  SyncerTypes'
  <1>1. copy' \in Copy /\ copy'.name = copy.name
    BY CopyOutdated DEF SyncerTypes, SyncerStays
  <1> QED  BY <1>1 DEF SyncerTypes, SyncerStays

LEMMA WorkerStoresTypes ==
    ASSUME KubeTypes, inst.name \in Names, NEW c \in Cr, WorkerStores(c)
    PROVE  /\ KubeTypes' /\ copy' = Outdated(copy, inst.name)
           /\ crs'[inst.name] = c /\ \A o \in Names \ {inst.name} : crs'[o] = crs[o]
  <1>1. Store(inst.name, c) /\ UNCHANGED pending /\ copy' = Outdated(copy, inst.name)
    BY DEF WorkerStores
  <1> QED  BY <1>1, StoreTypes DEF KubeTypes

LEMMA UpdateAndTypes ==
    ASSUME KubeTypes, WorkerTypes, pc # "idle",
           NEW c \in Cr, NEW p \in WorkerCalls, UpdateAnd(c, p)
    PROVE  /\ KubeTypes' /\ WorkerTypes' /\ copy' \in {copy, Outdated(copy, inst.name)}
           /\ \/ crs' = crs
              \/ crs'[inst.name] = c /\ \A o \in Names \ {inst.name} : crs'[o] = crs[o]
  <1>0. inst \in Copy /\ inst.name \in Names
    BY DEF WorkerTypes
  <1>1. CASE WorkerStores(c) /\ UNCHANGED queued /\ pc' = p /\ inst' = CopyOf(inst.name, c, TRUE)
    <2>1. inst' \in Copy /\ inst'.name = inst.name
      BY <1>0, <1>1, CopyMade
    <2>2. WorkerTypes'
      BY <1>0, <1>1, <2>1 DEF WorkerTypes
    <2> QED  BY <1>0, <1>1, <2>2, WorkerStoresTypes
  <1>2. CASE /\ WorkerStores(c) /\ UNCHANGED queued
             /\ pc' = "reportError" /\ inst' = [inst EXCEPT !.fresh = FALSE]
    <2>1. inst' \in Copy /\ inst'.name = inst.name
      BY <1>0, <1>2, CopyOutdated
    <2>2. WorkerTypes'
      BY <1>0, <1>2, <2>1 DEF WorkerTypes, WorkerCalls
    <2> QED  BY <1>0, <1>2, <2>2, WorkerStoresTypes
  <1>3. CASE Fail /\ UNCHANGED <<kube, copy>>
    BY <1>3, FailTypes DEF KubeTypes, CacheTypes, kube
  <1> QED  BY <1>1, <1>2, <1>3 DEF UpdateAnd

----------------------------------------------------------------------------
(* The steps: each one, but the worker's writes, touches few of the parts. *)

LEMMA RunTypes ==
    ASSUME Typed, Run
    PROVE  Typed'
  <1>0. KubeTypes /\ WorkerTypes /\ SyncerTypes /\ WorldTypes
    BY DEF Typed
  <1>1. CASE GetGerritClient
    <2>1. pc # "idle" /\ UNCHANGED <<spc, listed, todo, projects, calm>>
      BY <1>1 DEF GetGerritClient
    <2>2. KubeTypes' /\ WorkerTypes' /\ copy' \in {copy, Outdated(copy, inst.name)}
      <3>1. CASE Goto("get") /\ UNCHANGED <<kube, copy>>
        BY <1>0, <2>1, <3>1, GotoTypes DEF KubeTypes, CacheTypes, kube, WorkerCalls
      <3>2. CASE UpdateAnd([crs[inst.name] EXCEPT !.owned = TRUE], "get")
        <4>1. [crs[inst.name] EXCEPT !.owned = TRUE] \in Cr
          BY <1>0, <2>1, CrWritten DEF KubeTypes, WorkerTypes
        <4> QED  BY <1>0, <2>1, <3>2, <4>1, UpdateAndTypes DEF WorkerCalls
      <3> QED  BY <1>1, <3>1, <3>2 DEF GetGerritClient
    <2>3. SyncerTypes' /\ WorldTypes'
      BY <1>0, <2>1, <2>2, SyncerStaysTypes DEF SyncerStays, WorldTypes
    <2> QED  BY <2>2, <2>3 DEF Typed
  <1>2. CASE AddFinalizer
    <2>1. pc # "idle" /\ UNCHANGED <<spc, listed, todo, projects, calm>>
      BY <1>2 DEF AddFinalizer
    <2>2. [crs[inst.name] EXCEPT !.finalizer = TRUE] \in Cr
      BY <1>0, <2>1, CrWritten DEF KubeTypes, WorkerTypes
    <2>3. KubeTypes' /\ WorkerTypes' /\ copy' \in {copy, Outdated(copy, inst.name)}
      BY <1>0, <1>2, <2>1, <2>2, UpdateAndTypes DEF AddFinalizer, WorkerCalls
    <2>4. SyncerTypes' /\ WorldTypes'
      BY <1>0, <2>1, <2>3, SyncerStaysTypes DEF SyncerStays, WorldTypes
    <2> QED  BY <2>3, <2>4 DEF Typed
  <1>3. CASE Release
    <2>1. pc # "idle" /\ UNCHANGED <<spc, listed, todo, projects, calm>>
      BY <1>3 DEF Release
    <2>3. KubeTypes' /\ WorkerTypes' /\ copy' \in {copy, Outdated(copy, inst.name)}
      BY <1>0, <1>3, <2>1, CrMade, UpdateAndTypes DEF Release, WorkerCalls
    <2>4. SyncerTypes' /\ WorldTypes'
      BY <1>0, <2>1, <2>3, SyncerStaysTypes DEF SyncerStays, WorldTypes
    <2> QED  BY <2>3, <2>4 DEF Typed
  <1>4. CASE UpdateStatus
    <2>1. pc # "idle" /\ inst.name \in Names /\ UNCHANGED <<spc, listed, todo, projects, calm>>
      BY <1>0, <1>4 DEF UpdateStatus, WorkerTypes
    <2>2. KubeTypes' /\ copy' \in {copy, Outdated(copy, inst.name)}
      <3>1. CASE WorkerStores(crs[inst.name])
        BY <1>0, <2>1, <3>1, WorkerStoresTypes DEF KubeTypes
      <3>2. CASE UNCHANGED <<kube, copy>>
        BY <1>0, <3>2 DEF KubeTypes, CacheTypes, kube
      <3> QED  BY <1>4, <3>1, <3>2 DEF UpdateStatus, WriteStatus
    <2>3. WorkerTypes'
      BY <1>0, <1>4, <2>1, NoCopyMade DEF UpdateStatus, WorkerTypes, WorkerCalls
    <2>4. SyncerTypes' /\ WorldTypes'
      BY <1>0, <2>1, <2>2, SyncerStaysTypes DEF SyncerStays, WorldTypes
    <2> QED  BY <2>2, <2>3, <2>4 DEF Typed
  <1>5. CASE GetProject \/ CreateProject \/ UpdateProject \/ DeleteProject \/ CallFails
    <2>1. pc # "idle" /\ UNCHANGED <<kube, syncer, calm>>
      BY <1>5 DEF GetProject, CreateProject, UpdateProject, DeleteProject, CallFails
    <2>2. Deletion \in WorkerCalls
      BY DEF Deletion, WorkerCalls
    <2>3. WorkerTypes'
      <3>1. CASE GetProject
        BY <1>0, <2>1, <3>1, GotoTypes DEF GetProject, WorkerCalls
      <3>2. CASE CreateProject
        BY <1>0, <2>1, <2>2, <3>2, ThenTypes DEF CreateProject
      <3>3. CASE UpdateProject
        BY <1>0, <2>1, <2>2, <3>3, GotoTypes DEF UpdateProject
      <3>4. CASE DeleteProject
        BY <1>0, <2>1, <3>4, ThenTypes DEF DeleteProject, WorkerCalls
      <3>5. CASE CallFails
        BY <1>0, <2>1, <3>5, FailTypes DEF CallFails
      <3> QED  BY <1>5, <3>1, <3>2, <3>3, <3>4, <3>5
    <2>4. projects' \subseteq Projects
      <3>1. Project \in Projects
        BY <1>0, <2>1, NameAssumption DEF Project, WorkerTypes
      <3> QED  BY <1>0, <1>5, <3>1 DEF GetProject, CreateProject, UpdateProject,
                                      DeleteProject, CallFails, WorldTypes
    <2>5. KubeTypes' /\ SyncerTypes' /\ WorldTypes'
      BY <1>0, <2>1, <2>4 DEF KubeTypes, CacheTypes, SyncerTypes, WorldTypes, kube, syncer
    <2> QED  BY <2>3, <2>5 DEF Typed
  <1> QED  BY <1>1, <1>2, <1>3, <1>4, <1>5 DEF Run

LEMMA TickEndsTypes ==
    ASSUME TickEnds
    PROVE  SyncerTypes'
  BY NoCopyMade DEF TickEnds, SyncerTypes, SyncerCalls

LEMMA TickTypes ==
    ASSUME Typed, Tick
    PROVE  Typed'
  <1>0. KubeTypes /\ WorkerTypes /\ SyncerTypes /\ WorldTypes
    BY DEF Typed
  <1>1. CASE CreateCr
    <2>1. copy.name \in Names /\ inst \in Copy
      BY <1>0, <1>1 DEF CreateCr, SyncerTypes, WorkerTypes
    <2>2. KubeTypes'
      BY <1>0, <1>1, <2>1, CrMade, StoreTypes DEF CreateCr, KubeTypes
    <2>3. WorkerTypes' /\ WorldTypes'
      BY <1>0, <1>1, <2>1, CopyOutdated DEF CreateCr, WorkerTypes, WorldTypes
    <2>4. SyncerTypes'
      <3>1. CASE spc' = "listBranches" /\ UNCHANGED <<listed, todo, copy>>
        BY <1>0, <2>1, <3>1 DEF SyncerTypes, SyncerCalls
      <3>2. CASE TickEnds
        BY <3>2, TickEndsTypes
      <3> QED  BY <1>1, <3>1, <3>2 DEF CreateCr
    <2> QED  BY <2>2, <2>3, <2>4 DEF Typed
  <1>2. CASE UpdateBranches
    <2>1. copy.name \in Names /\ inst \in Copy
      BY <1>0, <1>2 DEF UpdateBranches, SyncerTypes, WorkerTypes
    <2>2. CacheTypes' /\ inst' \in Copy /\ inst'.name = inst.name
      <3>1. CASE UNCHANGED <<cache, inst>>
        BY <1>0, <2>1, <3>1 DEF KubeTypes, CacheTypes
      <3>2. CASE /\ cache' = [cache EXCEPT ![copy.name].fresh = FALSE]
                 /\ inst' = Outdated(inst, copy.name)
        BY <1>0, <2>1, <3>2, CacheOutdated, CopyOutdated DEF KubeTypes
      <3> QED  BY <1>2, <3>1, <3>2 DEF UpdateBranches
    <2>3. KubeTypes' /\ WorkerTypes' /\ WorldTypes'
      BY <1>0, <1>2, <2>2 DEF UpdateBranches, KubeTypes, WorkerTypes, WorldTypes
    <2>4. SyncerTypes'
      <3>1. CASE spc' = "next" /\ copy' = NoCopy /\ UNCHANGED <<listed, todo>>
        BY <1>0, <3>1, NoCopyMade DEF SyncerTypes, SyncerCalls
      <3>2. CASE TickEnds
        BY <3>2, TickEndsTypes
      <3> QED  BY <1>2, <3>1, <3>2 DEF UpdateBranches
    <2> QED  BY <2>3, <2>4 DEF Typed
  <1>3. CASE ListCrs \/ ListProjects \/ NextProject \/ ListProjectBranches \/ Reload \/ TickFails
    <2>1. UNCHANGED <<kube, worker, projects, calm>>
      BY <1>3 DEF ListCrs, ListProjects, NextProject, ListProjectBranches, Reload, TickFails
    <2>2. SyncerTypes'
      <3>1. CASE ListCrs
        BY <1>0, <3>1 DEF ListCrs, SyncerTypes, SyncerCalls
      <3>2. CASE ListProjects
        BY <1>0, <3>2 DEF ListProjects, SyncerTypes, WorldTypes, SyncerCalls
      <3>3. CASE NextProject
        <4>1. CASE \E p \in todo, n \in listed :
                      /\ todo' = todo \ {p} /\ spc' = "listBranches"
                      /\ copy' = CopyOf(n, Absent, FALSE) /\ UNCHANGED listed
          <5>1. PICK p \in todo, n \in listed :
                      /\ todo' = todo \ {p} /\ spc' = "listBranches"
                      /\ copy' = CopyOf(n, Absent, FALSE) /\ UNCHANGED listed
            BY <4>1
          <5>2. copy' \in Copy /\ copy'.name \in Names
            BY <1>0, <5>1, CrMade, CopyMade DEF SyncerTypes
          <5> QED  BY <1>0, <5>1, <5>2 DEF SyncerTypes, SyncerCalls
        <4>2. CASE \E p \in todo :
                      /\ todo' = todo \ {p} /\ spc' = "createCr"
                      /\ copy' = CopyOf(SyncName[p], Absent, FALSE) /\ UNCHANGED listed
          <5>1. PICK p \in todo :
                      /\ todo' = todo \ {p} /\ spc' = "createCr"
                      /\ copy' = CopyOf(SyncName[p], Absent, FALSE) /\ UNCHANGED listed
            BY <4>2
          <5>2. SyncName[p] \in Names
            BY <1>0, NameAssumption DEF SyncerTypes
          <5>3. copy' \in Copy /\ copy'.name \in Names
            BY <5>1, <5>2, CrMade, CopyMade
          <5> QED  BY <1>0, <5>1, <5>3 DEF SyncerTypes, SyncerCalls
        <4>3. CASE TickEnds
          BY <4>3, TickEndsTypes
        <4> QED  BY <3>3, <4>1, <4>2, <4>3 DEF NextProject
      <3>4. CASE ListProjectBranches
        BY <1>0, <3>4 DEF ListProjectBranches, SyncerTypes, SyncerCalls
      <3>5. CASE Reload
        <4>1. copy.name \in Names
          BY <1>0, <3>5 DEF Reload, SyncerTypes
        <4> QED  BY <1>0, <3>5, <4>1 DEF Reload, SyncerTypes, SyncerCalls, KubeTypes, CacheTypes
      <3>6. CASE TickFails
        BY <3>6, TickEndsTypes DEF TickFails
      <3> QED  BY <1>3, <3>1, <3>2, <3>3, <3>4, <3>5, <3>6
    <2>3. KubeTypes' /\ WorkerTypes' /\ WorldTypes'
      BY <1>0, <2>1 DEF KubeTypes, CacheTypes, WorkerTypes, WorldTypes, kube, worker
    <2> QED  BY <2>2, <2>3 DEF Typed
  <1> QED  BY <1>1, <1>2, <1>3 DEF Tick

\* What another's write does to the copies of the CR.
LEMMA PeopleStoreTypes ==
    ASSUME Typed, NEW n \in Names, NEW c \in Cr, PeopleStore(n, c)
    PROVE  /\ crs' \in [Names -> Cr] /\ CacheTypes'
           /\ WorkerTypes' /\ SyncerTypes' /\ WorldTypes'
           /\ crs'[n] = c /\ \A o \in Names \ {n} : crs'[o] = crs[o]
  <1>0. KubeTypes /\ WorkerTypes /\ SyncerTypes /\ WorldTypes
    BY DEF Typed
  <1>1. /\ Store(n, c) /\ inst' = Outdated(inst, n) /\ copy' = Outdated(copy, n)
        /\ UNCHANGED <<queued, pc, spc, listed, todo, projects, calm>>
    BY DEF PeopleStore
  <1>2. /\ inst' \in Copy /\ inst'.name = inst.name
        /\ copy' \in Copy /\ copy'.name = copy.name
    BY <1>0, <1>1, CopyOutdated DEF WorkerTypes, SyncerTypes
  <1>3. WorkerTypes' /\ SyncerTypes' /\ WorldTypes'
    BY <1>0, <1>1, <1>2 DEF WorkerTypes, SyncerTypes, WorldTypes
  <1> QED  BY <1>0, <1>1, <1>3, StoreTypes

LEMMA EnvironmentTypes ==
    ASSUME Typed, Environment
    PROVE  Typed'
  <1>0. KubeTypes /\ WorkerTypes /\ SyncerTypes /\ WorldTypes
    BY DEF Typed
  <1>1. CASE OperatorCrash
    <2>1. CacheTypes'
      <3>1. \A n \in Names : CopyOf(n, crs[n], TRUE) \in Copy /\ CopyOf(n, crs[n], TRUE).name = n
        BY <1>0, CopyMade DEF KubeTypes
      <3> QED  BY <1>1, <3>1 DEF OperatorCrash, CacheTypes
    <2>2. KubeTypes' /\ WorkerTypes' /\ WorldTypes'
      BY <1>0, <1>1, <2>1, NoCopyMade
      DEF OperatorCrash, KubeTypes, WorkerTypes, WorldTypes, WorkerCalls
    <2>3. SyncerTypes'
      BY <1>1, TickEndsTypes DEF OperatorCrash
    <2> QED  BY <2>2, <2>3 DEF Typed
  <1>2. CASE UserActs
    BY <1>0, <1>2 DEF UserActs, Typed, KubeTypes, CacheTypes, WorkerTypes, SyncerTypes,
                      WorldTypes, kube, worker, syncer
  <1>3. CASE CallsStopFailing
    BY <1>0, <1>3 DEF CallsStopFailing, Typed, KubeTypes, CacheTypes, WorkerTypes,
                      SyncerTypes, WorldTypes, kube, worker, syncer
  <1>4. ASSUME NEW n \in Names, CacheSync(n)  PROVE Typed'
    <2>1. CopyOf(n, crs[n], TRUE) \in Copy /\ CopyOf(n, crs[n], TRUE).name = n
      BY <1>0, CopyMade DEF KubeTypes
    <2>2. CacheTypes'
      BY <1>0, <1>4, <2>1 DEF CacheSync, KubeTypes, CacheTypes
    <2>3. KubeTypes' /\ WorkerTypes' /\ SyncerTypes' /\ WorldTypes'
      BY <1>0, <1>4, <2>2 DEF CacheSync, KubeTypes, WorkerTypes, SyncerTypes, WorldTypes, syncer
    <2> QED  BY <2>3 DEF Typed
  <1>5. ASSUME NEW n \in Names, CrCreated(n)  PROVE Typed'
    <2>1. PeopleStore(n, NewCr) /\ pending' = pending \cup {n}
      BY <1>5 DEF CrCreated
    <2> QED  BY <1>0, <2>1, CrMade, PeopleStoreTypes DEF Typed, KubeTypes
  <1>6. ASSUME NEW n \in Names, CrEdited(n)  PROVE Typed'
    <2>1. /\ inst' \in Copy /\ inst'.name = inst.name
          /\ copy' \in Copy /\ copy'.name = copy.name
      BY <1>0, <1>6, CopyOutdated DEF CrEdited, WorkerTypes, SyncerTypes
    <2>2. CacheTypes'
      BY <1>0, <1>6, CacheOutdated DEF CrEdited, KubeTypes
    <2>3. KubeTypes' /\ WorkerTypes' /\ SyncerTypes' /\ WorldTypes'
      BY <1>0, <1>6, <2>1, <2>2 DEF CrEdited, KubeTypes, WorkerTypes, SyncerTypes, WorldTypes
    <2> QED  BY <2>3 DEF Typed
  <1>7. ASSUME NEW n \in Names, CrDeleted(n)  PROVE Typed'
    <2>1. crs[n] \in Cr
      BY <1>0 DEF KubeTypes
    <2>2. PICK c \in Cr : PeopleStore(n, c) /\ UNCHANGED pending
      BY <1>7, <2>1, CrMade, CrWritten DEF CrDeleted
    <2> QED  BY <1>0, <2>2, PeopleStoreTypes DEF Typed, KubeTypes
  <1>8. ASSUME NEW n \in Names, OtherSyncer(n)  PROVE Typed'
    <2>1. crs[n] \in Cr
      BY <1>0 DEF KubeTypes
    <2>2. PICK c \in Cr : PeopleStore(n, c) /\ pending' \in {pending, pending \cup {n}}
      BY <1>8, <2>1, CrMade DEF OtherSyncer
    <2> QED  BY <1>0, <2>1, <2>2, PeopleStoreTypes DEF Typed, KubeTypes
  <1> QED  BY <1>1, <1>2, <1>3, <1>4, <1>5, <1>6, <1>7, <1>8 DEF Environment

LEMMA BeginTypes ==
    ASSUME Typed, NEW n \in Names, Begin(n)
    PROVE  Typed'
  <1>0. KubeTypes /\ WorkerTypes /\ SyncerTypes /\ WorldTypes
    BY DEF Typed
  <1>1. cache[n] \in Copy /\ cache[n].name = n
    BY <1>0 DEF KubeTypes, CacheTypes
  <1>2. WorkerTypes'
    BY <1>0, <1>1 DEF Begin, WorkerTypes, WorkerCalls
  <1> QED  BY <1>0, <1>2 DEF Begin, Typed, KubeTypes, CacheTypes, SyncerTypes, WorldTypes,
                             kube, syncer

LEMMA StartTypes == Init => Typed
  <1> SUFFICES ASSUME Init PROVE Typed
    OBVIOUS
  <1>1. \A n \in Names : CopyOf(n, Absent, TRUE) \in Copy /\ CopyOf(n, Absent, TRUE).name = n
    BY CrMade, CopyMade
  <1>2. KubeTypes
    BY <1>1, CrMade DEF Init, KubeTypes, CacheTypes
  <1>3. WorkerTypes /\ SyncerTypes /\ WorldTypes
    BY NoCopyMade DEF Init, WorkerTypes, SyncerTypes, WorldTypes, WorkerCalls, SyncerCalls
  <1> QED  BY <1>2, <1>3 DEF Typed

LEMMA StepTypes ==
    ASSUME Typed, [Next]_vars
    PROVE  Typed'
  <1>1. CASE UNCHANGED vars
    BY <1>1 DEF vars, Typed, KubeTypes, CacheTypes, WorkerTypes, SyncerTypes, WorldTypes
  <1> QED  BY <1>1, RunTypes, TickTypes, EnvironmentTypes, BeginTypes DEF Next

LEMMA Invariance == Spec => []Typed
  <1>1. Typed /\ [Next]_vars => Typed'
    BY StepTypes
  <1> QED  BY <1>1, StartTypes, PTL DEF Spec

\* Only CRs that exist, or have existed, have their branches listed.
LEMMA ListedKeep ==
    ASSUME Typed, current \subseteq Names, [Next]_vars
    PROVE  current' \subseteq Names
  <1>1. ASSUME NEW n, NEW c, Lists(n, c)  PROVE current' \subseteq Names
    BY <1>1 DEF Lists
  <1>2. CASE Run
    <2>1. UNCHANGED current \/ \E c : WorkerStores(c)
      BY <1>2, Zenon DEF Run, GetGerritClient, GetProject, CreateProject, UpdateProject,
            AddFinalizer, DeleteProject, Release, UpdateStatus, CallFails, UpdateAnd,
            WriteStatus, kube
    <2> QED  BY <1>1, <2>1 DEF WorkerStores
  <1>3. CASE Tick
    <2>1. CASE UpdateBranches
      BY <2>1 DEF UpdateBranches, Typed, SyncerTypes
    <2>2. CASE ~UpdateBranches
      BY <1>3, <2>2 DEF Tick, ListCrs, ListProjects, NextProject, CreateCr,
                        ListProjectBranches, Reload, TickFails, kube
    <2> QED  BY <2>1, <2>2
  <1>4. CASE Environment
    <2>1. UNCHANGED current \/ \E n, c : PeopleStore(n, c)
      BY <1>4, Zenon DEF Environment, OperatorCrash, UserActs, CallsStopFailing, CacheSync,
            CrCreated, CrEdited, CrDeleted, OtherSyncer, kube
    <2> QED  BY <1>1, <2>1 DEF PeopleStore
  <1>5. CASE (\E n \in Names : Begin(n)) \/ UNCHANGED vars
    BY <1>5 DEF Begin, kube, vars
  <1> QED  BY <1>2, <1>3, <1>4, <1>5 DEF Next

\* Every variable of the project controller keeps its type, and with it the worker
\* and the syncer never use a CR or a copy that they do not have.
THEOREM TypeCorrect == Spec => []TypeOK
  <1>1. Init => current \subseteq Names
    BY DEF Init
  <1>2. Typed /\ current \subseteq Names /\ [Next]_vars => (current \subseteq Names)'
    BY ListedKeep
  <1>3. Typed /\ current \subseteq Names => TypeOK
    BY DEF Typed, KubeTypes, CacheTypes, WorkerTypes, SyncerTypes, WorldTypes, TypeOK
  <1> QED  BY <1>1, <1>2, <1>3, Invariance, PTL DEF Spec

----------------------------------------------------------------------------
(* Releases. *)

\* By the time the finalizer is taken off, the project is gone and stays so.
GoneBeforeRelease == pc = "release" => Project \notin projects

LEMMA GoneStays ==
    ASSUME "createProject" \notin UserActions, Typed, GoneBeforeRelease, [Next]_vars
    PROVE  GoneBeforeRelease'
  <1>0. KubeTypes /\ WorkerTypes /\ SyncerTypes /\ WorldTypes
    BY DEF Typed
  <1> SUFFICES ASSUME pc' = "release" PROVE Project' \notin projects'
    BY DEF GoneBeforeRelease
  <1>1. CASE DeleteProject
    <2>1. inst' = inst /\ projects' = projects \ {Project}
      BY <1>1, Zenon DEF DeleteProject, Then, Goto, Fail
    <2> QED  BY <2>1 DEF Project
  <1>2. CASE pc = "release" /\ inst'.name = inst.name /\ projects' \subseteq projects
    BY <1>2 DEF GoneBeforeRelease, Project
  <1> DEFINE Keeps == pc = "release" /\ inst'.name = inst.name /\ projects' \subseteq projects
  <1>3. ASSUME Run, ~DeleteProject  PROVE Keeps
    <2>1. Deletion # "release"
      BY DEF Deletion
    <2>2. CASE GetGerritClient
      BY <2>2 DEF GetGerritClient, UpdateAnd, Goto, Fail
    <2>3. CASE GetProject
      BY <2>3 DEF GetProject, Goto
    <2>4. CASE CreateProject
      BY <2>1, <2>4 DEF CreateProject, Then, Goto, Fail
    <2>5. CASE UpdateProject
      BY <2>1, <2>5 DEF UpdateProject, Goto
    <2>6. CASE AddFinalizer
      BY <2>6 DEF AddFinalizer, UpdateAnd, Goto, Fail
    <2>7. CASE Release
      BY <2>7 DEF Release, UpdateAnd, Goto, Fail
    <2>8. CASE UpdateStatus
      BY <2>8 DEF UpdateStatus
    <2>9. CASE CallFails
      BY <2>9 DEF CallFails, Goto, Fail
    <2> QED  BY <1>3, <2>2, <2>3, <2>4, <2>5, <2>6, <2>7, <2>8, <2>9 DEF Run
  <1>4. ASSUME Tick  PROVE Keeps
    <2>1. CASE CreateCr \/ UpdateBranches
      <3>1. pc' = pc /\ projects' = projects /\ inst' \in {inst, Outdated(inst, copy.name)}
        BY <2>1 DEF CreateCr, UpdateBranches
      <3> QED  BY <1>0, <3>1, CopyOutdated DEF WorkerTypes
    <2>2. CASE ~(CreateCr \/ UpdateBranches)
      BY <1>4, <2>2 DEF Tick, ListCrs, ListProjects, NextProject, ListProjectBranches, Reload,
                        TickFails, worker
    <2> QED  BY <2>1, <2>2
  <1>5. ASSUME Environment  PROVE Keeps
    <2>0. ASSUME NEW n, NEW c, PeopleStore(n, c)  PROVE Keeps
      <3>1. pc' = pc /\ projects' = projects /\ inst' = Outdated(inst, n)
        BY <2>0 DEF PeopleStore
      <3> QED  BY <1>0, <3>1, CopyOutdated DEF WorkerTypes
    <2>1. CASE OperatorCrash
      BY <2>1 DEF OperatorCrash
    <2>2. CASE UserActs
      BY <2>2 DEF UserActs, worker
    <2>3. CASE CallsStopFailing
      BY <2>3 DEF CallsStopFailing, worker
    <2>4. ASSUME NEW n \in Names, CacheSync(n)  PROVE Keeps
      BY <2>4 DEF CacheSync
    <2>5. ASSUME NEW n \in Names, CrCreated(n)  PROVE Keeps
      BY <2>0, <2>5 DEF CrCreated
    <2>6. ASSUME NEW n \in Names, CrEdited(n)  PROVE Keeps
      <3>1. pc' = pc /\ projects' = projects /\ inst' = Outdated(inst, n)
        BY <2>6 DEF CrEdited
      <3> QED  BY <1>0, <3>1, CopyOutdated DEF WorkerTypes
    <2>7. ASSUME NEW n \in Names, CrDeleted(n)  PROVE Keeps
      BY <2>0, <2>7 DEF CrDeleted
    <2>8. ASSUME NEW n \in Names, OtherSyncer(n)  PROVE Keeps
      BY <2>0, <2>8 DEF OtherSyncer
    <2> QED  BY <1>5, <2>1, <2>2, <2>3, <2>4, <2>5, <2>6, <2>7, <2>8 DEF Environment
  <1>6. ASSUME NEW n \in Names, Begin(n)  PROVE FALSE
    BY <1>6 DEF Begin
  <1>7. CASE UNCHANGED vars
    BY <1>2, <1>7 DEF vars
  <1> QED  BY <1>1, <1>2, <1>3, <1>4, <1>5, <1>6, <1>7 DEF Next

\* A deleted CR disappears in one place: Release, of the CR the worker has.
LEMMA OnlyReleaseDrops ==
    ASSUME Typed, [Next]_vars,
           NEW n \in Names, crs[n].phase = "deleting", crs'[n].phase = "absent"
    PROVE  Release /\ inst.name = n
  <1>0. KubeTypes /\ WorkerTypes /\ SyncerTypes /\ WorldTypes
    BY DEF Typed
  <1>1. crs' # crs /\ crs[n] \in Cr
    BY <1>0 DEF KubeTypes
  <1> DEFINE Writes(o, c) ==
          o \in Names /\ c \in Cr /\ crs'[o] = c /\ \A m \in Names \ {o} : crs'[m] = crs[m]
  <1>2. ASSUME NEW o, NEW c, Writes(o, c)  PROVE o = n /\ c.phase = "absent"
    BY <1>2
  <1>3. ASSUME Run  PROVE Release /\ inst.name = n
    <2>1. ASSUME NEW c \in Cr, NEW p \in WorkerCalls, pc # "idle", UpdateAnd(c, p)
          PROVE  inst.name = n /\ c.phase = "absent"
      BY <1>0, <1>1, <1>2, <2>1, UpdateAndTypes DEF WorkerTypes
    <2>2. CASE GetGerritClient
      <3>1. pc # "idle" /\ UpdateAnd([crs[inst.name] EXCEPT !.owned = TRUE], "get")
        BY <1>1, <2>2 DEF GetGerritClient, kube
      <3>2. inst.name \in Names /\ crs[inst.name] \in Cr
        BY <1>0, <3>1 DEF WorkerTypes, KubeTypes
      <3>3. inst.name = n /\ [crs[inst.name] EXCEPT !.owned = TRUE].phase = "absent"
        BY <2>1, <3>1, <3>2, CrWritten DEF WorkerCalls
      <3> QED  BY <3>2, <3>3, CrWritten
    <2>3. CASE AddFinalizer
      <3>1. pc # "idle" /\ UpdateAnd([crs[inst.name] EXCEPT !.finalizer = TRUE], "reportOK")
        BY <2>3 DEF AddFinalizer
      <3>2. inst.name \in Names /\ crs[inst.name] \in Cr
        BY <1>0, <3>1 DEF WorkerTypes, KubeTypes
      <3>3. inst.name = n /\ [crs[inst.name] EXCEPT !.finalizer = TRUE].phase = "absent"
        BY <2>1, <3>1, <3>2, CrWritten DEF WorkerCalls
      <3> QED  BY <3>2, <3>3, CrWritten
    <2>4. CASE Release
      BY <2>1, <2>4, CrMade DEF Release, WorkerCalls
    <2>5. CASE UpdateStatus
      <3>1. pc # "idle" /\ WorkerStores(crs[inst.name])
        BY <1>1, <2>5 DEF UpdateStatus, WriteStatus, kube
      <3>2. inst.name \in Names /\ crs[inst.name] \in Cr
        BY <1>0, <3>1 DEF WorkerTypes, KubeTypes
      <3>3. inst.name = n /\ crs[inst.name].phase = "absent"
        BY <1>0, <1>2, <3>1, <3>2, WorkerStoresTypes
      <3> QED  BY <3>3
    <2>6. CASE GetProject \/ CreateProject \/ UpdateProject \/ DeleteProject \/ CallFails
      BY <1>1, <2>6 DEF GetProject, CreateProject, UpdateProject, DeleteProject, CallFails, kube
    <2> QED  BY <1>3, <2>2, <2>3, <2>4, <2>5, <2>6 DEF Run
  <1>4. ASSUME Tick  PROVE FALSE
    <2>1. CASE CreateCr
      <3>1. copy.name \in Names /\ Store(copy.name, NewCr)
        BY <1>0, <2>1 DEF CreateCr, SyncerTypes
      <3> QED  BY <1>0, <1>2, <3>1, CrMade, StoreTypes
    <2>2. CASE ~CreateCr
      BY <1>1, <1>4, <2>2 DEF Tick, ListCrs, ListProjects, NextProject, ListProjectBranches,
                              Reload, UpdateBranches, TickFails, kube
    <2> QED  BY <2>1, <2>2
  <1>5. ASSUME Environment  PROVE FALSE
    <2>0. ASSUME NEW o \in Names, NEW c \in Cr, PeopleStore(o, c)
          PROVE  o = n /\ c.phase = "absent"
      BY <1>2, <2>0, PeopleStoreTypes
    <2>1. CASE OperatorCrash \/ UserActs \/ CallsStopFailing
      BY <1>1, <2>1 DEF OperatorCrash, UserActs, CallsStopFailing, kube
    <2>2. ASSUME NEW o \in Names, CacheSync(o) \/ CrEdited(o)  PROVE FALSE
      BY <1>1, <2>2 DEF CacheSync, CrEdited
    <2>3. ASSUME NEW o \in Names, CrCreated(o)  PROVE FALSE
      BY <2>0, <2>3, CrMade DEF CrCreated
    <2>4. ASSUME NEW o \in Names, CrDeleted(o)  PROVE FALSE
      <3>1. crs[o].phase = "live" /\ crs[o] \in Cr
        BY <1>0, <2>4 DEF CrDeleted, KubeTypes
      <3>2. PICK c \in Cr : PeopleStore(o, c)
        BY <2>4, <3>1, CrMade, CrWritten DEF CrDeleted
      <3> QED  BY <2>0, <3>1, <3>2
    <2>5. ASSUME NEW o \in Names, OtherSyncer(o)  PROVE FALSE
      <3>1. crs[o] \in Cr
        BY <1>0 DEF KubeTypes
      <3>2. PeopleStore(o, NewCr) \/ (PeopleStore(o, crs[o]) /\ crs[o].phase # "absent")
        BY <2>5 DEF OtherSyncer
      <3> QED  BY <2>0, <3>1, <3>2, CrMade
    <2> QED  BY <1>5, <2>1, <2>2, <2>3, <2>4, <2>5 DEF Environment
  <1>6. ASSUME NEW o \in Names, Begin(o)  PROVE FALSE
    BY <1>1, <1>6 DEF Begin, kube
  <1> QED  BY <1>1, <1>3, <1>4, <1>5, <1>6 DEF Next, vars

\* Where people do not make projects themselves, no CR is released while its project
\* is there: though every run on a deleted CR makes a missing project first, the
\* refusal of the deletion, a lost answer, a restart, an old copy and the syncers'
\* writes all lead through another deletion.
THEOREM ReleaseAfterDeletion ==
    ASSUME "createProject" \notin UserActions
    PROVE  Spec => ReleasedWithoutProject
  <1> DEFINE Inv == Typed /\ GoneBeforeRelease
             Clean == \A n \in Names : crs[n].phase = "deleting" /\ crs'[n].phase = "absent"
                                          => ProjectOf[n] \notin projects'
  <1>1. Init => Inv
    BY StartTypes DEF Init, GoneBeforeRelease
  <1>2. Inv /\ [Next]_vars => Inv'
    BY StepTypes, GoneStays
  <1>3. ASSUME Inv, [Next]_vars  PROVE Clean
    <2> SUFFICES ASSUME NEW n \in Names, crs[n].phase = "deleting", crs'[n].phase = "absent"
                 PROVE  ProjectOf[n] \notin projects'
      OBVIOUS
    <2>1. Release /\ inst.name = n
      BY <1>3, OnlyReleaseDrops
    <2> QED  BY <1>3, <2>1 DEF Release, GoneBeforeRelease, Project
  <1>4. Inv /\ [Next]_vars => [Clean]_vars
    BY <1>3
  <1> QED  BY <1>1, <1>2, <1>4, PTL DEF Spec, ReleasedWithoutProject

----------------------------------------------------------------------------
(* No CR is forgotten: the strengthening of NothingForgotten. *)

\* The cache is never ahead of the API server, and of a CR that is not pending it
\* lacks only progress of that CR.
CacheFollows(n) ==
    /\ cache[n].fresh => cache[n].cr = crs[n]
    /\ n \in pending => ~cache[n].fresh
    /\ n \notin pending =>
          /\ cache[n].cr.phase = "absent" => crs[n].phase = "absent"
          /\ cache[n].cr.phase = "deleting" => crs[n].phase # "live"
          /\ cache[n].cr.phase = "live" /\ cache[n].cr.finalizer /\ crs[n].phase = "live"
                => crs[n].finalizer

\* The worker's copy may be an old one even of a CR of the same name made since:
\* the worker is relied upon only if the copy itself has something left to do.
Remembered(n) ==
    Unfinished(crs[n]) => Noticed(n) \/ (pc # "idle" /\ inst.name = n /\ Unfinished(inst.cr))

InstAgrees == inst.fresh => inst.name \in Names /\ inst.cr = crs[inst.name]

\* The call p fits the copy c, and a run that reports success has nothing left to do.
CallFits(p, c) ==
    /\ p \notin {"idle", "reportOK", "reportError"} => c.phase # "absent"
    /\ p = "addFinalizer" => c.phase = "live"
    /\ p \in {"delete", "release"} => c.phase = "deleting"
    /\ p = "reportOK" => ~Unfinished(c)

Seen ==
    /\ \A n \in Names : CacheFollows(n) /\ Remembered(n)
    /\ InstAgrees
    /\ CallFits(pc, inst.cr)

\* How a CR goes on, unless somebody makes it anew.
Progress(c, d) ==
    \/ d.phase = "absent"
    \/ d.phase = c.phase /\ (c.finalizer => d.finalizer)
    \/ c.phase = "live" /\ d.phase = "deleting"

\* What a step does to the CR n and to the cache's copy of it: nothing, a watch
\* event, or a write.
LeftAlone(n) == crs'[n] = crs[n] /\ cache'[n] = cache[n] /\ (n \in pending' <=> n \in pending)
Delivered(n) ==
    /\ crs'[n] = crs[n] /\ cache'[n].cr = crs[n] /\ n \notin pending'
    /\ Noticed(n) => n \in queued'
Stored(n) ==
    /\ cache'[n].cr = cache[n].cr /\ ~cache'[n].fresh
    /\ n \in pending => n \in pending'
    /\ n \in pending' \/ Progress(crs[n], crs'[n])
KubeStep(n) == LeftAlone(n) \/ Delivered(n) \/ Stored(n)

LEMMA CacheFollowsOn ==
    ASSUME NEW n \in Names, CacheFollows(n), KubeStep(n)
    PROVE  CacheFollows(n)'
  <1>1. CASE LeftAlone(n)
    BY <1>1 DEF LeftAlone, CacheFollows
  <1>2. CASE Delivered(n)
    BY <1>2 DEF Delivered, CacheFollows
  <1>3. CASE Stored(n)
    BY <1>3 DEF Stored, Progress, CacheFollows
  <1> QED  BY <1>1, <1>2, <1>3 DEF KubeStep

\* The worker may drop only a CR that is finished or that is queued again.
LEMMA RemembersOn ==
    ASSUME NEW n \in Names, CacheFollows(n), Remembered(n), KubeStep(n),
           n \in queued => n \in queued',
           Unfinished(crs'[n]) /\ pc # "idle" /\ inst.name = n /\ Unfinished(inst.cr)
               => \/ n \in queued'
                  \/ pc' # "idle" /\ inst'.name = n /\ Unfinished(inst'.cr)
    PROVE  Remembered(n)'
  <1> SUFFICES ASSUME Unfinished(crs'[n])
               PROVE  Noticed(n)' \/ (pc' # "idle" /\ inst'.name = n /\ Unfinished(inst'.cr))
    BY DEF Remembered
  <1>1. CASE LeftAlone(n)
    BY <1>1 DEF LeftAlone, Remembered, Noticed
  <1>2. CASE Delivered(n)
    BY <1>2 DEF Delivered, Remembered, Noticed
  <1>3. CASE Stored(n) /\ n \in pending'
    BY <1>3 DEF Stored, Noticed
  <1>4. CASE /\ Stored(n) /\ n \notin pending'
             /\ crs'[n].phase = crs[n].phase /\ (crs[n].finalizer => crs'[n].finalizer)
    <2>1. Unfinished(crs[n])
      BY <1>4 DEF Unfinished
    <2> QED  BY <1>4, <2>1 DEF Stored, Remembered, Noticed
  <1>5. CASE /\ Stored(n) /\ n \notin pending'
             /\ crs[n].phase = "live" /\ crs'[n].phase = "deleting"
    BY <1>5 DEF Stored, CacheFollows, Noticed
  <1> QED  BY <1>1, <1>2, <1>3, <1>4, <1>5 DEF KubeStep, Stored, Progress, Unfinished

\* A write of one CR, which is pending afterwards or goes on.
LEMMA StoreSeen ==
    ASSUME Typed, NEW n \in Names, NEW c \in Cr, Store(n, c),
           pending' \in {pending, pending \cup {n}},
           n \in pending' \/ Progress(crs[n], c)
    PROVE  /\ \A m \in Names : KubeStep(m)
           /\ crs'[n] = c /\ \A m \in Names \ {n} : crs'[m] = crs[m]
  <1>1. /\ cache'[n].cr = cache[n].cr /\ ~cache'[n].fresh
        /\ \A m \in Names \ {n} : cache'[m] = cache[m]
    BY DEF Typed, KubeTypes, CacheTypes, Copy, Store
  <1>2. crs'[n] = c /\ \A m \in Names \ {n} : crs'[m] = crs[m]
    BY DEF Typed, KubeTypes, Store
  <1>3. Stored(n)
    BY <1>1, <1>2 DEF Stored
  <1>4. \A m \in Names \ {n} : LeftAlone(m)
    BY <1>1, <1>2 DEF LeftAlone
  <1> QED  BY <1>2, <1>3, <1>4 DEF KubeStep

LEMMA NothingStored ==
    ASSUME UNCHANGED kube
    PROVE  \A m \in Names : KubeStep(m)
  BY DEF kube, KubeStep, LeftAlone

LEMMA CopySeen ==
    ASSUME NEW k \in Copy, NEW n
    PROVE  /\ Outdated(k, n).cr = k.cr
           /\ Outdated(k, n).fresh => k.fresh /\ k.name # n
           /\ [k EXCEPT !.fresh = FALSE].cr = k.cr /\ ~[k EXCEPT !.fresh = FALSE].fresh
  BY DEF Outdated, Copy

----------------------------------------------------------------------------
(* The steps. *)

\* The worker goes on with the same CR.
LEMMA GoesOn ==
    ASSUME Seen, pc' # "idle", inst'.name = inst.name, UNCHANGED queued,
           \A m \in Names : KubeStep(m),
           inst.name \in Names /\ Unfinished(crs'[inst.name]) /\ Unfinished(inst.cr)
               => Unfinished(inst'.cr),
           InstAgrees', CallFits(pc', inst'.cr)
    PROVE  Seen'
  <1>1. ASSUME NEW n \in Names  PROVE CacheFollows(n)' /\ Remembered(n)'
    BY <1>1, CacheFollowsOn, RemembersOn DEF Seen
  <1> QED  BY <1>1 DEF Seen

\* A call that does not write the CR.
LEMMA CallSeen ==
    ASSUME Seen, UNCHANGED kube, NEW p, p # "idle", Goto(p), CallFits(p, inst.cr)
    PROVE  Seen'
  <1>1. pc' # "idle" /\ inst' = inst /\ UNCHANGED <<queued, crs>>
    BY DEF Goto, kube
  <1>2. InstAgrees' /\ CallFits(pc', inst'.cr)
    BY <1>1 DEF Seen, InstAgrees, Goto
  <1> QED  BY <1>1, <1>2, NothingStored, GoesOn

LEMMA FailSeen ==
    ASSUME Seen, UNCHANGED kube, Fail
    PROVE  Seen'
  <1>1. CallFits("reportError", inst.cr)
    BY DEF CallFits
  <1> QED  BY <1>1, CallSeen DEF Fail

LEMMA DeletionSeen ==
    ASSUME Typed, Seen, pc \in {"create", "update"}
    PROVE  Deletion # "idle" /\ CallFits(Deletion, inst.cr)
  <1>1. inst.cr.phase # "absent" /\ inst.cr \in Cr
    BY DEF Seen, CallFits, Typed, WorkerTypes, Copy
  <1>2. inst.cr.phase \in {"live", "deleting"}
    BY <1>1 DEF Cr, Phases
  <1> QED  BY <1>2 DEF Deletion, CallFits, Unfinished

LEMMA UpdateAndSeen ==
    ASSUME Typed, Seen, pc # "idle", NEW c \in Cr, NEW p, p # "idle", UpdateAnd(c, p),
           inst.fresh => Progress(crs[inst.name], c) /\ CallFits(p, c)
    PROVE  Seen'
  <1>0. inst \in Copy /\ inst.name \in Names
    BY DEF Typed, WorkerTypes
  <1>1. ASSUME WorkerStores(c)
        PROVE  /\ inst.fresh /\ crs'[inst.name] = c
               /\ \A m \in Names : KubeStep(m)
    <2>1. inst.fresh /\ Store(inst.name, c) /\ pending' = pending
      BY <1>1 DEF WorkerStores
    <2> QED  BY <1>0, <2>1, StoreSeen
  <1>2. CASE /\ WorkerStores(c) /\ UNCHANGED queued
             /\ pc' = p /\ inst' = CopyOf(inst.name, c, TRUE)
    <2>1. inst'.name = inst.name /\ inst'.cr = c
      BY <1>2 DEF CopyOf
    <2>2. InstAgrees' /\ CallFits(pc', inst'.cr)
      BY <1>0, <1>1, <1>2, <2>1 DEF InstAgrees
    <2> QED  BY <1>1, <1>2, <2>1, <2>2, GoesOn
  <1>3. CASE /\ WorkerStores(c) /\ UNCHANGED queued
             /\ pc' = "reportError" /\ inst' = [inst EXCEPT !.fresh = FALSE]
    <2>1. inst'.name = inst.name /\ inst'.cr = inst.cr /\ ~inst'.fresh
      BY <1>0, <1>3, CopySeen, CopyOutdated
    <2>2. InstAgrees' /\ CallFits(pc', inst'.cr)
      BY <1>3, <2>1 DEF InstAgrees, CallFits
    <2> QED  BY <1>1, <1>3, <2>1, <2>2, GoesOn
  <1>4. CASE Fail /\ UNCHANGED <<kube, copy>>
    BY <1>4, FailSeen
  <1> QED  BY <1>2, <1>3, <1>4 DEF UpdateAnd

\* A run that reports success leaves a CR that is finished or noticed.
LEMMA UpdateStatusSeen == ASSUME Typed, Seen, UpdateStatus PROVE Seen'
  <1>0. /\ inst.name \in Names /\ crs[inst.name] \in Cr /\ pc \in {"reportOK", "reportError"}
        /\ queued' = IF pc = "reportError" THEN queued \cup {inst.name} ELSE queued
    BY DEF UpdateStatus, Typed, WorkerTypes, KubeTypes
  <1>1. \A m \in Names : KubeStep(m)
    <2>1. CASE WorkerStores(crs[inst.name])
      <3>1. Store(inst.name, crs[inst.name]) /\ pending' = pending
        BY <2>1 DEF WorkerStores
      <3>2. Progress(crs[inst.name], crs[inst.name])
        BY DEF Progress
      <3> QED  BY <1>0, <3>1, <3>2, StoreSeen
    <2>2. CASE UNCHANGED kube
      BY <2>2, NothingStored
    <2> QED  BY <2>1, <2>2 DEF UpdateStatus, WriteStatus
  <1>2. pc' = "idle" /\ ~inst'.fresh
    BY DEF UpdateStatus, NoCopy, CopyOf
  <1>3. ASSUME NEW n \in Names  PROVE CacheFollows(n)' /\ Remembered(n)'
    <2>1. Unfinished(inst.cr) => inst.name \in queued'
      BY <1>0 DEF Seen, CallFits
    <2> QED  BY <1>0, <1>1, <1>3, <2>1, CacheFollowsOn, RemembersOn DEF Seen
  <1>4. InstAgrees' /\ CallFits(pc', inst'.cr)
    BY <1>2 DEF InstAgrees, CallFits
  <1> QED  BY <1>3, <1>4 DEF Seen

LEMMA RunSeen == ASSUME Typed, Seen, Run PROVE Seen'
  <1>0. ASSUME pc # "idle"  PROVE inst.name \in Names /\ crs[inst.name] \in Cr
    BY <1>0 DEF Typed, WorkerTypes, KubeTypes
  <1>a. ASSUME pc # "idle", inst.fresh  PROVE inst.cr = crs[inst.name]
    BY <1>a DEF Seen, InstAgrees
  <1>1. CASE GetGerritClient
    <2>1. pc = "owner" /\ pc # "idle" /\ inst.cr.phase # "absent"
      BY <1>1 DEF GetGerritClient, Seen, CallFits
    <2>2. CASE Goto("get") /\ UNCHANGED <<kube, copy>>
      <3>1. CallFits("get", inst.cr)
        BY <2>1 DEF CallFits
      <3> QED  BY <2>2, <3>1, CallSeen
    <2>3. ASSUME NEW c, c = [crs[inst.name] EXCEPT !.owned = TRUE], UpdateAnd(c, "get")
          PROVE  Seen'
      <3>1. /\ c \in Cr /\ c.phase = crs[inst.name].phase
            /\ c.finalizer = crs[inst.name].finalizer
        BY <1>0, <2>1, <2>3, CrWritten DEF Cr
      <3>2. Progress(crs[inst.name], c)
        BY <3>1 DEF Progress
      <3>3. inst.fresh => CallFits("get", c)
        BY <1>a, <2>1, <3>1 DEF CallFits
      <3> QED  BY <2>1, <2>3, <3>1, <3>2, <3>3, UpdateAndSeen
    <2> QED  BY <1>1, <2>2, <2>3 DEF GetGerritClient
  <1>2. CASE AddFinalizer
    <2>1. pc = "addFinalizer" /\ pc # "idle" /\ inst.cr.phase = "live"
      BY <1>2 DEF AddFinalizer, Seen, CallFits
    <2>2. ASSUME NEW c, c = [crs[inst.name] EXCEPT !.finalizer = TRUE],
                 UpdateAnd(c, "reportOK")
          PROVE  Seen'
      <3>1. c \in Cr /\ c.phase = crs[inst.name].phase /\ c.finalizer = TRUE
        BY <1>0, <2>1, <2>2, CrWritten DEF Cr
      <3>2. Progress(crs[inst.name], c)
        BY <3>1 DEF Progress
      <3>3. inst.fresh => CallFits("reportOK", c)
        BY <1>a, <2>1, <3>1 DEF CallFits, Unfinished
      <3> QED  BY <2>1, <2>2, <3>1, <3>2, <3>3, UpdateAndSeen
    <2> QED  BY <1>2, <2>2 DEF AddFinalizer
  <1>3. CASE Release
    <2>1. pc # "idle" /\ UpdateAnd(Absent, "reportOK")
      BY <1>3 DEF Release
    <2>2. Progress(crs[inst.name], Absent) /\ CallFits("reportOK", Absent)
      BY CrMade DEF Progress, CallFits, Unfinished
    <2> QED  BY <2>1, <2>2, CrMade, UpdateAndSeen
  <1>4. CASE UpdateStatus
    BY <1>4, UpdateStatusSeen
  <1>5. CASE GetProject
    <2>1. PICK p \in {"update", "create"} : Goto(p) /\ UNCHANGED kube
      BY <1>5 DEF GetProject
    <2>2. CallFits(p, inst.cr)
      BY <1>5 DEF GetProject, Seen, CallFits
    <2> QED  BY <2>1, <2>2, CallSeen
  <1>6. CASE CreateProject \/ UpdateProject
    <2>1. pc \in {"create", "update"} /\ UNCHANGED kube /\ (Goto(Deletion) \/ Fail)
      BY <1>6 DEF CreateProject, UpdateProject, Then
    <2> QED  BY <2>1, DeletionSeen, CallSeen, FailSeen
  <1>7. CASE DeleteProject
    <2>1. pc = "delete" /\ UNCHANGED kube /\ (Goto("release") \/ Fail)
      BY <1>7 DEF DeleteProject, Then
    <2>2. CallFits("release", inst.cr)
      BY <2>1 DEF Seen, CallFits
    <2> QED  BY <2>1, <2>2, CallSeen, FailSeen
  <1>8. CASE CallFails
    BY <1>8, FailSeen DEF CallFails
  <1> QED  BY <1>1, <1>2, <1>3, <1>4, <1>5, <1>6, <1>7, <1>8 DEF Run

\* What goes on around the worker: its copy may become an old one.
LEMMA AroundSeen ==
    ASSUME Seen, \A m \in Names : KubeStep(m), queued \subseteq queued', pc' = pc,
           inst'.name = inst.name, inst'.cr = inst.cr,
           inst'.fresh => inst.fresh /\ crs'[inst.name] = crs[inst.name]
    PROVE  Seen'
  <1>1. ASSUME NEW n \in Names  PROVE CacheFollows(n)' /\ Remembered(n)'
    BY <1>1, CacheFollowsOn, RemembersOn DEF Seen
  <1>2. InstAgrees' /\ CallFits(pc', inst'.cr)
    BY DEF Seen, InstAgrees
  <1> QED  BY <1>1, <1>2 DEF Seen

\* Somebody else's write of the CR n.
LEMMA OthersStoreSeen ==
    ASSUME Typed, Seen, NEW n \in Names, NEW c \in Cr, Store(n, c),
           pending' \in {pending, pending \cup {n}},
           n \in pending' \/ Progress(crs[n], c),
           inst' = Outdated(inst, n), UNCHANGED <<queued, pc>>
    PROVE  Seen'
  <1>1. /\ \A m \in Names : KubeStep(m)
        /\ \A m \in Names \ {n} : crs'[m] = crs[m]
    BY StoreSeen
  <1>2. inst \in Copy
    BY DEF Typed, WorkerTypes
  <1>3. /\ inst'.name = inst.name /\ inst'.cr = inst.cr
        /\ inst'.fresh => inst.fresh /\ inst.name # n
    BY <1>2, CopySeen, CopyOutdated
  <1>4. inst'.fresh => crs'[inst.name] = crs[inst.name]
    BY <1>1, <1>3 DEF Seen, InstAgrees
  <1> QED  BY <1>1, <1>3, <1>4, AroundSeen

\* A write that the model has nothing of but the new version.
LEMMA TouchIsStore ==
    ASSUME Typed, NEW n \in Names, UNCHANGED crs, cache' = [cache EXCEPT ![n].fresh = FALSE]
    PROVE  crs[n] \in Cr /\ Store(n, crs[n]) /\ Progress(crs[n], crs[n])
  BY DEF Typed, KubeTypes, Store, Progress

LEMMA TickSeen == ASSUME Typed, Seen, Tick PROVE Seen'
  <1>1. CASE CreateCr
    <2>1. /\ copy.name \in Names /\ Store(copy.name, NewCr)
          /\ pending' = pending \cup {copy.name} /\ inst' = Outdated(inst, copy.name)
          /\ UNCHANGED <<queued, pc>>
      BY <1>1 DEF CreateCr, Typed, SyncerTypes
    <2> QED  BY <2>1, CrMade, OthersStoreSeen
  <1>2. CASE UpdateBranches /\ cache' = [cache EXCEPT ![copy.name].fresh = FALSE]
             /\ inst' = Outdated(inst, copy.name)
    <2>1. copy.name \in Names /\ UNCHANGED <<crs, pending, queued, pc>>
      BY <1>2 DEF UpdateBranches, Typed, SyncerTypes
    <2> QED  BY <1>2, <2>1, TouchIsStore, OthersStoreSeen
  <1>3. CASE UNCHANGED <<kube, worker>>
    <2>1. UNCHANGED kube /\ UNCHANGED <<crs, queued, pc, inst>>
      BY <1>3 DEF kube, worker
    <2> QED  BY <2>1, NothingStored, AroundSeen
  <1>4. \/ CreateCr
        \/ /\ UpdateBranches /\ cache' = [cache EXCEPT ![copy.name].fresh = FALSE]
           /\ inst' = Outdated(inst, copy.name)
        \/ UNCHANGED <<kube, worker>>
    <2>1. CASE UpdateBranches
      BY <2>1 DEF UpdateBranches, kube, worker
    <2>2. CASE ~UpdateBranches /\ ~CreateCr
      BY <2>2, Zenon DEF Tick, ListCrs, ListProjects, NextProject, ListProjectBranches, Reload,
                         TickFails
    <2> QED  BY <2>1, <2>2
  <1> QED  BY <1>1, <1>2, <1>3, <1>4

LEMMA CacheSyncSeen == ASSUME Typed, Seen, NEW n \in Names, CacheSync(n) PROVE Seen'
  <1>1. /\ cache' = [cache EXCEPT ![n] = CopyOf(n, crs[n], TRUE)]
        /\ queued' = IF n \in pending \/ cache[n].cr.phase # crs[n].phase
                     THEN queued \cup {n} ELSE queued
        /\ pending' = pending \ {n}
        /\ UNCHANGED <<crs, pc, inst>>
    BY DEF CacheSync
  <1>2. Delivered(n)
    <2>1. cache'[n].cr = crs[n]
      BY <1>1 DEF Typed, KubeTypes, CacheTypes, CopyOf
    <2> QED  BY <1>1, <2>1 DEF Delivered, Noticed
  <1>3. ASSUME NEW m \in Names \ {n}  PROVE LeftAlone(m)
    <2>1. cache'[m] = cache[m]
      BY <1>1 DEF Typed, KubeTypes, CacheTypes
    <2> QED  BY <1>1, <2>1 DEF LeftAlone
  <1>4. \A m \in Names : KubeStep(m)
    BY <1>2, <1>3 DEF KubeStep
  <1> QED  BY <1>1, <1>4, AroundSeen

\* The restarted operator queues every CR it finds.
LEMMA OperatorCrashSeen == ASSUME Typed, Seen, OperatorCrash PROVE Seen'
  <1>1. /\ UNCHANGED crs /\ pending' = {} /\ pc' = "idle" /\ ~inst'.fresh
        /\ queued' = {n \in Names : crs[n].phase # "absent"}
        /\ cache' = [n \in Names |-> CopyOf(n, crs[n], TRUE)]
    BY DEF OperatorCrash, NoCopy, CopyOf
  <1>2. ASSUME NEW n \in Names  PROVE CacheFollows(n)' /\ Remembered(n)'
    <2>1. cache'[n].cr = crs[n]
      BY <1>1 DEF CopyOf
    <2>2. CacheFollows(n)'
      BY <1>1, <2>1 DEF CacheFollows
    <2>3. Remembered(n)'
      BY <1>1 DEF Remembered, Noticed, Unfinished
    <2> QED  BY <2>2, <2>3
  <1>3. InstAgrees' /\ CallFits(pc', inst'.cr)
    BY <1>1 DEF InstAgrees, CallFits
  <1> QED  BY <1>2, <1>3 DEF Seen

LEMMA EnvironmentSeen == ASSUME Typed, Seen, Environment PROVE Seen'
  <1>0. ASSUME NEW n \in Names, NEW c \in Cr, PeopleStore(n, c),
               pending' \in {pending, pending \cup {n}},
               n \in pending' \/ Progress(crs[n], c)
        PROVE  Seen'
    BY <1>0, OthersStoreSeen DEF PeopleStore
  <1>1. CASE OperatorCrash
    BY <1>1, OperatorCrashSeen
  <1>2. CASE UserActs \/ CallsStopFailing
    <2>1. UNCHANGED kube /\ UNCHANGED <<crs, queued, pc, inst>>
      BY <1>2 DEF UserActs, CallsStopFailing, kube, worker
    <2> QED  BY <2>1, NothingStored, AroundSeen
  <1>3. ASSUME NEW n \in Names, CacheSync(n)  PROVE Seen'
    BY <1>3, CacheSyncSeen
  <1>4. ASSUME NEW n \in Names, CrCreated(n)  PROVE Seen'
    BY <1>0, <1>4, CrMade DEF CrCreated
  <1>5. ASSUME NEW n \in Names, CrEdited(n)  PROVE Seen'
    <2>1. /\ UNCHANGED <<crs, queued, pc>> /\ cache' = [cache EXCEPT ![n].fresh = FALSE]
          /\ pending' = pending \cup {n} /\ inst' = Outdated(inst, n)
      BY <1>5 DEF CrEdited
    <2> QED  BY <2>1, TouchIsStore, OthersStoreSeen
  <1>6. ASSUME NEW n \in Names, CrDeleted(n)  PROVE Seen'
    <2>1. crs[n] \in Cr /\ crs[n].phase = "live" /\ pending' = pending
      BY <1>6 DEF CrDeleted, Typed, KubeTypes
    <2>2. PICK c \in {[crs[n] EXCEPT !.phase = "deleting"], Absent} : PeopleStore(n, c)
      BY <1>6 DEF CrDeleted
    <2>3. c \in Cr /\ Progress(crs[n], c)
      BY <2>1, CrMade, CrWritten DEF Progress
    <2> QED  BY <1>0, <2>1, <2>2, <2>3
  <1>7. ASSUME NEW n \in Names, OtherSyncer(n)  PROVE Seen'
    <2>1. crs[n] \in Cr
      BY DEF Typed, KubeTypes
    <2>2. \/ PeopleStore(n, NewCr) /\ pending' = pending \cup {n}
          \/ PeopleStore(n, crs[n]) /\ pending' = pending
      BY <1>7 DEF OtherSyncer
    <2>3. Progress(crs[n], crs[n])
      BY DEF Progress
    <2> QED  BY <1>0, <2>1, <2>2, <2>3, CrMade
  <1> QED  BY <1>1, <1>2, <1>3, <1>4, <1>5, <1>6, <1>7 DEF Environment

\* The worker takes a CR off the queue and has its copy, unless the copy has
\* nothing left to do: then a watch event is due if the CR has.
LEMMA BeginSeen == ASSUME Typed, Seen, NEW n \in Names, Begin(n) PROVE Seen'
  <1>1. /\ pc = "idle" /\ queued' = queued \ {n} /\ UNCHANGED <<crs, cache, pending>>
        /\ cache[n] \in Copy /\ cache[n].name = n /\ crs[n] \in Cr
    BY DEF Begin, kube, Typed, KubeTypes, CacheTypes
  <1>2. CacheFollows(n)
    BY DEF Seen
  <1>3. CASE cache[n].cr.phase = "absent"
    <2>1. pc' = "idle" /\ inst' = inst
      BY <1>1, <1>3 DEF Begin
    <2>2. ASSUME NEW m \in Names  PROVE CacheFollows(m)' /\ Remembered(m)'
      <3>1. CacheFollows(m)'
        BY <1>1, <2>2 DEF Seen, CacheFollows
      <3>2. CASE m # n
        BY <1>1, <2>2, <3>1, <3>2 DEF Seen, Remembered, Noticed, Unfinished
      <3>3. CASE m = n
        BY <1>1, <1>2, <1>3, <3>1, <3>3 DEF CacheFollows, Remembered, Noticed, Unfinished
      <3> QED  BY <3>1, <3>2, <3>3
    <2>3. InstAgrees' /\ CallFits(pc', inst'.cr)
      BY <1>1, <2>1 DEF Seen, InstAgrees, CallFits
    <2> QED  BY <2>2, <2>3 DEF Seen
  <1>4. CASE cache[n].cr.phase # "absent"
    <2>1. pc' = "owner" /\ inst' = cache[n]
      BY <1>4 DEF Begin
    <2>2. cache[n].cr \in Cr
      BY <1>1 DEF Copy
    <2>3. ASSUME NEW m \in Names  PROVE CacheFollows(m)' /\ Remembered(m)'
      <3>1. CacheFollows(m)'
        BY <1>1, <2>3 DEF Seen, CacheFollows
      <3>2. CASE m # n
        BY <1>1, <2>3, <3>1, <3>2 DEF Seen, Remembered, Noticed, Unfinished
      <3>3. CASE m = n /\ Unfinished(cache[n].cr)
        BY <1>1, <2>1, <3>1, <3>3 DEF Remembered, Unfinished
      <3>4. CASE m = n /\ ~Unfinished(cache[n].cr)
        <4>1. cache[n].cr.phase = "live" /\ cache[n].cr.finalizer
          BY <1>4, <2>2, <3>4 DEF Unfinished, Cr, Phases
        <4>2. Unfinished(crs[n]) => ~cache[n].fresh
          BY <1>2, <3>4 DEF CacheFollows
        <4>3. Unfinished(crs[n]) => n \in pending \/ cache[n].cr.phase # crs[n].phase
          BY <1>2, <4>1 DEF CacheFollows, Unfinished
        <4> QED  BY <1>1, <3>1, <3>4, <4>2, <4>3 DEF Remembered, Noticed, Unfinished
      <3> QED  BY <3>1, <3>2, <3>3, <3>4
    <2>4. InstAgrees'
      BY <1>1, <1>2, <2>1 DEF InstAgrees, CacheFollows
    <2>5. CallFits(pc', inst'.cr)
      BY <1>4, <2>1 DEF CallFits
    <2> QED  BY <2>3, <2>4, <2>5 DEF Seen
  <1> QED  BY <1>3, <1>4

LEMMA StartSeen == ASSUME Init PROVE Seen
  <1>1. ~inst.fresh /\ pc = "idle" /\ pending = {}
    BY DEF Init, NoCopy, CopyOf
  <1>2. ASSUME NEW n \in Names  PROVE CacheFollows(n) /\ Remembered(n)
    <2>1. crs[n] = Absent /\ cache[n].cr = Absent
      BY DEF Init, CopyOf
    <2> QED  BY <1>1, <2>1, CrMade DEF CacheFollows, Remembered, Unfinished
  <1> QED  BY <1>1, <1>2 DEF Seen, InstAgrees, CallFits

LEMMA StepSeen == ASSUME Typed, Seen, [Next]_vars PROVE Seen'
  <1>1. CASE UNCHANGED vars
    <2>1. UNCHANGED kube /\ UNCHANGED <<crs, queued, pc, inst>>
      BY <1>1 DEF vars, kube
    <2> QED  BY <2>1, NothingStored, AroundSeen
  <1> QED  BY <1>1, RunSeen, TickSeen, EnvironmentSeen, BeginSeen DEF Next

THEOREM SeenInvariance == Spec => [](Typed /\ Seen)
  <1>1. Init => Typed /\ Seen
    BY StartTypes, StartSeen
  <1>2. Typed /\ Seen /\ [Next]_vars => Typed' /\ Seen'
    BY StepTypes, StepSeen
  <1> QED  BY <1>1, <1>2, PTL DEF Spec

\* A CR whose finalizer is still to be put on or taken off is in the queue, about to
\* be put there, or being worked on, whoever writes it in whatever order.
THEOREM NoWakeUpLost == Spec => []NothingForgotten
  <1>1. Seen => NothingForgotten
    BY DEF Seen, Remembered, NothingForgotten
  <1> QED  BY <1>1, SeenInvariance, PTL

----------------------------------------------------------------------------
(* The finalizer: the controller implements CrFinalizer. *)

\* What Kubernetes and its users see of a CR, and of its project.
Finalizer == INSTANCE CrFinalizer WITH
    phase <- [n \in Names |-> crs[n].phase],
    held  <- [n \in Names |-> crs[n].finalizer],
    clean <- [n \in Names |-> ProjectOf[n] \notin projects]

\* The ways the CR n becomes d.
Moves(n, d) ==
    \/ d.phase = crs[n].phase /\ d.finalizer = crs[n].finalizer
    \/ crs[n].phase = "absent" /\ d = NewCr
    \/ crs[n].phase = "live" /\ d.phase = "live" /\ d.finalizer = TRUE
    \/ /\ crs[n].phase = "live" /\ d.finalizer = crs[n].finalizer
       /\ d.phase = IF crs[n].finalizer THEN "deleting" ELSE "absent"
    \/ crs[n].phase = "deleting" /\ d = Absent /\ ProjectOf[n] \notin projects'

Moved(n, d) == /\ crs'[n] = d /\ \A o \in Names \ {n} : crs'[o] = crs[o]
               /\ Moves(n, d)

LEMMA RunMoves ==
    ASSUME Typed, Seen, GoneBeforeRelease, Run
    PROVE  crs' = crs \/ \E n \in Names, d \in Cr : Moved(n, d)
  <1>0. ASSUME pc # "idle"
        PROVE  KubeTypes /\ WorkerTypes /\ inst.name \in Names /\ crs[inst.name] \in Cr
    BY <1>0 DEF Typed, WorkerTypes, KubeTypes
  <1>1. CASE GetGerritClient \/ AddFinalizer
    <2>1. PICK c \in {[crs[inst.name] EXCEPT !.owned = TRUE],
                      [crs[inst.name] EXCEPT !.finalizer = TRUE]} :
              /\ crs' = crs \/ (WorkerStores(c) /\ inst.fresh)
              /\ c # [crs[inst.name] EXCEPT !.owned = TRUE]
                    => c = [crs[inst.name] EXCEPT !.finalizer = TRUE] /\ pc = "addFinalizer"
      BY <1>1 DEF GetGerritClient, AddFinalizer, UpdateAnd, WorkerStores, kube
    <2>2. CASE WorkerStores(c) /\ inst.fresh
      <3>1. pc # "idle"
        BY <1>1 DEF GetGerritClient, AddFinalizer
      <3>2. c \in Cr
        BY <1>0, <3>1, <2>1, CrWritten
      <3>3. crs'[inst.name] = c /\ \A o \in Names \ {inst.name} : crs'[o] = crs[o]
        BY <1>0, <2>2, <3>1, <3>2, WorkerStoresTypes
      <3>4. CASE c = [crs[inst.name] EXCEPT !.owned = TRUE]
        <4>1. c.phase = crs[inst.name].phase /\ c.finalizer = crs[inst.name].finalizer
          BY <1>0, <3>1, <3>4 DEF Cr
        <4> QED  BY <1>0, <3>1, <3>2, <3>3, <4>1 DEF Moved, Moves
      <3>5. CASE c = [crs[inst.name] EXCEPT !.finalizer = TRUE] /\ pc = "addFinalizer"
        <4>1. c.phase = crs[inst.name].phase /\ c.finalizer = TRUE
          BY <1>0, <3>1, <3>5 DEF Cr
        <4>2. crs[inst.name].phase = "live"
          BY <2>2, <3>5 DEF Seen, InstAgrees, CallFits
        <4> QED  BY <1>0, <3>1, <3>2, <3>3, <4>1, <4>2 DEF Moved, Moves
      <3> QED  BY <2>1, <3>4, <3>5
    <2> QED  BY <2>1, <2>2
  <1>2. CASE Release
    <2>1. pc = "release" /\ pc # "idle" /\ projects' = projects
          /\ (crs' = crs \/ (WorkerStores(Absent) /\ inst.fresh))
      BY <1>2 DEF Release, UpdateAnd, WorkerStores, kube
    <2>2. CASE WorkerStores(Absent) /\ inst.fresh
      <3>1. crs'[inst.name] = Absent /\ \A o \in Names \ {inst.name} : crs'[o] = crs[o]
        BY <1>0, <2>1, <2>2, CrMade, WorkerStoresTypes
      <3>2. crs[inst.name].phase = "deleting"
        BY <2>1, <2>2 DEF Seen, InstAgrees, CallFits
      <3>3. ProjectOf[inst.name] \notin projects'
        BY <2>1 DEF GoneBeforeRelease, Project
      <3> QED  BY <1>0, <2>1, <3>1, <3>2, <3>3, CrMade DEF Moved, Moves
    <2> QED  BY <2>1, <2>2
  <1>3. CASE UpdateStatus
    <2>1. pc # "idle" /\ (crs' = crs \/ WorkerStores(crs[inst.name]))
      BY <1>3 DEF UpdateStatus, WriteStatus, kube
    <2>2. CASE WorkerStores(crs[inst.name])
      <3>1. /\ crs'[inst.name] = crs[inst.name]
            /\ \A o \in Names \ {inst.name} : crs'[o] = crs[o]
        BY <1>0, <2>1, <2>2, WorkerStoresTypes
      <3> QED  BY <1>0, <2>1, <3>1 DEF Moved, Moves
    <2> QED  BY <2>1, <2>2
  <1>4. CASE GetProject \/ CreateProject \/ UpdateProject \/ DeleteProject \/ CallFails
    BY <1>4 DEF GetProject, CreateProject, UpdateProject, DeleteProject, CallFails, kube
  <1> QED  BY <1>1, <1>2, <1>3, <1>4 DEF Run

LEMMA OthersMove ==
    ASSUME Typed, Tick \/ Environment
    PROVE  crs' = crs \/ \E n \in Names, d \in Cr : Moved(n, d)
  <1>1. ASSUME NEW n \in Names, NEW c \in Cr, Store(n, c), Moves(n, c)
        PROVE  \E o \in Names, d \in Cr : Moved(o, d)
    BY <1>1, StoreTypes DEF Typed, Moved
  <1>2. CASE CreateCr
    <2>1. copy.name \in Names /\ Store(copy.name, NewCr) /\ crs[copy.name].phase = "absent"
      BY <1>2 DEF CreateCr, Typed, SyncerTypes
    <2> QED  BY <1>1, <2>1, CrMade DEF Moves
  <1>3. CASE Tick /\ ~CreateCr
    BY <1>3 DEF Tick, ListCrs, ListProjects, NextProject, ListProjectBranches, Reload,
                UpdateBranches, TickFails, kube
  <1>4. CASE OperatorCrash \/ UserActs \/ CallsStopFailing
    BY <1>4 DEF OperatorCrash, UserActs, CallsStopFailing, kube
  <1>5. ASSUME NEW n \in Names, CacheSync(n) \/ CrEdited(n)
        PROVE  crs' = crs
    BY <1>5 DEF CacheSync, CrEdited
  <1>6. ASSUME NEW n \in Names, CrCreated(n)
        PROVE  \E o \in Names, d \in Cr : Moved(o, d)
    <2>1. crs[n].phase = "absent" /\ Store(n, NewCr)
      BY <1>6 DEF CrCreated, PeopleStore
    <2> QED  BY <1>1, <2>1, CrMade DEF Moves
  <1>7. ASSUME NEW n \in Names, CrDeleted(n)
        PROVE  \E o \in Names, d \in Cr : Moved(o, d)
    <2>1. crs[n] \in Cr /\ crs[n].phase = "live"
      BY <1>7 DEF CrDeleted, Typed, KubeTypes
    <2> DEFINE d == IF crs[n].finalizer THEN [crs[n] EXCEPT !.phase = "deleting"] ELSE Absent
    <2>2. Store(n, d)
      BY <1>7 DEF CrDeleted, PeopleStore
    <2>3. /\ d \in Cr /\ d.finalizer = crs[n].finalizer
          /\ d.phase = IF crs[n].finalizer THEN "deleting" ELSE "absent"
      BY <2>1, CrWritten DEF Cr, Absent, Phases
    <2> HIDE DEF d
    <2>4. Moves(n, d)
      BY <2>1, <2>3 DEF Moves
    <2> QED  BY <1>1, <2>2, <2>3, <2>4
  <1>8. ASSUME NEW n \in Names, OtherSyncer(n)
        PROVE  \E o \in Names, d \in Cr : Moved(o, d)
    <2>1. crs[n] \in Cr
      BY DEF Typed, KubeTypes
    <2>2. (crs[n].phase = "absent" /\ Store(n, NewCr)) \/ Store(n, crs[n])
      BY <1>8 DEF OtherSyncer, PeopleStore
    <2> QED  BY <1>1, <2>1, <2>2, CrMade DEF Moves
  <1> QED  BY <1>2, <1>3, <1>4, <1>5, <1>6, <1>7, <1>8 DEF Environment

LEMMA MovesAreFinalizerSteps ==
    ASSUME Typed, NEW n \in Names, NEW d \in Cr, Moved(n, d)
    PROVE  [Finalizer!Next]_(Finalizer!vars)
  <1>1. Finalizer!Becomes(n, d.phase, d.finalizer)
    BY DEF Moved, Finalizer!Becomes
  <1>2. CASE d.phase = crs[n].phase /\ d.finalizer = crs[n].finalizer
    <2>1. \A o \in Names : crs'[o].phase = crs[o].phase /\ crs'[o].finalizer = crs[o].finalizer
      BY <1>2 DEF Moved
    <2> QED  BY <2>1 DEF Finalizer!vars
  <1>3. CASE crs[n].phase = "absent" /\ d = NewCr
    <2>1. d.phase = "live" /\ d.finalizer = FALSE
      BY <1>3 DEF NewCr, Absent
    <2>2. Finalizer!Create(n)
      BY <1>1, <1>3, <2>1 DEF Finalizer!Create
    <2> QED  BY <2>2 DEF Finalizer!Next
  <1>4. CASE crs[n].phase = "live" /\ d.phase = "live" /\ d.finalizer = TRUE
    <2>1. Finalizer!Hold(n)
      BY <1>1, <1>4 DEF Finalizer!Hold
    <2> QED  BY <2>1 DEF Finalizer!Next
  <1>5. CASE /\ crs[n].phase = "live" /\ d.finalizer = crs[n].finalizer
             /\ d.phase = IF crs[n].finalizer THEN "deleting" ELSE "absent"
    <2>1. CASE crs[n].finalizer
      <3>1. Finalizer!Delete(n)
        BY <1>5, <2>1 DEF Moved, Finalizer!Delete, Finalizer!Becomes
      <3> QED  BY <3>1 DEF Finalizer!Next
    <2>2. CASE ~crs[n].finalizer
      <3>1. Finalizer!Delete(n)
        BY <1>5, <2>2 DEF Moved, Finalizer!Delete, Finalizer!Becomes
      <3> QED  BY <3>1 DEF Finalizer!Next
    <2> QED  BY <2>1, <2>2
  <1>6. CASE crs[n].phase = "deleting" /\ d = Absent /\ ProjectOf[n] \notin projects'
    <2>1. d.phase = "absent" /\ d.finalizer = FALSE
      BY <1>6 DEF Absent
    <2>2. Finalizer!Release(n)
      BY <1>1, <1>6, <2>1 DEF Finalizer!Release
    <2> QED  BY <2>2 DEF Finalizer!Next
  <1> QED  BY <1>2, <1>3, <1>4, <1>5, <1>6 DEF Moved, Moves

\* Where people do not make projects themselves, the controller handles its finalizer
\* as CrFinalizer says, whoever else writes the CRs: it holds live CRs only, no deleted
\* CR that has it goes but by the worker's hand, and then its project is gone.
THEOREM ImplementsTheFinalizer ==
    ASSUME "createProject" \notin UserActions
    PROVE  Spec => Finalizer!Spec
  <1> DEFINE Inv == Typed /\ Seen /\ GoneBeforeRelease
  <1>1. Init => Inv
    BY StartTypes, StartSeen DEF Init, GoneBeforeRelease
  <1>2. Inv /\ [Next]_vars => Inv'
    BY StepTypes, StepSeen, GoneStays
  <1>3. Init => Finalizer!Init
    BY DEF Init, Finalizer!Init, Absent
  <1>4. ASSUME Inv, [Next]_vars  PROVE [Finalizer!Next]_(Finalizer!vars)
    <2>1. CASE crs' = crs
      BY <2>1 DEF Finalizer!vars
    <2>2. crs' = crs \/ \E n \in Names, d \in Cr : Moved(n, d)
      <3>1. CASE \E n \in Names : Begin(n)
        BY <3>1 DEF Begin, kube
      <3>2. CASE UNCHANGED vars
        BY <3>2 DEF vars
      <3> QED  BY <1>4, <3>1, <3>2, RunMoves, OthersMove DEF Next
    <2> QED  BY <1>4, <2>1, <2>2, MovesAreFinalizerSteps
  <1>5. Inv /\ [Next]_vars => [Finalizer!Next]_(Finalizer!vars)
    BY <1>4
  <1> QED  BY <1>1, <1>2, <1>3, <1>5, PTL DEF Spec, Finalizer!Spec

=============================================================================
