---------------------- MODULE GerritChildrenQueueProofs ----------------------
(* That GerritChildren forgets no CR, for every value of its constants. *)
EXTENDS GerritChildrenProofs, BackoffProofs

----------------------------------------------------------------------------
(* The strengthening of NothingForgotten. *)

\* The cache lacks only progress of a CR.
CacheFollows(n) ==
    /\ cache[n].cr.phase = "absent" => crs[n].phase = "absent"
    /\ cache[n].cr.phase = "deleting" => crs[n].phase # "live"
    /\ cache[n].cr.phase = "live" /\ cache[n].cr.finalizer /\ crs[n].phase = "live"
          => crs[n].finalizer

\* The worker is relied upon only if its copy has something left to do.
Remembered(n) ==
    Unfinished(KindOf[n], crs[n])
        => \/ Noticed(n)
           \/ inst[KindOf[n]].name = n /\ Unfinished(KindOf[n], inst[KindOf[n]].cr)

\* The call p fits the copy c, and a run that reports success has nothing left to do.
CallFits(k, p, c) ==
    /\ p = "addFinalizer" => c.phase = "live"
    /\ p = "reportOK" => ~Unfinished(k, c)

InstFits(k) ==
    /\ inst[k].fresh => crs[inst[k].name].finalizer = inst[k].cr.finalizer
    /\ CallFits(k, pc[k], inst[k].cr)

Seen ==
    /\ \A n \in Names : CacheFollows(n) /\ Remembered(n)
    /\ \A k \in Kinds : InstFits(k)

\* How a CR goes on.
Progress(c, d) ==
    \/ d.phase = "absent"
    \/ d.phase = c.phase /\ (c.finalizer => d.finalizer)
    \/ c.phase = "live" /\ d.phase = "deleting"

\* What a step does to the CR n and to the cache's copy of it: nothing, a watch
\* event, or a write.
LeftAlone(n) == crs'[n] = crs[n] /\ cache'[n] = cache[n]
Delivered(n) == /\ crs'[n] = crs[n] /\ cache'[n].cr = crs[n]
                /\ Noticed(n) => n \in queued'
Stored(n) == /\ cache'[n].cr = cache[n].cr /\ ~cache'[n].fresh
             /\ Progress(crs[n], crs'[n])
KubeStep(n) == LeftAlone(n) \/ Delivered(n) \/ Stored(n)

LEMMA CacheFollowsOn ==
    ASSUME NEW n \in Names, CacheFollows(n), KubeStep(n)
    PROVE  CacheFollows(n)'
  BY DEF KubeStep, LeftAlone, Delivered, Stored, Progress, CacheFollows

\* The worker may drop only a CR that is finished or that is queued again.
LEMMA RemembersOn ==
    ASSUME NEW n \in Names, NEW k, k = KindOf[n],
           CacheFollows(n), Remembered(n), KubeStep(n),
           n \in queued => n \in queued',
           Unfinished(k, crs'[n]) /\ inst[k].name = n /\ Unfinished(k, inst[k].cr)
               => n \in queued' \/ (inst'[k].name = n /\ Unfinished(k, inst'[k].cr))
    PROVE  Remembered(n)'
  <1> SUFFICES ASSUME Unfinished(k, crs'[n])
               PROVE  Noticed(n)' \/ (inst'[k].name = n /\ Unfinished(k, inst'[k].cr))
    BY DEF Remembered
  <1>1. CASE LeftAlone(n)
    BY <1>1 DEF LeftAlone, Remembered, Noticed
  <1>2. CASE Delivered(n)
    BY <1>2 DEF Delivered, Remembered, Noticed
  <1>3. CASE Stored(n) /\ crs'[n].phase = crs[n].phase /\ (crs[n].finalizer => crs'[n].finalizer)
    <2>1. Unfinished(k, crs[n])
      BY <1>3 DEF Unfinished
    <2> QED  BY <1>3, <2>1 DEF Stored, Remembered, Noticed
  <1>4. CASE Stored(n) /\ crs[n].phase = "live" /\ crs'[n].phase = "deleting"
    BY <1>4 DEF Stored, CacheFollows, Noticed
  <1> QED  BY <1>1, <1>2, <1>3, <1>4 DEF KubeStep, Stored, Progress, Unfinished

LEMMA StoreSeen ==
    ASSUME Typed, NEW n \in Names, NEW c \in SpecifiedCr,
           crs' = [crs EXCEPT ![n] = c], cache' = [cache EXCEPT ![n].fresh = FALSE],
           Progress(crs[n], c)
    PROVE  /\ \A m \in Names : KubeStep(m)
           /\ crs'[n] = c /\ \A m \in Names \ {n} : crs'[m] = crs[m]
  <1>1. /\ cache'[n].cr = cache[n].cr /\ ~cache'[n].fresh
        /\ \A m \in Names \ {n} : cache'[m] = cache[m]
    BY DEF Typed, KubeOK, CacheOK, SpecifiedCopy
  <1>2. crs'[n] = c /\ \A m \in Names \ {n} : crs'[m] = crs[m]
    BY DEF Typed, KubeOK
  <1> QED  BY <1>1, <1>2 DEF KubeStep, Stored, LeftAlone

LEMMA NothingStored == ASSUME UNCHANGED kube PROVE \A m \in Names : KubeStep(m)
  BY DEF kube, KubeStep, LeftAlone

LEMMA KindKnown == ASSUME NEW n \in Names PROVE KindOf[n] \in Kinds
  BY NameAssumption

\* What a worker that is not idle has, and what it knows of the CR if it is current.
LEMMA AtWork ==
    ASSUME Typed, Seen, NEW k \in Kinds, pc[k] # "idle"
    PROVE  /\ inst[k] \in SpecifiedCopy /\ inst[k].cr \in SpecifiedCr
           /\ inst[k].name \in Names /\ KindOf[inst[k].name] = k
           /\ crs[inst[k].name] \in SpecifiedCr
           /\ inst[k].fresh => /\ crs[inst[k].name].phase = inst[k].cr.phase
                               /\ crs[inst[k].name].finalizer = inst[k].cr.finalizer
  BY DEF Typed, WorkOK, WorkerOK, KubeOK, SpecifiedCopy, Agrees, Seen, InstFits

----------------------------------------------------------------------------
(* The steps of a worker. *)

\* The other workers do not work on the CR that the worker k writes.
LEMMA OthersFit ==
    ASSUME Typed, Seen, NEW k \in Kinds, pc[k] # "idle", NEW j \in Kinds \ {k},
           pc'[j] = pc[j], inst'[j] = inst[j],
           \A o \in Names \ {inst[k].name} : crs'[o] = crs[o]
    PROVE  InstFits(j)'
  <1>1. WorkerOK(j) /\ InstFits(j) /\ KindOf[inst[k].name] = k
    BY AtWork DEF Typed, WorkOK, Seen
  <1>2. inst[j].fresh => inst[j].name \in Names \ {inst[k].name}
    BY <1>1, NoCopyMade DEF WorkerOK
  <1> QED  BY <1>1, <1>2 DEF InstFits

\* The worker goes on with the same CR, or is done with it.
LEMMA GoesOn ==
    ASSUME Typed, Seen, NEW k \in Kinds, pc[k] # "idle",
           \A j \in Kinds \ {k} : pc'[j] = pc[j] /\ inst'[j] = inst[j],
           \A m \in Names : KubeStep(m),
           \A o \in Names \ {inst[k].name} : crs'[o] = crs[o],
           queued \subseteq queued',
           Unfinished(k, crs'[inst[k].name]) /\ Unfinished(k, inst[k].cr)
               => \/ inst[k].name \in queued'
                  \/ inst'[k].name = inst[k].name /\ Unfinished(k, inst'[k].cr),
           InstFits(k)'
    PROVE  Seen'
  <1>1. ASSUME NEW n \in Names  PROVE CacheFollows(n)' /\ Remembered(n)'
    <2>1. CacheFollows(n) /\ Remembered(n) /\ KubeStep(n) /\ (n \in queued => n \in queued')
      BY <1>1 DEF Seen
    <2>2. CASE KindOf[n] = k
      <3>1. Unfinished(k, crs'[n]) /\ inst[k].name = n /\ Unfinished(k, inst[k].cr)
              => n \in queued' \/ (inst'[k].name = n /\ Unfinished(k, inst'[k].cr))
        OBVIOUS
      <3> QED  BY <2>1, <2>2, <3>1, CacheFollowsOn, RemembersOn
    <2>3. CASE KindOf[n] # k
      <3>1. inst'[KindOf[n]] = inst[KindOf[n]]
        BY <2>3, KindKnown
      <3> QED  BY <2>1, <3>1, CacheFollowsOn, RemembersOn
    <2> QED  BY <2>2, <2>3
  <1>2. ASSUME NEW j \in Kinds \ {k}  PROVE InstFits(j)'
    BY <1>2, OthersFit
  <1> QED  BY <1>1, <1>2 DEF Seen

\* A call that does not write the CR.
LEMMA CallSeen ==
    ASSUME Typed, Seen, NEW k \in Kinds, pc[k] # "idle", UNCHANGED kube,
           NEW p, Goto(k, p), CallFits(k, p, inst[k].cr)
    PROVE  Seen'
  <1>1. /\ \A j \in Kinds \ {k} : pc'[j] = pc[j] /\ inst'[j] = inst[j]
        /\ pc'[k] = p /\ inst' = inst /\ UNCHANGED <<queued, crs>>
    BY DEF Typed, WorkOK, Goto, kube
  <1>2. InstFits(k)'
    BY <1>1 DEF Seen, InstFits
  <1>3. \A m \in Names : KubeStep(m)
    BY NothingStored
  <1> QED  BY <1>1, <1>2, <1>3, GoesOn

LEMMA FailSeen ==
    ASSUME Typed, Seen, NEW k \in Kinds, pc[k] # "idle", UNCHANGED kube, Fail(k)
    PROVE  Seen'
  <1>1. CallFits(k, "reportError", inst[k].cr)
    BY DEF CallFits
  <1> QED  BY <1>1, CallSeen DEF Fail

LEMMA DeletionSeen ==
    ASSUME Typed, Seen, NEW k \in Kinds, pc[k] \notin Ends
    PROVE  CallFits(k, Deletion(k), inst[k].cr)
  <1>1. inst[k].cr \in SpecifiedCr /\ inst[k].cr.phase # "absent"
    BY DEF Typed, WorkOK, WorkerOK, SpecifiedCopy
  <1>2. inst[k].cr.phase \in {"live", "deleting"}
    BY <1>1 DEF SpecifiedCr, Cr, Phases
  <1> QED  BY <1>2 DEF Deletion, CallFits, Unfinished

LEMMA UpdateAndSeen ==
    ASSUME Typed, Seen, NEW k \in Kinds, pc[k] # "idle", NEW c \in SpecifiedCr, NEW p,
           UpdateAnd(k, c, p),
           inst[k].fresh => Progress(crs[inst[k].name], c) /\ CallFits(k, p, c)
    PROVE  Seen'
  <1>0. inst[k] \in SpecifiedCopy /\ inst[k].name \in Names
    BY AtWork
  <1>1. CASE Store(k, c) /\ UNCHANGED queued
    <2>1. /\ inst[k].fresh /\ crs'[inst[k].name] = c
          /\ \A m \in Names : KubeStep(m)
          /\ \A m \in Names \ {inst[k].name} : crs'[m] = crs[m]
      BY <1>0, <1>1, StoreSeen DEF Store
    <2>2. CASE pc' = [pc EXCEPT ![k] = p] /\ inst' = [inst EXCEPT ![k].cr = c]
      <3>1. /\ \A j \in Kinds \ {k} : pc'[j] = pc[j] /\ inst'[j] = inst[j]
            /\ pc'[k] = p /\ inst'[k] = [inst[k] EXCEPT !.cr = c]
        BY <2>2 DEF Typed, WorkOK
      <3>2. inst'[k].name = inst[k].name /\ inst'[k].cr = c
        BY <1>0, <3>1, CopyRewritten
      <3>3. InstFits(k)'
        BY <2>1, <3>1, <3>2 DEF InstFits
      <3> QED  BY <1>1, <2>1, <3>1, <3>2, <3>3, GoesOn
    <2>3. CASE pc' = [pc EXCEPT ![k] = "reportError"] /\ inst' = [inst EXCEPT ![k].fresh = FALSE]
      <3>1. /\ \A j \in Kinds \ {k} : pc'[j] = pc[j] /\ inst'[j] = inst[j]
            /\ pc'[k] = "reportError" /\ inst'[k] = [inst[k] EXCEPT !.fresh = FALSE]
        BY <2>3 DEF Typed, WorkOK
      <3>2. inst'[k].name = inst[k].name /\ inst'[k].cr = inst[k].cr /\ ~inst'[k].fresh
        BY <1>0, <3>1, CopyOutdated
      <3>3. InstFits(k)'
        BY <3>1, <3>2 DEF InstFits, CallFits
      <3> QED  BY <1>1, <2>1, <3>1, <3>2, <3>3, GoesOn
    <2>4. CASE Fail(k) /\ UNCHANGED kube
      BY <2>4, FailSeen
    <2> QED  BY <2>2, <2>3, <2>4 DEF UpdateAnd
  <1>2. CASE Fail(k) /\ UNCHANGED kube
    BY <1>2, FailSeen
  <1> QED  BY <1>1, <1>2 DEF UpdateAnd

LEMMA WritesSeen ==
    ASSUME Typed, Seen, NEW k \in Kinds, SetOwner(k) \/ Finalizer(k)
    PROVE  Seen'
  <1>1. pc[k] # "idle"
    BY DEF SetOwner, Finalizer, AddFinalizer, Release
  <1>2. /\ crs[inst[k].name] \in SpecifiedCr
        /\ inst[k].fresh => crs[inst[k].name].phase = inst[k].cr.phase
    BY <1>1, AtWork
  <1>3. CASE Goto(k, "host") /\ UNCHANGED kube
    <2>1. CallFits(k, "host", inst[k].cr)
      BY DEF CallFits
    <2> QED  BY <1>1, <1>3, <2>1, CallSeen
  <1>4. ASSUME NEW c, c = [crs[inst[k].name] EXCEPT !.owned = TRUE], UpdateAnd(k, c, "host")
        PROVE  Seen'
    <2>1. /\ c \in SpecifiedCr /\ c.phase = crs[inst[k].name].phase
          /\ c.finalizer = crs[inst[k].name].finalizer
      BY <1>2, <1>4, CrOwned DEF SpecifiedCr, Cr
    <2>2. Progress(crs[inst[k].name], c) /\ CallFits(k, "host", c)
      BY <2>1 DEF Progress, CallFits
    <2> QED  BY <1>1, <1>4, <2>1, <2>2, UpdateAndSeen
  <1>5. ASSUME NEW c, c = [crs[inst[k].name] EXCEPT !.finalizer = TRUE],
               pc[k] = "addFinalizer", UpdateAnd(k, c, "reportOK")
        PROVE  Seen'
    <2>1. c \in SpecifiedCr /\ c.phase = crs[inst[k].name].phase /\ c.finalizer = TRUE
      BY <1>2, <1>5, CrFinalized DEF SpecifiedCr, Cr
    <2>2. inst[k].cr.phase = "live"
      BY <1>5 DEF Seen, InstFits, CallFits
    <2>3. inst[k].fresh => Progress(crs[inst[k].name], c) /\ CallFits(k, "reportOK", c)
      BY <1>2, <2>1, <2>2 DEF Progress, CallFits, Unfinished
    <2> QED  BY <1>1, <1>5, <2>1, <2>3, UpdateAndSeen
  <1>6. CASE UpdateAnd(k, Absent, "reportOK")
    <2>1. Progress(crs[inst[k].name], Absent) /\ CallFits(k, "reportOK", Absent)
      BY AbsentMade DEF Progress, CallFits, Unfinished
    <2> QED  BY <1>1, <1>6, <2>1, AbsentMade, UpdateAndSeen
  <1> QED  BY <1>3, <1>4, <1>5, <1>6 DEF SetOwner, Finalizer, AddFinalizer, Release

LEMMA ClientSeen ==
    ASSUME Typed, Seen, NEW k \in Kinds, GetRestClient(k) \/ InitNewRestClient(k)
    PROVE  Seen'
  <1>1. pc[k] # "idle" /\ UNCHANGED kube
    BY DEF GetRestClient, InitNewRestClient
  <1>2. /\ FirstCall(k) \in {"create", "add", "rights"}
            \/ (k = "access" /\ FirstCall(k) \in {"parent", Deletion(k)})
    BY DEF FirstCall, AfterRights, Kinds
  <1>3. PICK p : /\ Goto(k, p)
                 /\ \/ p \in {"create", "add", "rights", "parent", "auth"}
                    \/ k = "access" /\ p = Deletion(k)
    BY <1>2 DEF GetRestClient, InitNewRestClient
  <1>4. CallFits(k, p, inst[k].cr)
    <2>1. pc[k] \notin Ends
      BY DEF GetRestClient, InitNewRestClient, Ends
    <2> QED  BY <1>3, <2>1, DeletionSeen DEF CallFits
  <1> QED  BY <1>1, <1>3, <1>4, CallSeen

\* A time that is computed for a member's next run is one to wait.
LEMMA TimesArePositive ==
    ASSUME NEW f \in Failures, NEW t \in RequeueTime(f)
    PROVE  t > 0
  <1>1. CASE SyncInterval > 0
    BY <1>1, SyncIntervalAssumption DEF RequeueTime
  <1>2. CASE ~(SyncInterval > 0)
    <2>1. t \in 1 .. MaxTimeOut
      BY <1>2, TimeoutRequeues, Zenon DEF RequeueTime
    <2> QED  BY <2>1
  <1> QED  BY <1>1, <1>2

LEMMA StatusKeepsFinalizer ==
    ASSUME NEW k \in Kinds, inst[k].cr \in SpecifiedCr
    PROVE  Status(k).finalizer = inst[k].cr.finalizer
  BY DEF Status, SpecifiedCr, Cr

\* The end of a run: an error leads to another one, and success was complete.
LEMMA ReportSeen ==
    ASSUME Typed, Seen, NEW k \in Kinds, ReportOK(k) \/ ReportError(k)
    PROVE  Seen'
  <1>1. /\ pc[k] \in {"reportOK", "reportError"} /\ pc[k] # "idle"
        /\ WriteStatus(k) /\ Stop(k)
    BY DEF ReportOK, ReportError
  <1>2. /\ inst[k].name \in Names /\ inst[k].cr \in SpecifiedCr
        /\ crs[inst[k].name] \in SpecifiedCr
        /\ inst[k].fresh => /\ crs[inst[k].name].phase = inst[k].cr.phase
                            /\ crs[inst[k].name].finalizer = inst[k].cr.finalizer
    BY <1>1, AtWork
  <1>3. /\ \A m \in Names : KubeStep(m)
        /\ \A o \in Names \ {inst[k].name} : crs'[o] = crs[o]
    <2>1. CASE Store(k, Status(k))
      <3>1. /\ Status(k) \in SpecifiedCr
            /\ Status(k).phase = inst[k].cr.phase
            /\ Status(k).finalizer = inst[k].cr.finalizer
        BY <1>2, CrStatus, StatusKeepsFinalizer DEF Typed
      <3>2. Progress(crs[inst[k].name], Status(k))
        BY <1>2, <2>1, <3>1 DEF Store, Progress
      <3> QED  BY <1>2, <2>1, <3>1, <3>2, StoreSeen DEF Store
    <2>2. CASE UNCHANGED kube
      BY <2>2, NothingStored DEF kube
    <2> QED  BY <1>1, <2>1, <2>2 DEF WriteStatus
  <1>4. /\ \A j \in Kinds \ {k} : pc'[j] = pc[j] /\ inst'[j] = inst[j]
        /\ pc'[k] = "idle" /\ inst'[k] = NoCopy
    BY <1>1 DEF Stop, Typed, WorkOK
  <1>5. InstFits(k)'
    BY <1>4, NoCopyMade DEF InstFits, CallFits
  <1>6. CASE ReportOK(k)
    <2>1. UNCHANGED queued /\ ~Unfinished(k, inst[k].cr)
      BY <1>6 DEF ReportOK, Seen, InstFits, CallFits
    <2> QED  BY <1>1, <1>3, <1>4, <1>5, <2>1, GoesOn
  <1>7. CASE ReportError(k)
    <2>1. queued' = queued \cup {inst[k].name}
      <3>1. CASE k # "member" /\ queued' = queued \cup {inst[k].name}
        BY <3>1
      <3>2. ASSUME NEW t \in RequeueTime(inst[k].cr.failures),
                   queued' = IF t > 0 THEN queued \cup {inst[k].name} ELSE queued
            PROVE  queued' = queued \cup {inst[k].name}
        <4>1. inst[k].cr.failures \in Failures
          BY <1>2 DEF SpecifiedCr, Cr
        <4>2. t > 0
          BY <3>2, <4>1, TimesArePositive
        <4> QED  BY <3>2, <4>2
      <3> QED  BY <1>7, <3>1, <3>2 DEF ReportError
    <2> QED  BY <1>1, <1>3, <1>4, <1>5, <2>1, GoesOn
  <1> QED  BY <1>6, <1>7

\* The requests: of a group the worker learns the id, the others leave its copy alone.
LEMMA GroupSeen ==
    ASSUME Typed, Seen, pc["group"] = "create", UNCHANGED <<crs, cache, pending, queued>>,
           pc' = [pc EXCEPT !["group"] = "reportOK"],
           inst' = [inst EXCEPT !["group"].cr.known = TRUE]
    PROVE  Seen'
  <1>0. "group" \in Kinds /\ pc["group"] # "idle" /\ "group" \notin {"member", "access"}
    BY DEF Kinds
  <1>1. inst["group"] \in SpecifiedCopy /\ inst["group"].cr \in SpecifiedCr
    BY <1>0, AtWork
  <1>2. /\ \A j \in Kinds \ {"group"} : pc'[j] = pc[j] /\ inst'[j] = inst[j]
        /\ pc'["group"] = "reportOK"
        /\ inst'["group"] = [inst["group"] EXCEPT !.cr = [inst["group"].cr EXCEPT !.known = TRUE]]
    BY <1>0, <1>1 DEF Typed, WorkOK, SpecifiedCopy
  <1>3. /\ [inst["group"].cr EXCEPT !.known = TRUE] \in SpecifiedCr
        /\ [inst["group"].cr EXCEPT !.known = TRUE].finalizer = inst["group"].cr.finalizer
    BY <1>1, CrKnown DEF SpecifiedCr, Cr
  <1>4. /\ inst'["group"].name = inst["group"].name
        /\ inst'["group"].fresh = inst["group"].fresh
        /\ inst'["group"].cr.finalizer = inst["group"].cr.finalizer
    BY <1>1, <1>2, <1>3, CopyRewritten
  <1>5. InstFits("group")'
    BY <1>0, <1>2, <1>4 DEF Seen, InstFits, CallFits, Unfinished
  <1>6. \A m \in Names : KubeStep(m)
    BY DEF KubeStep, LeftAlone
  <1>7. ~Unfinished("group", inst["group"].cr)
    BY DEF Unfinished
  <1> QED  BY <1>0, <1>2, <1>5, <1>6, <1>7, GoesOn

LEMMA RequestSeen ==
    ASSUME Typed, Seen,
           \/ CreateGroup \/ UpdateGroup \/ AddUserToGroup \/ DeleteUserFromGroup
           \/ SetAccessRights \/ SetProjectParent \/ DeleteAccessRights
    PROVE  Seen'
  <1>0. {"group", "member", "access"} \subseteq Kinds /\ UNCHANGED kube
    BY DEF Kinds, CreateGroup, UpdateGroup, AddUserToGroup, DeleteUserFromGroup,
           SetAccessRights, SetProjectParent, DeleteAccessRights
  <1>1. CASE /\ CreateGroup /\ pc' = [pc EXCEPT !["group"] = "reportOK"]
             /\ inst' = [inst EXCEPT !["group"].cr.known = TRUE] /\ UNCHANGED queued
    BY <1>0, <1>1, GroupSeen DEF CreateGroup, Request, kube
  <1>2. ASSUME NEW k \in Kinds, NEW p, pc[k] \in GerritCalls, Goto(k, p) \/ Fail(k),
               CallFits(k, p, inst[k].cr)
        PROVE  Seen'
    <2>1. pc[k] # "idle"
      BY <1>2 DEF GerritCalls
    <2> QED  BY <1>0, <1>2, <2>1, CallSeen, FailSeen
  <1>3. CASE CreateGroup \/ UpdateGroup
    <2>1. pc["group"] \in GerritCalls
      BY <1>3 DEF CreateGroup, UpdateGroup, Request, GerritCalls
    <2>2. \A p : p # "addFinalizer" => CallFits("group", p, inst["group"].cr)
      BY DEF CallFits, Unfinished
    <2>3. \/ pc' = [pc EXCEPT !["group"] = "reportOK"]
             /\ inst' = [inst EXCEPT !["group"].cr.known = TRUE] /\ UNCHANGED queued /\ CreateGroup
          \/ Goto("group", "update") \/ Goto("group", "reportOK") \/ Fail("group")
      BY <1>3, Zenon DEF CreateGroup, UpdateGroup, Then
    <2> QED  BY <1>0, <1>1, <1>2, <2>1, <2>2, <2>3
  <1>4. ASSUME NEW k \in {"member", "access"}, pc[k] \in {"add", "parent"}, Then(k, Deletion(k))
        PROVE  Seen'
    <2>1. k \in Kinds /\ pc[k] \notin Ends /\ pc[k] \in GerritCalls
      BY <1>0, <1>4 DEF Ends, GerritCalls
    <2> QED  BY <1>2, <1>4, <2>1, DeletionSeen DEF Then
  <1>5. ASSUME NEW k \in {"member", "access"}, pc[k] \in {"remove", "rights"},
               Then(k, "release") \/ Then(k, AfterRights(k))
        PROVE  Seen'
    <2>1. k \in Kinds /\ pc[k] \in GerritCalls /\ pc[k] \notin Ends
      BY <1>0, <1>5 DEF GerritCalls, Ends
    <2>2. CallFits(k, "release", inst[k].cr) /\ CallFits(k, AfterRights(k), inst[k].cr)
      BY <2>1, DeletionSeen DEF CallFits, AfterRights
    <2> QED  BY <1>2, <1>5, <2>1, <2>2 DEF Then
  <1>6. CASE AddUserToGroup \/ SetProjectParent
    BY <1>4, <1>6 DEF AddUserToGroup, SetProjectParent, Request
  <1>7. CASE DeleteUserFromGroup \/ SetAccessRights \/ DeleteAccessRights
    BY <1>5, <1>7 DEF DeleteUserFromGroup, SetAccessRights, DeleteAccessRights, Request
  <1> QED  BY <1>3, <1>6, <1>7

LEMMA CallFailsSeen ==
    ASSUME Typed, Seen, NEW k \in Kinds, CallFails(k)
    PROVE  Seen'
  <1>1. pc[k] # "idle" /\ Fail(k) /\ UNCHANGED kube
    BY DEF CallFails, GerritCalls
  <1> QED  BY <1>1, FailSeen

----------------------------------------------------------------------------
(* The steps around the workers. *)

\* The workers stay where they are, and a copy that remains current is of the CR as it was.
LEMMA AroundSeen ==
    ASSUME Seen, \A m \in Names : KubeStep(m), queued \subseteq queued', pc' = pc,
           \A k \in Kinds :
               /\ inst'[k].name = inst[k].name /\ inst'[k].cr = inst[k].cr
               /\ inst'[k].fresh => inst[k].fresh /\ crs'[inst[k].name] = crs[inst[k].name]
    PROVE  Seen'
  <1>1. ASSUME NEW n \in Names  PROVE CacheFollows(n)' /\ Remembered(n)'
    <2>1. CacheFollows(n) /\ Remembered(n) /\ KubeStep(n) /\ (n \in queued => n \in queued')
      BY <1>1 DEF Seen
    <2>2. /\ inst'[KindOf[n]].name = inst[KindOf[n]].name
          /\ inst'[KindOf[n]].cr = inst[KindOf[n]].cr
      BY <1>1, KindKnown
    <2> QED  BY <2>1, <2>2, CacheFollowsOn, RemembersOn
  <1>2. ASSUME NEW k \in Kinds  PROVE InstFits(k)'
    BY <1>2 DEF Seen, InstFits
  <1> QED  BY <1>1, <1>2 DEF Seen

LEMMA StutterSeen ==
    ASSUME Seen, UNCHANGED <<kube, work>>
    PROVE  Seen'
  <1>1. UNCHANGED kube /\ UNCHANGED <<crs, queued, pc, inst>>
    BY DEF kube, work
  <1> QED  BY <1>1, NothingStored, AroundSeen

\* Somebody else's write of the CR n.
LEMMA PeopleStoreSeen ==
    ASSUME Typed, Seen, NEW n \in Names, NEW c \in SpecifiedCr, PeopleStore(n, c),
           Progress(crs[n], c)
    PROVE  Seen'
  <1>1. /\ \A m \in Names : KubeStep(m)
        /\ \A m \in Names \ {n} : crs'[m] = crs[m]
        /\ UNCHANGED <<queued, pc>>
    BY StoreSeen DEF PeopleStore
  <1>2. ASSUME NEW k \in Kinds
        PROVE  /\ inst'[k].name = inst[k].name /\ inst'[k].cr = inst[k].cr
               /\ inst'[k].fresh => inst[k].fresh /\ crs'[inst[k].name] = crs[inst[k].name]
    <2>1. inst[k] \in SpecifiedCopy /\ WorkerOK(k)
      BY <1>2 DEF Typed, WorkOK
    <2>2. CASE inst[k].name = n
      <3>1. inst'[k] = [inst[k] EXCEPT !.fresh = FALSE]
        BY <1>2, <2>2 DEF PeopleStore
      <3> QED  BY <2>1, <3>1, CopyOutdated
    <2>3. CASE inst[k].name # n
      <3>1. inst'[k] = inst[k]
        BY <1>2, <2>3 DEF PeopleStore
      <3>2. inst[k].fresh => inst[k].name \in Names \ {n}
        BY <2>1, <2>3, NoCopyMade DEF WorkerOK
      <3> QED  BY <1>1, <3>1, <3>2
    <2> QED  BY <2>2, <2>3
  <1> QED  BY <1>1, <1>2, AroundSeen

LEMMA PeopleSeen ==
    ASSUME Typed, Seen, NEW n \in Names, CrEdited(n) \/ CrDeleted(n)
    PROVE  Seen'
  <1>0. crs[n] \in SpecifiedCr
    BY DEF Typed, KubeOK
  <1>1. CASE CrEdited(n)
    <2>1. PICK s \in Specs : PeopleStore(n, [crs[n] EXCEPT !.spec = s])
      BY <1>1 DEF CrEdited
    <2>2. /\ [crs[n] EXCEPT !.spec = s] \in SpecifiedCr
          /\ [crs[n] EXCEPT !.spec = s].phase = crs[n].phase
          /\ [crs[n] EXCEPT !.spec = s].finalizer = crs[n].finalizer
      BY <1>0, CrRespecified DEF SpecifiedCr, Cr
    <2> QED  BY <2>1, <2>2, PeopleStoreSeen DEF Progress
  <1>2. CASE CrDeleted(n)
    <2>1. crs[n].phase = "live"
      BY <1>2 DEF CrDeleted
    <2>2. PICK c \in {[crs[n] EXCEPT !.phase = "deleting"], Absent} : PeopleStore(n, c)
      BY <1>2 DEF CrDeleted
    <2>3. c \in SpecifiedCr /\ Progress(crs[n], c)
      BY <1>0, <2>1, AbsentMade, CrDeleting DEF Progress
    <2> QED  BY <2>2, <2>3, PeopleStoreSeen
  <1> QED  BY <1>1, <1>2

LEMMA CacheSyncSeen ==
    ASSUME Typed, Seen, NEW n \in Names, CacheSync(n)
    PROVE  Seen'
  <1>1. /\ ~cache[n].fresh
        /\ cache' = [cache EXCEPT ![n] = CopyOf(n, crs[n], TRUE)]
        /\ queued' = IF n \in pending \/ cache[n].cr.phase # crs[n].phase
                     THEN queued \cup {n} ELSE queued
        /\ UNCHANGED <<crs, pc, inst>>
    BY DEF CacheSync
  <1>2. Delivered(n)
    <2>1. cache'[n].cr = crs[n]
      BY <1>1 DEF Typed, KubeOK, CacheOK, CopyOf
    <2> QED  BY <1>1, <2>1 DEF Delivered, Noticed
  <1>3. ASSUME NEW m \in Names \ {n}  PROVE LeftAlone(m)
    BY <1>1 DEF Typed, KubeOK, CacheOK, LeftAlone
  <1>4. \A m \in Names : KubeStep(m)
    BY <1>2, <1>3 DEF KubeStep
  <1> QED  BY <1>1, <1>4, AroundSeen

\* The restarted operator queues every CR it finds.
LEMMA OperatorCrashSeen ==
    ASSUME OperatorCrash
    PROVE  Seen'
  <1>1. /\ UNCHANGED crs /\ queued' = {n \in Names : crs[n].phase # "absent"}
        /\ cache' = [n \in Names |-> CopyOf(n, crs[n], TRUE)]
        /\ pc' = [k \in Kinds |-> "idle"] /\ inst' = [k \in Kinds |-> NoCopy]
    BY DEF OperatorCrash
  <1>2. ASSUME NEW n \in Names  PROVE CacheFollows(n)' /\ Remembered(n)'
    <2>1. cache'[n].cr = crs[n]
      BY <1>1 DEF CopyOf
    <2>2. CacheFollows(n)'
      BY <1>1, <2>1 DEF CacheFollows
    <2>3. Remembered(n)'
      BY <1>1 DEF Remembered, Noticed, Unfinished
    <2> QED  BY <2>2, <2>3
  <1>3. ASSUME NEW k \in Kinds  PROVE InstFits(k)'
    <2>1. pc'[k] = "idle" /\ inst'[k] = NoCopy
      BY <1>1
    <2> QED  BY <2>1, NoCopyMade DEF InstFits, CallFits
  <1> QED  BY <1>2, <1>3 DEF Seen

LEMMA EnvironmentSeen ==
    ASSUME Typed, Seen, Environment
    PROVE  Seen'
  <1>1. CASE \/ CallsStopFailing \/ PeopleStop
             \/ \E g \in Gerrits : GerritChanges(g) \/ LifecycleInitsClient(g)
    <2>1. UNCHANGED <<kube, work>>
      BY <1>1 DEF CallsStopFailing, PeopleStop, GerritChanges, LifecycleInitsClient
    <2> QED  BY <2>1, StutterSeen
  <1> QED  BY <1>1, OperatorCrashSeen, CacheSyncSeen, PeopleSeen DEF Environment

\* The worker takes a CR off the queue and has its copy, unless the copy has nothing
\* left to do: then a watch event is due if the CR has.
LEMMA BeginSeen ==
    ASSUME Typed, Seen, NEW n \in Names, Begin(n)
    PROVE  Seen'
  <1> DEFINE k == KindOf[n]
  <1>0. k \in Kinds /\ CacheFollows(n)
    BY KindKnown DEF Seen
  <1>1. /\ pc[k] = "idle" /\ queued' = queued \ {n} /\ UNCHANGED <<crs, cache>>
        /\ cache[n] \in SpecifiedCopy /\ cache[n].name = n
        /\ cache[n].fresh => cache[n].cr = crs[n]
    BY DEF Begin, kube, Typed, KubeOK, CacheOK
  <1>2. inst[k] = NoCopy /\ inst[k].name = None
    BY <1>0, <1>1, NoCopyMade DEF Typed, WorkOK, WorkerOK
  <1>3. CASE cache[n].cr.phase = "absent"
    <2>1. pc' = pc /\ inst' = inst
      BY <1>3 DEF Begin
    <2>2. ASSUME NEW m \in Names  PROVE CacheFollows(m)' /\ Remembered(m)'
      <3>1. CacheFollows(m)'
        BY <1>1, <2>2 DEF Seen, CacheFollows
      <3>2. CASE m # n
        BY <1>1, <2>1, <2>2, <3>1, <3>2 DEF Seen, Remembered, Noticed, Unfinished
      <3>3. CASE m = n
        BY <1>0, <1>1, <1>3, <3>1, <3>3 DEF CacheFollows, Remembered, Noticed, Unfinished
      <3> QED  BY <3>2, <3>3
    <2>3. ASSUME NEW j \in Kinds  PROVE InstFits(j)'
      BY <1>1, <2>1, <2>3 DEF Seen, InstFits
    <2> QED  BY <2>2, <2>3 DEF Seen
  <1>4. CASE cache[n].cr.phase # "absent"
    <2>1. pc' = [pc EXCEPT ![k] = "owner"] /\ inst' = [inst EXCEPT ![k] = cache[n]]
      BY <1>4 DEF Begin
    <2>2. /\ pc'[k] = "owner" /\ inst'[k] = cache[n]
          /\ \A j \in Kinds \ {k} : pc'[j] = pc[j] /\ inst'[j] = inst[j]
      BY <1>0, <2>1 DEF Typed, WorkOK
    <2>3. cache[n].cr \in SpecifiedCr
      BY <1>1 DEF SpecifiedCopy
    <2>4. ASSUME NEW m \in Names  PROVE CacheFollows(m)' /\ Remembered(m)'
      <3>1. CacheFollows(m)'
        BY <1>1, <2>4 DEF Seen, CacheFollows
      <3>2. CASE m # n
        <4>1. Remembered(m) /\ KindOf[m] \in Kinds
          BY <2>4, KindKnown DEF Seen
        <4>2. Noticed(m) => Noticed(m)'
          BY <1>1, <3>2 DEF Noticed
        <4>3. inst[KindOf[m]].name = m => inst'[KindOf[m]] = inst[KindOf[m]]
          <5>1. inst[KindOf[m]].name = m => KindOf[m] # k
            BY <1>2, <2>4, NameAssumption
          <5> QED  BY <2>2, <4>1, <5>1
        <4>4. Remembered(m)'
          BY <1>1, <4>1, <4>2, <4>3 DEF Remembered, Unfinished
        <4> QED  BY <3>1, <4>4
      <3>3. CASE m = n /\ Unfinished(k, cache[n].cr)
        <4>1. Remembered(m)'
          BY <1>1, <2>2, <3>3 DEF Remembered, Unfinished
        <4> QED  BY <3>1, <4>1
      <3>4. CASE m = n /\ ~Unfinished(k, cache[n].cr) /\ Unfinished(k, crs[n])
        <4>1. cache[n].cr.phase = "live" /\ cache[n].cr.finalizer
          BY <1>4, <2>3, <3>4 DEF Unfinished, SpecifiedCr, Cr, Phases
        <4>2. ~cache[n].fresh
          BY <1>1, <3>4
        <4>3. cache[n].cr.phase # crs[n].phase
          BY <1>0, <3>4, <4>1 DEF CacheFollows, Unfinished
        <4>4. Remembered(m)'
          BY <1>1, <3>4, <4>2, <4>3 DEF Remembered, Noticed
        <4> QED  BY <3>1, <4>4
      <3>5. CASE m = n /\ ~Unfinished(k, crs[n])
        <4>1. Remembered(m)'
          BY <1>1, <3>5 DEF Remembered, Unfinished
        <4> QED  BY <3>1, <4>1
      <3> QED  BY <3>2, <3>3, <3>4, <3>5
    <2>5. InstFits(k)'
      BY <1>1, <2>2 DEF InstFits, CallFits
    <2>6. ASSUME NEW j \in Kinds \ {k}  PROVE InstFits(j)'
      BY <1>1, <2>2, <2>6 DEF Seen, InstFits
    <2> QED  BY <2>4, <2>5, <2>6 DEF Seen
  <1> QED  BY <1>3, <1>4

----------------------------------------------------------------------------
(* Nothing is forgotten. *)

LEMMA StartSeen == Init => Seen
  <1> SUFFICES ASSUME Init PROVE Seen
    OBVIOUS
  <1>1. ASSUME NEW n \in Names  PROVE CacheFollows(n) /\ Remembered(n)
    <2>1. cache[n].cr = crs[n] /\ (crs[n].phase # "absent" => n \in queued)
      BY <1>1 DEF Init, CopyOf
    <2>2. Unfinished(KindOf[n], crs[n]) => n \in queued
      BY <2>1 DEF Unfinished
    <2> QED  BY <2>1, <2>2 DEF CacheFollows, Remembered, Noticed
  <1>2. ASSUME NEW k \in Kinds  PROVE InstFits(k)
    <2>1. pc[k] = "idle" /\ inst[k] = NoCopy
      BY <1>2 DEF Init
    <2> QED  BY <2>1, NoCopyMade DEF InstFits, CallFits
  <1> QED  BY <1>1, <1>2 DEF Seen

LEMMA StepSeen == Typed /\ Seen /\ [Next]_vars => Seen'
  <1> SUFFICES ASSUME Typed, Seen, [Next]_vars PROVE Seen'
    OBVIOUS
  <1>0. {"group", "member", "access"} \subseteq Kinds
    BY DEF Kinds
  <1>1. ASSUME NEW k \in Kinds, Common(k) PROVE Seen'
    BY <1>1, WritesSeen, ClientSeen, ReportSeen, CallFailsSeen DEF Common
  <1>2. CASE GroupRun
    BY <1>0, <1>1, <1>2, RequestSeen DEF GroupRun
  <1>3. CASE MemberRun
    BY <1>0, <1>1, <1>3, RequestSeen, WritesSeen DEF MemberRun
  <1>4. CASE AccessRun
    BY <1>0, <1>1, <1>4, RequestSeen, WritesSeen DEF AccessRun
  <1>5. CASE Environment
    BY <1>5, EnvironmentSeen
  <1>6. CASE \E n \in Names : Begin(n)
    BY <1>6, BeginSeen
  <1>7. CASE UNCHANGED vars
    BY <1>7, StutterSeen DEF vars, kube, work
  <1> QED  BY <1>2, <1>3, <1>4, <1>5, <1>6, <1>7 DEF Next

\* The strengthened form of NothingForgotten: who notices a CR that needs another run
\* is the queue, a watch event that is due, or a worker whose copy has work left.
THEOREM SeenInvariance == Spec => [](Typed /\ Seen)
  <1>1. Init => Typed /\ Seen
    BY InitTyped, StartSeen
  <1>2. Typed /\ Seen /\ [Next]_vars => Typed' /\ Seen'
    BY StepTyped, StepSeen
  <1> QED  BY <1>1, <1>2, PTL DEF Spec

\* A member or access CR whose finalizer is still to be put on or taken off is in the
\* queue, about to be put there, or being worked on, whoever writes it in whatever order
\* and however many workers share the REST client.
THEOREM NoWakeUpLost == Spec => []NothingForgotten
  <1>1. Seen => NothingForgotten
    BY DEF Seen, Remembered, NothingForgotten
  <1> QED  BY <1>1, SeenInvariance, PTL

=============================================================================
