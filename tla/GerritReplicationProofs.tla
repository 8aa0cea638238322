----------------------- MODULE GerritReplicationProofs -----------------------
(* What holds of GerritReplication for every value of its constants. *)
EXTENDS GerritReplication, TLAPS

----------------------------------------------------------------------------
(* The records the state is made of. *)

Copies == [cr : Cr, fresh : BOOLEAN]

LEMMA CopyMade ==
    ASSUME NEW c \in Cr, NEW b \in BOOLEAN
    PROVE  CopyOf(c, b) \in Copies /\ CopyOf(c, b).cr = c /\ CopyOf(c, b).fresh = b
  BY DEF Copies, CopyOf

LEMMA CopyParts ==
    ASSUME NEW i \in Copies
    PROVE  i.cr \in Cr /\ i.fresh \in BOOLEAN /\ i.cr.status \in Statuses
  BY DEF Copies, Cr

\* What becomes of a copy when another writes the CR.
LEMMA Outdated ==
    ASSUME NEW i \in Copies
    PROVE  /\ [i EXCEPT !.fresh = FALSE] \in Copies
           /\ [i EXCEPT !.fresh = FALSE].cr = i.cr
           /\ ~[i EXCEPT !.fresh = FALSE].fresh
  BY DEF Copies

LEMMA NoInstType == NoInst \in Copies /\ ~NoInst.fresh
  <1>1. NewCr("") \in Cr
    BY DEF NewCr, Cr, Statuses
  <1> QED  BY <1>1, CopyMade DEF NoInst

----------------------------------------------------------------------------
(* The inductive invariant. *)

\* A copy of the current version has the CR's status.  The handler's may have one
\* of its own while the CR has none: an Update has covered up the failed write.
Agrees(copy) == copy.fresh => cr.status \in {"", copy.cr.status}

\* A configuration starts from a copy that says that none has.
StartsUnconfigured == pc = "configuring" => inst.cr.status \in {"", "failed"}

Started == {"configuring", "configured"}

\* The status says so before the remote is appended, and ever after.
StartedOnce ==
    "configuring" \notin hidden =>
        /\ remotes > 0 => cr.status \in Started
        /\ pc \in {"pods", "key", "remote"} => remotes = 0 /\ cr.status \in Started
        /\ remotes <= 1

IInv == TypeOK /\ Agrees(cache) /\ Agrees(inst) /\ StartsUnconfigured /\ StartedOnce

\* What the invariant says of the state's types, in the form the steps use it.
LEMMA Types ==
    ASSUME TypeOK
    PROVE  /\ cr \in Cr /\ cache \in Copies /\ inst \in Copies
           /\ cr.status \in Statuses /\ remotes \in Nat
  BY DEF TypeOK, Copies, Cr

LEMMA InitInv == ASSUME Init PROVE IInv
  <1>1. NewCr("") \in Cr /\ NewCr("failed") \in Cr
    BY DEF NewCr, Cr, Statuses
  <1>2. cr \in Cr /\ cache \in Copies /\ cache.cr = cr
    BY <1>1, CopyMade DEF Init
  <1>3. inst \in Copies /\ ~inst.fresh
    BY NoInstType DEF Init
  <1>4. TypeOK
    BY <1>2, <1>3 DEF Init, TypeOK, Copies, ControlPoints
  <1>5. Agrees(cache) /\ Agrees(inst)
    BY <1>2, <1>3 DEF Agrees
  <1>6. pc = "idle" /\ remotes = 0
    BY DEF Init
  <1>7. StartsUnconfigured /\ StartedOnce
    BY <1>6 DEF StartsUnconfigured, StartedOnce
  <1> QED  BY <1>4, <1>5, <1>7 DEF IInv

----------------------------------------------------------------------------
(* The writes of the status. *)

Writes == {"configuring", "configured", "available"}

LEMMA WantedParts ==
    ASSUME inst \in Copies, NEW w \in Writes
    PROVE  /\ Wanted(w) \in Cr
           /\ Wanted(w).status = IF w = "available" THEN inst.cr.status ELSE w
  <1>1. inst.cr \in Cr
    BY CopyParts
  <1>2. CASE w = "available"
    <2>1. [inst.cr EXCEPT !.available = TRUE] \in Cr
          /\ [inst.cr EXCEPT !.available = TRUE].status = inst.cr.status
      BY <1>1 DEF Cr
    <2> QED  BY <1>2, <2>1 DEF Wanted
  <1>3. CASE w # "available"
    <2>1. w \in Statuses
      BY <1>3 DEF Writes, Statuses
    <2>2. [inst.cr EXCEPT !.status = w] \in Cr /\ [inst.cr EXCEPT !.status = w].status = w
      BY <1>1, <2>1 DEF Cr
    <2> QED  BY <1>3, <2>2 DEF Wanted
  <1> QED  BY <1>2, <1>3

LEMMA RoundTripParts ==
    ASSUME cr \in Cr, NEW c \in Cr
    PROVE  RoundTrip(c) \in Cr /\ cr.status \in {"", RoundTrip(c).status}
  BY DEF RoundTrip, Cr

\* The three ways a write of the status ends, whatever is written.
LEMMA WriteEnds ==
    ASSUME IInv, NEW w \in Writes, NEW next \in ControlPoints, WriteStatus(w, next)
    PROVE  /\ cr' \in Cr /\ cache' \in Copies /\ inst' \in Copies
           /\ pc' \in {"idle", next} /\ queued' \in BOOLEAN /\ edited' = edited
           /\ hidden' \in {hidden, hidden \cup {w}}
           /\ Agrees(cache)' /\ Agrees(inst)'
           /\ \/ pc' = "idle" /\ cr' = cr
              \/ w \in hidden' /\ cr' = cr
              \/ inst.fresh /\ cr'.status = IF w = "available" THEN inst.cr.status ELSE w
  <1>0. /\ TypeOK /\ Agrees(cache) /\ cr \in Cr /\ cache \in Copies /\ inst \in Copies
        /\ queued \in BOOLEAN
    BY Types DEF IInv, TypeOK
  <1>1. Wanted(w) \in Cr
    BY <1>0, WantedParts
  <1>2. CASE /\ Store(Wanted(w))
             /\ \/ pc' = next /\ inst' = CopyOf(Wanted(w), TRUE) /\ UNCHANGED queued
                \/ Trouble /\ Return(TRUE)
             /\ UNCHANGED <<edited, hidden>>
    <2>1. inst.fresh /\ cr' = Wanted(w) /\ cache' \in Copies /\ ~cache'.fresh
      BY <1>0, <1>2, Outdated DEF Store
    <2>2. /\ inst' \in Copies /\ pc' \in {"idle", next} /\ queued' \in BOOLEAN
          /\ inst'.fresh => inst'.cr = Wanted(w)
      BY <1>0, <1>1, <1>2, CopyMade, NoInstType DEF Return
    <2>3. cr'.status = IF w = "available" THEN inst.cr.status ELSE w
      BY <1>0, <2>1, WantedParts
    <2> QED  BY <1>1, <1>2, <2>1, <2>2, <2>3 DEF Agrees
  <1>3. CASE (Trouble \/ ~inst.fresh) /\ Return(TRUE) /\ UNCHANGED <<kube, hidden>>
    <2>1. /\ cr' = cr /\ cache' = cache /\ edited' = edited /\ hidden' = hidden
          /\ pc' = "idle" /\ inst' \in Copies /\ ~inst'.fresh /\ queued' \in BOOLEAN
      BY <1>0, <1>3, NoInstType DEF Return, kube
    <2> QED  BY <1>0, <2>1 DEF Agrees
  <1>4. CASE /\ Trouble /\ inst.fresh
             /\ inst' = CopyOf(RoundTrip(Wanted(w)), TRUE)
             /\ pc' = next
             /\ hidden' = hidden \cup {w}
             /\ UNCHANGED <<kube, queued>>
    <2>1. inst' \in Copies /\ inst'.cr = RoundTrip(Wanted(w))
      BY <1>0, <1>1, <1>4, CopyMade, RoundTripParts
    <2>2. cr.status \in {"", inst'.cr.status}
      BY <1>0, <1>1, <2>1, RoundTripParts
    <2>3. cr' = cr /\ cache' = cache /\ edited' = edited /\ queued' = queued
      BY <1>4 DEF kube
    <2> QED  BY <1>0, <1>4, <2>1, <2>2, <2>3 DEF Agrees
  <1> QED  BY <1>2, <1>3, <1>4 DEF WriteStatus

LEMMA WriteTypes ==
    ASSUME IInv, NEW w \in Writes, NEW next \in ControlPoints, WriteStatus(w, next),
           UNCHANGED <<gerrit, pod, calm>>
    PROVE  TypeOK'
  <1>1. hidden' \subseteq Writes \cup {"gerrit"}
    BY WriteEnds DEF IInv, TypeOK, Writes
  <1> QED  BY <1>1, WriteEnds DEF IInv, TypeOK, Copies, ControlPoints, Writes, pod

\* The first write: accepted only over a status that says that nothing was
\* started, and so before any remote was appended.
LEMMA MarkConfiguringKeeps == ASSUME IInv, MarkConfiguring PROVE IInv'
  <1> DEFINE W == "configuring"
  <1>1. /\ pc = W /\ WriteStatus(W, "pods") /\ UNCHANGED <<gerrit, pod, calm>>
        /\ W \in Writes /\ "pods" \in ControlPoints
    BY DEF MarkConfiguring, Writes, ControlPoints
  <1>2. TypeOK' /\ Agrees(cache)' /\ Agrees(inst)'
    BY <1>1, WriteEnds, WriteTypes
  <1>3. /\ pc' \in {"idle", "pods"} /\ hidden \subseteq hidden' /\ remotes' = remotes
        /\ \/ pc' = "idle" /\ cr' = cr
           \/ W \in hidden' /\ cr' = cr
           \/ inst.fresh /\ cr'.status = W
    BY <1>1, WriteEnds DEF pod
  <1>4. StartsUnconfigured'
    BY <1>3 DEF StartsUnconfigured
  <1>5. inst.fresh => cr.status \notin Started
    BY <1>1 DEF IInv, StartsUnconfigured, Agrees, Started
  <1>6. StartedOnce'
    <2>1. SUFFICES ASSUME W \notin hidden' PROVE StartedOnce'
      BY DEF StartedOnce
    <2>2. W \notin hidden /\ remotes \in Nat
      BY <1>3, <2>1, Types DEF IInv
    <2>3. CASE pc' = "idle" /\ cr' = cr
      BY <1>3, <2>2, <2>3 DEF IInv, StartedOnce
    <2>4. CASE inst.fresh /\ cr'.status = W
      <3>1. remotes = 0
        BY <1>5, <2>2, <2>4 DEF IInv, StartedOnce
      <3> QED  BY <1>3, <2>4, <3>1 DEF StartedOnce, Started
    <2> QED  BY <1>3, <2>1, <2>3, <2>4
  <1> QED  BY <1>2, <1>4, <1>6 DEF IInv

\* The later writes keep a status that says that a configuration was started.
LEMMA LaterWritesKeep == ASSUME IInv, MarkConfigured \/ MarkAvailable PROVE IInv'
  <1>1. PICK w \in {"configured", "available"} : WriteStatus(w, "available")
    BY DEF MarkConfigured, MarkAvailable
  <1>2. w \in Writes /\ "available" \in ControlPoints /\ UNCHANGED <<gerrit, pod, calm>>
    BY <1>1 DEF Writes, ControlPoints, MarkConfigured, MarkAvailable
  <1>3. TypeOK' /\ Agrees(cache)' /\ Agrees(inst)'
    BY <1>1, <1>2, WriteEnds, WriteTypes
  <1>4. /\ pc' \in {"idle", "available"} /\ remotes' = remotes
        /\ "configuring" \in hidden => "configuring" \in hidden'
        /\ "configuring" \in hidden' => "configuring" \in hidden
        /\ \/ cr' = cr
           \/ inst.fresh /\ cr'.status = IF w = "available" THEN inst.cr.status ELSE w
    BY <1>1, <1>2, WriteEnds DEF pod
  <1>5. cr.status \in Started => cr'.status \in Started
    BY <1>1, <1>4 DEF IInv, Agrees, Started
  <1>6. StartsUnconfigured' /\ StartedOnce'
    BY <1>4, <1>5 DEF IInv, StartsUnconfigured, StartedOnce
  <1> QED  BY <1>3, <1>6 DEF IInv

----------------------------------------------------------------------------
(* The other calls of the handler. *)

LEMMA BeginKeeps == ASSUME IInv, Begin PROVE IInv'
  <1>1. /\ UNCHANGED <<cr, cache, edited, gerrit, key, remotes, hosts, loaded, hidden, calm>>
        /\ queued' = FALSE
        /\ \/ UNCHANGED <<pc, inst>>
           \/ inst' = cache /\ pc' \in {"gerrit", "owner"}
    BY DEF Begin, kube, pod
  <1>2. TypeOK'
    BY <1>1 DEF IInv, TypeOK, ControlPoints
  <1>3. Agrees(cache)' /\ Agrees(inst)'
    BY <1>1 DEF IInv, Agrees
  <1>4. StartsUnconfigured' /\ StartedOnce'
    BY <1>1 DEF IInv, StartsUnconfigured, StartedOnce
  <1> QED  BY <1>2, <1>3, <1>4 DEF IInv

LEMMA SetOwnerKeeps == ASSUME IInv, SetOwner PROVE IInv'
  <1>0. cr \in Cr /\ cache \in Copies /\ inst \in Copies
    BY Types DEF IInv
  <1>1. UNCHANGED <<gerrit, key, remotes, hosts, loaded, hidden, calm>>
    BY DEF SetOwner, pod
  <1>2. CASE ~inst.fresh /\ Return(TRUE) /\ UNCHANGED kube
    <2>1. /\ UNCHANGED <<cr, cache, edited>> /\ queued' = TRUE
          /\ pc' = "idle" /\ inst' \in Copies /\ ~inst'.fresh
      BY <1>2, NoInstType DEF Return, kube
    <2>2. TypeOK'
      BY <1>1, <2>1 DEF IInv, TypeOK, ControlPoints, Copies
    <2> QED  BY <1>1, <2>1, <2>2 DEF IInv, Agrees, StartsUnconfigured, StartedOnce
  <1>3. CASE /\ Store([cr EXCEPT !.owned = TRUE])
             /\ edited' = TRUE
             /\ \/ pc' = "gerrit" /\ inst' = CopyOf([cr EXCEPT !.owned = TRUE], TRUE)
                   /\ UNCHANGED queued
                \/ Trouble /\ Return(TRUE)
    <2>1. [cr EXCEPT !.owned = TRUE] \in Cr /\ [cr EXCEPT !.owned = TRUE].status = cr.status
      BY <1>0 DEF Cr
    <2>2. cr' \in Cr /\ cr'.status = cr.status /\ cr' = [cr EXCEPT !.owned = TRUE]
      BY <1>3, <2>1 DEF Store
    <2>3. cache' \in Copies /\ ~cache'.fresh
      BY <1>0, <1>3, Outdated DEF Store
    <2>4. /\ inst' \in Copies /\ pc' \in {"idle", "gerrit"}
          /\ inst'.fresh => inst'.cr = cr'
          /\ queued' \in {queued, TRUE}
      BY <1>3, <2>1, <2>2, CopyMade, NoInstType DEF Return
    <2>5. TypeOK'
      BY <1>1, <1>3, <2>2, <2>3, <2>4 DEF IInv, TypeOK, ControlPoints, Copies
    <2>6. Agrees(cache)' /\ Agrees(inst)'
      BY <2>3, <2>4 DEF Agrees
    <2>7. StartsUnconfigured' /\ StartedOnce'
      BY <1>1, <2>2, <2>4 DEF IInv, StartsUnconfigured, StartedOnce
    <2> QED  BY <2>5, <2>6, <2>7 DEF IInv
  <1> QED  BY <1>2, <1>3 DEF SetOwner

\* Calls that leave the CR and the plugin's file alone.
LEMMA CallsKeep ==
    ASSUME IInv,
           GetInstanceOwner \/ GetConfigurationArgs \/ SaveSshReplicationKey
             \/ UpdateSshConfig \/ ReloadReplicationPlugin \/ Finish \/ CallFails
    PROVE  IInv'
  <1>1. UNCHANGED <<cr, cache, edited, gerrit, remotes, hidden, calm>>
    BY DEF GetInstanceOwner, GetConfigurationArgs, SaveSshReplicationKey,
           UpdateSshConfig, ReloadReplicationPlugin, Finish, CallFails, kube, pod
  <1>2. key' \in BOOLEAN /\ loaded' \in BOOLEAN /\ hosts' \in Nat
    <2>1. key \in BOOLEAN /\ loaded \in BOOLEAN /\ hosts \in Nat
      BY DEF IInv, TypeOK
    <2>2. CASE SaveSshReplicationKey
      BY <2>1, <2>2 DEF SaveSshReplicationKey
    <2>3. CASE UpdateSshConfig
      BY <2>1, <2>3 DEF UpdateSshConfig
    <2>4. CASE ReloadReplicationPlugin
      BY <2>1, <2>4 DEF ReloadReplicationPlugin
    <2>5. CASE GetInstanceOwner \/ GetConfigurationArgs \/ Finish \/ CallFails
      BY <2>1, <2>5 DEF GetInstanceOwner, GetConfigurationArgs, Finish, CallFails, pod
    <2> QED  BY <2>2, <2>3, <2>4, <2>5
  <1>3. queued' \in BOOLEAN
    BY DEF GetInstanceOwner, GetConfigurationArgs, SaveSshReplicationKey,
           UpdateSshConfig, ReloadReplicationPlugin, Finish, CallFails,
           Then, Goto, Return, IInv, TypeOK
  <1>4. /\ inst' = inst \/ inst' = NoInst
        /\ pc' \in ControlPoints
    BY DEF GetInstanceOwner, GetConfigurationArgs, SaveSshReplicationKey,
           UpdateSshConfig, ReloadReplicationPlugin, Finish, CallFails,
           Then, Goto, Return, Afterwards, ControlPoints
  <1>5. /\ pc' = "configuring" => inst' = inst /\ inst.cr.status \in {"", "failed"}
        /\ pc' \in {"pods", "key", "remote"} => pc \in {"pods", "key"}
    BY DEF GetInstanceOwner, GetConfigurationArgs, SaveSshReplicationKey,
           UpdateSshConfig, ReloadReplicationPlugin, Finish, CallFails,
           Then, Goto, Return, Afterwards
  <1>6. inst' \in Copies
    BY <1>4, NoInstType, Types DEF IInv
  <1>7. TypeOK'
    BY <1>1, <1>2, <1>3, <1>4, <1>6 DEF IInv, TypeOK, Copies
  <1>8. Agrees(cache)' /\ Agrees(inst)'
    BY <1>1, <1>4, NoInstType DEF IInv, Agrees
  <1>9. StartsUnconfigured' /\ StartedOnce'
    BY <1>1, <1>5 DEF IInv, StartsUnconfigured, StartedOnce
  <1> QED  BY <1>7, <1>8, <1>9 DEF IInv

LEMMA UpdateReplicationConfigKeeps ==
    ASSUME IInv, UpdateReplicationConfig PROVE IInv'
  <1>1. /\ UNCHANGED <<cr, cache, edited, gerrit, key, hosts, loaded, hidden, calm>>
        /\ pc = "remote" /\ remotes' = remotes + 1
        /\ pc' \in {"host", "idle"}
        /\ inst' = inst \/ inst' = NoInst
    BY DEF UpdateReplicationConfig, Then, Goto, Return, kube
  <1>2. inst' \in Copies
    BY <1>1, NoInstType, Types DEF IInv
  <1>3. remotes \in Nat /\ remotes' \in Nat
    BY <1>1, Types DEF IInv
  <1>4. queued' \in BOOLEAN
    BY DEF UpdateReplicationConfig, Then, Goto, Return, IInv, TypeOK
  <1>5. TypeOK'
    <2>1. pc' \in ControlPoints
      BY <1>1 DEF ControlPoints
    <2> QED  BY <1>1, <1>2, <1>3, <1>4, <2>1 DEF IInv, TypeOK, Copies
  <1>6. Agrees(cache)' /\ Agrees(inst)'
    BY <1>1, NoInstType DEF IInv, Agrees
  <1>7. StartsUnconfigured'
    BY <1>1 DEF StartsUnconfigured
  <1>8. StartedOnce'
    <2>1. "configuring" \notin hidden => remotes = 0 /\ cr.status \in Started
      BY <1>1 DEF IInv, StartedOnce
    <2> QED  BY <1>1, <1>3, <2>1 DEF StartedOnce
  <1> QED  BY <1>5, <1>6, <1>7, <1>8 DEF IInv

----------------------------------------------------------------------------
(* The environment. *)

LEMMA CrashKeeps == ASSUME IInv, OperatorCrash PROVE IInv'
  <1>1. /\ UNCHANGED <<cr, gerrit, key, remotes, hosts, loaded, hidden, calm>>
        /\ pc' = "idle" /\ queued' = TRUE /\ edited' = FALSE /\ inst' = NoInst
        /\ cache' = CopyOf(cr, TRUE)
    BY DEF OperatorCrash, pod
  <1>2. cache' \in Copies /\ cache'.cr = cr /\ inst' \in Copies /\ ~inst'.fresh
    BY <1>1, CopyMade, NoInstType, Types DEF IInv
  <1>3. TypeOK'
    BY <1>1, <1>2 DEF IInv, TypeOK, Copies, ControlPoints
  <1>4. Agrees(cache)' /\ Agrees(inst)'
    BY <1>1, <1>2 DEF Agrees
  <1>5. StartsUnconfigured' /\ StartedOnce'
    BY <1>1 DEF IInv, StartsUnconfigured, StartedOnce
  <1> QED  BY <1>3, <1>4, <1>5 DEF IInv

LEMMA CacheSyncKeeps == ASSUME IInv, CacheSync PROVE IInv'
  <1>1. /\ UNCHANGED <<cr, pc, inst, gerrit, key, remotes, hosts, loaded, hidden, calm>>
        /\ queued' \in {queued, edited, TRUE} /\ edited' = FALSE
        /\ cache' = CopyOf(cr, TRUE)
    BY DEF CacheSync, pod, IInv, TypeOK
  <1>2. cache' \in Copies /\ cache'.cr = cr
    BY <1>1, CopyMade, Types DEF IInv
  <1>3. TypeOK'
    BY <1>1, <1>2 DEF IInv, TypeOK, Copies
  <1>4. Agrees(cache)' /\ Agrees(inst)'
    BY <1>1, <1>2 DEF IInv, Agrees
  <1>5. StartsUnconfigured' /\ StartedOnce'
    BY <1>1 DEF IInv, StartsUnconfigured, StartedOnce
  <1> QED  BY <1>3, <1>4, <1>5 DEF IInv

\* Another's write makes every copy an old one and leaves the status alone.
LEMMA WrittenKeeps == ASSUME IInv, CrEdited \/ CrDeleted \/ Collected PROVE IInv'
  <1>0. cr \in Cr /\ cache \in Copies /\ inst \in Copies
    BY Types DEF IInv
  <1>1. PICK c \in {cr, [cr EXCEPT !.live = FALSE]} : Written(c)
    BY Zenon DEF CrEdited, CrDeleted, Collected
  <1>2. c \in Cr /\ c.status = cr.status
    BY <1>0 DEF Cr
  <1>3. /\ cr' \in Cr /\ cr'.status = cr.status
        /\ UNCHANGED <<queued, pc, key, remotes, hosts, loaded, hidden, calm>>
    BY <1>1, <1>2 DEF Written, pod
  <1>4. /\ cache' \in Copies /\ ~cache'.fresh /\ inst' \in Copies /\ ~inst'.fresh
        /\ inst'.cr = inst.cr
    BY <1>0, <1>1, Outdated DEF Written
  <1>5. edited' \in {edited, TRUE} /\ gerrit' = gerrit
    BY DEF CrEdited, CrDeleted, Collected
  <1>6. TypeOK'
    BY <1>3, <1>4, <1>5 DEF IInv, TypeOK, Copies
  <1>7. Agrees(cache)' /\ Agrees(inst)'
    BY <1>4 DEF Agrees
  <1>8. StartsUnconfigured' /\ StartedOnce'
    BY <1>3, <1>4 DEF IInv, StartsUnconfigured, StartedOnce
  <1> QED  BY <1>6, <1>7, <1>8 DEF IInv

LEMMA QuietKeeps ==
    ASSUME IInv,
           Resync \/ GerritReady \/ GerritDeleted \/ GerritRestarts \/ CallsStopFailing
             \/ UNCHANGED vars
    PROVE  IInv'
  <1>1. UNCHANGED <<cr, cache, edited, pc, inst, key, remotes, hosts, hidden>>
    BY DEF Resync, GerritReady, GerritDeleted, GerritRestarts, CallsStopFailing,
           vars, kube, local, pod
  <1>2. TypeOK'
    <2>1. TypeOK
      BY DEF IInv
    <2>2. CASE Resync
      BY <1>1, <2>1, <2>2 DEF Resync, TypeOK, pod
    <2>3. CASE GerritReady \/ GerritDeleted
      BY <1>1, <2>1, <2>3 DEF GerritReady, GerritDeleted, TypeOK, local, pod
    <2>4. CASE GerritRestarts
      BY <1>1, <2>1, <2>4 DEF GerritRestarts, TypeOK, local
    <2>5. CASE CallsStopFailing
      BY <1>1, <2>1, <2>5 DEF CallsStopFailing, TypeOK, local, pod
    <2>6. CASE UNCHANGED vars
      BY <2>1, <2>6 DEF TypeOK, vars
    <2> QED  BY <2>2, <2>3, <2>4, <2>5, <2>6
  <1>3. /\ Agrees(cache)' /\ Agrees(inst)' /\ StartsUnconfigured' /\ StartedOnce'
    BY <1>1 DEF IInv, Agrees, StartsUnconfigured, StartedOnce
  <1> QED  BY <1>2, <1>3 DEF IInv

\* Gerrit's status may go back at any time: that is in hidden from then on.
LEMMA TakenBackKeeps == ASSUME IInv, GerritTakenBack PROVE IInv'
  <1>1. /\ UNCHANGED <<cr, cache, edited, queued, pc, inst, key, remotes, hosts, loaded, calm>>
        /\ gerrit' = "installing" /\ hidden' = hidden \cup {"gerrit"}
    BY DEF GerritTakenBack, kube, local, pod
  <1>2. TypeOK'
    BY <1>1 DEF IInv, TypeOK
  <1>3. "configuring" \in hidden' <=> "configuring" \in hidden
    BY <1>1
  <1>4. Agrees(cache)' /\ Agrees(inst)' /\ StartsUnconfigured' /\ StartedOnce'
    BY <1>1, <1>3 DEF IInv, Agrees, StartsUnconfigured, StartedOnce
  <1> QED  BY <1>2, <1>4 DEF IInv

----------------------------------------------------------------------------
(* Theorems. *)

LEMMA NextKeeps == ASSUME IInv, [Next]_vars PROVE IInv'
  <1>1. CASE Reconcile
    BY <1>1, BeginKeeps, SetOwnerKeeps, CallsKeep, MarkConfiguringKeeps,
       LaterWritesKeep, UpdateReplicationConfigKeeps DEF Reconcile
  <1>2. CASE Environment
    BY <1>2, CrashKeeps, CacheSyncKeeps, WrittenKeeps, TakenBackKeeps, QuietKeeps
       DEF Environment
  <1>3. CASE UNCHANGED vars
    BY <1>3, QuietKeeps
  <1> QED  BY <1>1, <1>2, <1>3 DEF Next

\* The inductive invariant of the replication configuration's controller.
THEOREM Invariance == Spec => []IInv
  <1>1. Init => IInv
    BY InitInv
  <1>2. IInv /\ [Next]_vars => IInv'
    BY NextKeeps
  <1> QED  BY <1>1, <1>2, PTL DEF Spec

\* Every variable of the replication configuration's controller keeps its type.
THEOREM TypeCorrect == Spec => []TypeOK
  <1>1. IInv => TypeOK
    BY DEF IInv
  <1> QED  BY <1>1, Invariance, PTL

\* Retries, restarts and runs on old copies do not append the remote again: only
\* a status write that failed and was taken for a success can make them.
THEOREM RemoteAppendedOnce == Spec => []AppendedOnce
  <1>1. IInv => AppendedOnce
    BY Types DEF IInv, StartedOnce, AppendedOnce
  <1> QED  BY <1>1, Invariance, PTL

\* The writes of the status keep "configured" even when the handler holds
\* something else, because the API server refuses those made on old copies.
LEMMA ConfiguredStays ==
    ASSUME IInv, [Next]_vars, cr.status = "configured" PROVE cr'.status = "configured"
  <1>0. cr \in Cr /\ inst \in Copies
    BY Types DEF IInv
  <1>1. CASE MarkConfiguring
    <2>1. /\ pc = "configuring" /\ WriteStatus("configuring", "pods")
          /\ "configuring" \in Writes /\ "pods" \in ControlPoints
      BY <1>1 DEF MarkConfiguring, Writes, ControlPoints
    <2>2. cr' = cr \/ inst.fresh
      BY <2>1, WriteEnds
    <2>3. ~inst.fresh
      BY <2>1 DEF IInv, StartsUnconfigured, Agrees
    <2> QED  BY <2>2, <2>3
  <1>2. CASE MarkConfigured \/ MarkAvailable
    <2>1. PICK w \in {"configured", "available"} : WriteStatus(w, "available")
      BY <1>2 DEF MarkConfigured, MarkAvailable
    <2>2. \/ cr' = cr
          \/ inst.fresh /\ cr'.status = IF w = "available" THEN inst.cr.status ELSE w
      BY <2>1, WriteEnds DEF Writes, ControlPoints
    <2> QED  BY <2>1, <2>2 DEF IInv, Agrees
  <1>3. CASE SetOwner
    <2>1. cr' = cr \/ cr' = [cr EXCEPT !.owned = TRUE]
      BY <1>3, Zenon DEF SetOwner, Store, kube
    <2> QED  BY <1>0, <2>1 DEF Cr
  <1>4. CASE CrEdited \/ CrDeleted \/ Collected
    <2>1. cr' = cr \/ cr' = [cr EXCEPT !.live = FALSE]
      BY <1>4, Zenon DEF CrEdited, CrDeleted, Collected, Written
    <2> QED  BY <1>0, <2>1 DEF Cr
  <1>5. CASE Begin \/ GetInstanceOwner \/ GetConfigurationArgs \/ SaveSshReplicationKey
             \/ UpdateReplicationConfig \/ UpdateSshConfig \/ ReloadReplicationPlugin
             \/ Finish \/ CallFails \/ OperatorCrash \/ CacheSync \/ Resync
             \/ GerritReady \/ GerritTakenBack \/ GerritDeleted \/ GerritRestarts
             \/ CallsStopFailing \/ UNCHANGED vars
    BY <1>5 DEF Begin, GetInstanceOwner, GetConfigurationArgs, SaveSshReplicationKey,
       UpdateReplicationConfig, UpdateSshConfig, ReloadReplicationPlugin, Finish, CallFails,
       OperatorCrash, CacheSync, Resync, GerritReady, GerritTakenBack, GerritDeleted,
       GerritRestarts, CallsStopFailing, kube, vars
  <1> QED  BY <1>1, <1>2, <1>3, <1>4, <1>5 DEF Next, Reconcile, Environment

\* A configuration that is reported done is never taken back or repeated.
THEOREM ConfiguredKept == Spec => ConfiguredIsFinal
  <1>1. IInv /\ [Next]_vars => [cr.status = "configured" => cr'.status = "configured"]_vars
    BY ConfiguredStays
  <1> QED  BY <1>1, Invariance, PTL DEF Spec, ConfiguredIsFinal

----------------------------------------------------------------------------
(* The queue, as long as no failed write has been covered up. *)

\* The handler and the cache do not know of more than the CR says.
NotAhead(copy) ==
    /\ copy.cr.available => cr.available
    /\ copy.cr.status \in Started => cr.status \in Started
    /\ copy.cr.status = "configured" => cr.status = "configured"

\* The calls between the first write of the status and the next.
Configuring == {"pods", "key", "remote", "host", "reload"}

\* A run ends well only if it has found, or written, the last status; one on an
\* old copy that has no status yet finds out at the first write.
RunKnows ==
    /\ pc = "configuring" => gerrit # "installing"
    /\ pc \in Configuring \cup {"configured"} => inst.cr.status = "configuring"
    /\ pc = "available" => \/ inst.cr.status = "configured"
                           \/ inst.cr.status \notin Started /\ cr.status \notin Started

Uncovered ==
    /\ inst.fresh => inst.cr = cr
    /\ NotAhead(cache) /\ NotAhead(inst)
    /\ cr.status \in Started => gerrit # "installing"
    /\ RunKnows

QueueInv ==
    /\ cache.fresh => cache.cr = cr
    /\ inst.fresh => inst.cr.live = cr.live
    /\ ~cache.cr.live => ~cr.live
    /\ hidden = {} => Uncovered
    /\ NothingForgotten

LEMMA InitQueue == ASSUME Init PROVE QueueInv
  <1>1. queued /\ pc = "idle" /\ inst = NoInst /\ cache = CopyOf(cr, TRUE)
    BY DEF Init
  <1>2. cache.cr = cr
    BY <1>1 DEF CopyOf
  <1>3. ~inst.fresh /\ ~inst.cr.available /\ inst.cr.status \notin Started
    BY <1>1 DEF NoInst, CopyOf, NewCr, Started
  <1>4. cr.status \notin Started
    <2>1. NewCr("").status = "" /\ NewCr("failed").status = "failed"
      BY DEF NewCr
    <2>2. cr = NewCr("") \/ cr = NewCr("failed")
      BY DEF Init
    <2> QED  BY <2>1, <2>2 DEF Started
  <1>5. RunKnows
    BY <1>1 DEF RunKnows, Configuring
  <1>6. NotAhead(cache) /\ NotAhead(inst)
    BY <1>2, <1>3 DEF NotAhead, Started
  <1>7. Uncovered
    BY <1>3, <1>4, <1>5, <1>6 DEF Uncovered
  <1>8. NothingForgotten
    BY <1>1 DEF NothingForgotten
  <1> QED  BY <1>2, <1>3, <1>7, <1>8 DEF QueueInv

LEMMA WantedMore ==
    ASSUME inst \in Copies, NEW w \in Writes
    PROVE  /\ Wanted(w).live = inst.cr.live
           /\ Wanted(w).available = (inst.cr.available \/ w = "available")
  <1>1. inst.cr \in Cr
    BY CopyParts
  <1>2. CASE w = "available"
    <2>1. /\ [inst.cr EXCEPT !.available = TRUE].live = inst.cr.live
          /\ [inst.cr EXCEPT !.available = TRUE].available = TRUE
      BY <1>1 DEF Cr
    <2> QED  BY <1>2, <2>1 DEF Wanted
  <1>3. CASE w # "available"
    <2>1. /\ [inst.cr EXCEPT !.status = w].live = inst.cr.live
          /\ [inst.cr EXCEPT !.status = w].available = inst.cr.available
      BY <1>1 DEF Cr
    <2>2. inst.cr.available \in BOOLEAN
      BY <1>1 DEF Cr
    <2> QED  BY <1>3, <2>1, <2>2 DEF Wanted
  <1> QED  BY <1>2, <1>3

\* After a run the handler knows nothing, which is never too much.
LEMMA Forgets ==
    ASSUME pc' = "idle", inst' = NoInst
    PROVE  ~inst'.fresh /\ RunKnows' /\ NotAhead(inst)'
  <1>1. ~inst'.fresh /\ ~inst'.cr.available /\ inst'.cr.status \notin Started
    BY DEF NoInst, CopyOf, NewCr, Started
  <1>2. RunKnows'
    BY DEF RunKnows, Configuring
  <1>3. NotAhead(inst)'
    BY <1>1 DEF NotAhead, Started
  <1> QED  BY <1>1, <1>2, <1>3

\* A run ends with the CR as it was.
LEMMA EndKeepsQueue ==
    ASSUME QueueInv, pc' = "idle", inst' = NoInst, NothingForgotten',
           UNCHANGED <<cr, cache, gerrit, hidden>>
    PROVE  QueueInv'
  <1>1. ~inst'.fresh /\ RunKnows' /\ NotAhead(inst)'
    BY Forgets
  <1>2. hidden' = {} => NotAhead(cache)'
    BY DEF QueueInv, Uncovered, NotAhead
  <1>3. hidden' = {} => Uncovered'
    BY <1>1, <1>2 DEF QueueInv, Uncovered
  <1> QED  BY <1>1, <1>3 DEF QueueInv

\* The handler goes on with its copy of the CR.
LEMMA GoesOn ==
    ASSUME QueueInv, pc' # "idle", UNCHANGED <<cr, cache, inst, gerrit, hidden>>,
           hidden = {} => RunKnows'
    PROVE  QueueInv'
  <1>1. NothingForgotten'
    BY DEF NothingForgotten
  <1>2. hidden' = {} => NotAhead(cache)' /\ NotAhead(inst)'
    BY DEF QueueInv, Uncovered, NotAhead
  <1>3. hidden' = {} => Uncovered'
    BY <1>2 DEF QueueInv, Uncovered
  <1> QED  BY <1>1, <1>3 DEF QueueInv

\* A status write, which by what the handler knows takes nothing back.
LEMMA WriteKeepsQueue ==
    ASSUME IInv, QueueInv, NEW w \in Writes, NEW next, next # "idle",
           WriteStatus(w, next), UNCHANGED gerrit,
           hidden = {} /\ inst.fresh
              => /\ cr.status \in Started => Wanted(w).status \in Started
                 /\ cr.status = "configured" => Wanted(w).status = "configured"
                 /\ Wanted(w).status \in Started => gerrit # "installing",
           hidden = {} /\ inst.fresh /\ pc' = next /\ inst'.cr = Wanted(w) /\ cr' = Wanted(w)
              => RunKnows'
    PROVE  QueueInv'
  <1>0. inst \in Copies /\ cache \in Copies
    BY Types DEF IInv
  <1>1. CASE /\ Store(Wanted(w))
             /\ \/ pc' = next /\ inst' = CopyOf(Wanted(w), TRUE) /\ UNCHANGED queued
                \/ Trouble /\ Return(TRUE)
             /\ UNCHANGED <<edited, hidden>>
    <2>1. /\ inst.fresh /\ cr' = Wanted(w) /\ hidden' = hidden
          /\ ~cache'.fresh /\ cache'.cr = cache.cr
      BY <1>0, <1>1, Outdated DEF Store
    <2>2. cr'.live = cr.live
      BY <1>0, <2>1, WantedMore DEF QueueInv
    <2>3. ASSUME hidden = {}
          PROVE  /\ cr.available => cr'.available
                 /\ cr.status \in Started => cr'.status \in Started
                 /\ cr.status = "configured" => cr'.status = "configured"
                 /\ cr'.status \in Started => gerrit' # "installing"
      <3>1. inst.cr = cr
        BY <2>1, <2>3 DEF QueueInv, Uncovered
      <3>2. cr.available => Wanted(w).available
        BY <1>0, <3>1, WantedMore
      <3> QED  BY <2>1, <2>3, <3>2
    <2>4. hidden' = {} => NotAhead(cache)'
      BY <2>1, <2>3 DEF QueueInv, Uncovered, NotAhead
    <2>5. CASE pc' = next /\ inst' = CopyOf(Wanted(w), TRUE)
      <3>1. inst'.cr = cr'
        BY <2>1, <2>5 DEF CopyOf
      <3>2. hidden' = {} => RunKnows'
        BY <2>1, <2>5, <3>1
      <3>3. NotAhead(inst)'
        BY <3>1 DEF NotAhead
      <3>4. NothingForgotten'
        BY <2>5 DEF NothingForgotten
      <3>5. hidden' = {} => Uncovered'
        BY <2>1, <2>3, <2>4, <3>1, <3>2, <3>3 DEF Uncovered
      <3> QED  BY <2>1, <2>2, <3>1, <3>4, <3>5 DEF QueueInv
    <2>6. CASE Return(TRUE)
      <3>1. pc' = "idle" /\ inst' = NoInst /\ queued'
        BY <2>6 DEF Return
      <3>2. ~inst'.fresh /\ RunKnows' /\ NotAhead(inst)'
        BY <3>1, Forgets
      <3>3. NothingForgotten'
        BY <3>1 DEF NothingForgotten
      <3>4. hidden' = {} => Uncovered'
        BY <2>1, <2>3, <2>4, <3>2 DEF Uncovered
      <3> QED  BY <2>1, <2>2, <3>2, <3>3, <3>4 DEF QueueInv
    <2> QED  BY <1>1, <2>5, <2>6
  <1>2. CASE (Trouble \/ ~inst.fresh) /\ Return(TRUE) /\ UNCHANGED <<kube, hidden>>
    <2>1. pc' = "idle" /\ inst' = NoInst /\ queued' /\ UNCHANGED <<cr, cache, hidden>>
      BY <1>2 DEF Return, kube
    <2>2. NothingForgotten'
      BY <2>1 DEF NothingForgotten
    <2> QED  BY <2>1, <2>2, EndKeepsQueue
  <1>3. CASE /\ Trouble /\ inst.fresh
             /\ inst' = CopyOf(RoundTrip(Wanted(w)), TRUE)
             /\ pc' = next
             /\ hidden' = hidden \cup {w}
             /\ UNCHANGED <<kube, queued>>
    <2>1. UNCHANGED <<cr, cache>> /\ hidden' # {}
      BY <1>3 DEF kube
    <2>2. inst'.cr.live = inst.cr.live
      <3>1. Wanted(w) \in Cr
        BY <1>0, WantedParts
      <3>2. inst'.cr = RoundTrip(Wanted(w))
        BY <1>3 DEF CopyOf
      <3>3. RoundTrip(Wanted(w)).live = Wanted(w).live
        BY <3>1 DEF RoundTrip, Cr
      <3> QED  BY <1>0, <3>2, <3>3, WantedMore
    <2>3. inst'.cr.live = cr'.live
      BY <1>3, <2>1, <2>2 DEF QueueInv
    <2>4. NothingForgotten'
      BY <2>1 DEF NothingForgotten
    <2> QED  BY <2>1, <2>3, <2>4 DEF QueueInv
  <1> QED  BY <1>1, <1>2, <1>3 DEF WriteStatus

LEMMA MarksKeepQueue ==
    ASSUME IInv, QueueInv, MarkConfiguring \/ MarkConfigured \/ MarkAvailable
    PROVE  QueueInv'
  <1>0. inst \in Copies
    BY Types DEF IInv
  <1>1. CASE MarkConfiguring
    <2>1. /\ pc = "configuring" /\ WriteStatus("configuring", "pods") /\ UNCHANGED gerrit
          /\ "configuring" \in Writes
      BY <1>1 DEF MarkConfiguring, Writes
    <2>2. Wanted("configuring").status = "configuring"
      BY <1>0, <2>1, WantedParts
    <2>3. ASSUME hidden = {}, inst.fresh
          PROVE  cr.status \notin Started /\ gerrit # "installing"
      <3>1. inst.cr = cr /\ gerrit # "installing"
        BY <2>1, <2>3 DEF QueueInv, Uncovered, RunKnows
      <3> QED  BY <2>1, <3>1 DEF IInv, StartsUnconfigured, Started
    <2>4. ASSUME pc' = "pods", inst'.cr = Wanted("configuring")
          PROVE  RunKnows'
      BY <2>2, <2>4 DEF RunKnows, Configuring
    <2>5. ASSUME hidden = {}, inst.fresh
          PROVE  /\ cr.status \in Started => Wanted("configuring").status \in Started
                 /\ cr.status = "configured" => Wanted("configuring").status = "configured"
                 /\ Wanted("configuring").status \in Started => gerrit # "installing"
      BY <2>3, <2>5 DEF Started
    <2> QED  BY <2>1, <2>4, <2>5, WriteKeepsQueue
  <1>2. CASE MarkConfigured
    <2>1. /\ pc = "configured" /\ WriteStatus("configured", "available") /\ UNCHANGED gerrit
          /\ "configured" \in Writes
      BY <1>2 DEF MarkConfigured, Writes
    <2>2. Wanted("configured").status = "configured"
      BY <1>0, <2>1, WantedParts
    <2>3. ASSUME hidden = {}, inst.fresh
          PROVE  gerrit # "installing"
      <3>1. inst.cr = cr /\ inst.cr.status = "configuring"
        BY <2>1, <2>3 DEF QueueInv, Uncovered, RunKnows
      <3> QED  BY <2>3, <3>1 DEF QueueInv, Uncovered, Started
    <2>4. ASSUME pc' = "available", inst'.cr = Wanted("configured")
          PROVE  RunKnows'
      BY <2>2, <2>4 DEF RunKnows, Configuring
    <2>5. ASSUME hidden = {}, inst.fresh
          PROVE  /\ cr.status \in Started => Wanted("configured").status \in Started
                 /\ cr.status = "configured" => Wanted("configured").status = "configured"
                 /\ Wanted("configured").status \in Started => gerrit # "installing"
      BY <2>2, <2>3, <2>5 DEF Started
    <2> QED  BY <2>1, <2>4, <2>5, WriteKeepsQueue
  <1>3. CASE MarkAvailable
    <2>1. /\ pc = "available" /\ WriteStatus("available", "available") /\ UNCHANGED gerrit
          /\ "available" \in Writes
      BY <1>3 DEF MarkAvailable, Writes
    <2>2. Wanted("available").status = inst.cr.status
      BY <1>0, <2>1, WantedParts
    <2>3. ASSUME hidden = {}, inst.fresh
          PROVE  /\ cr.status \in Started => Wanted("available").status \in Started
                 /\ cr.status = "configured" => Wanted("available").status = "configured"
                 /\ Wanted("available").status \in Started => gerrit # "installing"
      BY <2>2, <2>3 DEF QueueInv, Uncovered
    <2>4. ASSUME hidden = {}, inst.fresh, pc' = "available",
                 inst'.cr = Wanted("available"), cr' = Wanted("available")
          PROVE  RunKnows'
      BY <2>1, <2>2, <2>4 DEF QueueInv, Uncovered, RunKnows, Configuring
    <2> QED  BY <2>1, <2>3, <2>4, WriteKeepsQueue
  <1> QED  BY <1>1, <1>2, <1>3

LEMMA BeginKeepsQueue == ASSUME IInv, QueueInv, Begin PROVE QueueInv'
  <1>1. UNCHANGED <<cr, cache, gerrit, hidden>>
    BY DEF Begin, kube
  <1>2. CASE cache.cr.live
    <2>1. inst' = cache /\ pc' \in {"gerrit", "owner"}
      BY <1>2 DEF Begin
    <2>2. RunKnows' /\ NothingForgotten'
      BY <2>1 DEF RunKnows, Configuring, NothingForgotten
    <2>3. hidden' = {} => Uncovered'
      BY <1>1, <2>1, <2>2 DEF QueueInv, Uncovered, NotAhead
    <2>4. inst'.fresh => inst'.cr.live = cr'.live
      BY <1>1, <2>1 DEF QueueInv
    <2> QED  BY <1>1, <2>2, <2>3, <2>4 DEF QueueInv
  <1>3. CASE ~cache.cr.live
    <2>1. UNCHANGED <<pc, inst>> /\ ~cr.live
      BY <1>3 DEF Begin, QueueInv
    <2>2. NothingForgotten'
      BY <1>1, <2>1 DEF NothingForgotten
    <2>3. hidden' = {} => Uncovered'
      BY <1>1, <2>1 DEF QueueInv, Uncovered, NotAhead, RunKnows
    <2> QED  BY <1>1, <2>1, <2>2, <2>3 DEF QueueInv
  <1> QED  BY <1>2, <1>3

LEMMA SetOwnerKeepsQueue == ASSUME IInv, QueueInv, SetOwner PROVE QueueInv'
  <1>0. cr \in Cr /\ cache \in Copies
    BY Types DEF IInv
  <1>1. UNCHANGED <<gerrit, hidden>>
    BY DEF SetOwner
  <1>2. CASE ~inst.fresh /\ Return(TRUE) /\ UNCHANGED kube
    <2>1. pc' = "idle" /\ inst' = NoInst /\ queued' /\ UNCHANGED <<cr, cache>>
      BY <1>2 DEF Return, kube
    <2>2. NothingForgotten'
      BY <2>1 DEF NothingForgotten
    <2> QED  BY <1>1, <2>1, <2>2, EndKeepsQueue
  <1>3. CASE /\ Store([cr EXCEPT !.owned = TRUE])
             /\ edited' = TRUE
             /\ \/ pc' = "gerrit" /\ inst' = CopyOf([cr EXCEPT !.owned = TRUE], TRUE)
                   /\ UNCHANGED queued
                \/ Trouble /\ Return(TRUE)
    <2>1. cr' = [cr EXCEPT !.owned = TRUE] /\ ~cache'.fresh /\ cache'.cr = cache.cr
      BY <1>0, <1>3, Outdated DEF Store
    <2>2. cr'.live = cr.live /\ cr'.status = cr.status /\ cr'.available = cr.available
      BY <1>0, <2>1 DEF Cr
    <2>3. hidden' = {} => NotAhead(cache)'
      BY <1>1, <2>1, <2>2 DEF QueueInv, Uncovered, NotAhead
    <2>4. CASE pc' = "gerrit" /\ inst' = CopyOf([cr EXCEPT !.owned = TRUE], TRUE)
      <3>1. inst'.cr = cr'
        BY <2>1, <2>4 DEF CopyOf
      <3>2. RunKnows' /\ NothingForgotten' /\ NotAhead(inst)'
        BY <2>4, <3>1 DEF RunKnows, Configuring, NothingForgotten, NotAhead
      <3>3. hidden' = {} => Uncovered'
        BY <1>1, <2>2, <2>3, <3>1, <3>2 DEF QueueInv, Uncovered
      <3> QED  BY <2>1, <2>2, <3>1, <3>2, <3>3 DEF QueueInv
    <2>5. CASE Return(TRUE)
      <3>1. pc' = "idle" /\ inst' = NoInst /\ queued'
        BY <2>5 DEF Return
      <3>2. ~inst'.fresh /\ RunKnows' /\ NotAhead(inst)'
        BY <3>1, Forgets
      <3>3. NothingForgotten'
        BY <3>1 DEF NothingForgotten
      <3>4. hidden' = {} => Uncovered'
        BY <1>1, <2>2, <2>3, <3>2 DEF QueueInv, Uncovered
      <3> QED  BY <2>1, <2>2, <3>2, <3>3, <3>4 DEF QueueInv
    <2> QED  BY <1>3, <2>4, <2>5
  <1> QED  BY <1>2, <1>3 DEF SetOwner

\* A run that finds the last status ends; without a Gerrit nothing is left to do.
LEMMA LeavesKeepQueue ==
    ASSUME IInv, QueueInv,
           \/ Finish
           \/ pc = "gerrit" /\ gerrit = "absent" /\ Return(FALSE)
              /\ UNCHANGED <<kube, gerrit, hidden>>
    PROVE  QueueInv'
  <1>1. /\ pc' = "idle" /\ inst' = NoInst
        /\ UNCHANGED <<cr, cache, gerrit, hidden>>
    BY DEF Finish, Return, kube
  <1>2. NothingForgotten'
    <2>1. CASE gerrit = "absent"
      BY <1>1, <2>1 DEF NothingForgotten
    <2>2. CASE Finish /\ hidden = {} /\ cr.status \in Started
      <3>1. inst.cr.status = "configured" /\ inst.cr.available
        BY <2>2 DEF Finish, QueueInv, Uncovered, RunKnows
      <3>2. cr.status = "configured" /\ cr.available
        BY <2>2, <3>1 DEF QueueInv, Uncovered, NotAhead
      <3> QED  BY <1>1, <3>2 DEF NothingForgotten
    <2>3. CASE hidden # {} \/ cr.status \notin Started
      BY <1>1, <2>3 DEF NothingForgotten, Started
    <2> QED  BY <2>1, <2>2, <2>3
  <1> QED  BY <1>1, <1>2, EndKeepsQueue

LEMMA GetInstanceOwnerKeepsQueue ==
    ASSUME IInv, QueueInv, GetInstanceOwner PROVE QueueInv'
  <1>1. /\ pc = "gerrit" /\ UNCHANGED <<cr, cache, gerrit, hidden>>
        /\ UNCHANGED <<kube, gerrit, hidden>>
    BY DEF GetInstanceOwner, kube
  <1>2. CASE gerrit = "absent"
    BY <1>1, <1>2, LeavesKeepQueue DEF GetInstanceOwner
  <1>3. CASE gerrit # "absent"
    <2>1. /\ inst' = inst
          /\ pc' = IF gerrit = "ready" /\ inst.cr.status \in {"", "failed"}
                   THEN "configuring" ELSE Afterwards
      BY <1>3 DEF GetInstanceOwner, Goto
    <2>2. pc' \in {"configuring", "configured", "available"}
      BY <2>1 DEF Afterwards
    <2>3. ASSUME hidden = {} PROVE RunKnows'
      <3>1. inst.cr.status \in Statuses
        BY Types, CopyParts DEF IInv
      <3>2. CASE pc' = "configuring"
        <4>1. gerrit = "ready"
          BY <2>1, <3>2 DEF Afterwards
        <4> QED  BY <1>1, <3>2, <4>1 DEF RunKnows, Configuring
      <3>3. CASE pc' = "configured"
        <4>1. inst.cr.status = "configuring"
          BY <2>1, <3>3 DEF Afterwards
        <4> QED  BY <2>1, <3>3, <4>1 DEF RunKnows, Configuring
      <3>4. CASE pc' = "available"
        <4>1. /\ inst.cr.status # "configuring"
              /\ gerrit = "ready" => inst.cr.status \notin {"", "failed"}
          BY <2>1, <3>4 DEF Afterwards
        <4>2. gerrit \in {"absent", "installing", "ready"}
          BY DEF IInv, TypeOK
        <4>3. CASE gerrit = "ready"
          <5>1. inst'.cr.status = "configured"
            BY <2>1, <3>1, <4>1, <4>3 DEF Statuses
          <5> QED  BY <3>4, <5>1 DEF RunKnows, Configuring
        <4>4. CASE gerrit = "installing"
          <5>1. cr.status \notin Started
            BY <2>3, <4>4 DEF QueueInv, Uncovered
          <5>2. inst.cr.status \notin Started
            BY <2>3, <5>1 DEF QueueInv, Uncovered, NotAhead
          <5> QED  BY <1>1, <2>1, <3>4, <5>1, <5>2 DEF RunKnows, Configuring
        <4> QED  BY <1>3, <4>2, <4>3, <4>4
      <3> QED  BY <2>2, <3>2, <3>3, <3>4
    <2> QED  BY <1>1, <2>1, <2>2, <2>3, GoesOn
  <1> QED  BY <1>2, <1>3

\* The calls that configure Gerrit: they go on, or the run is tried again.
LEMMA CallsKeepQueue ==
    ASSUME IInv, QueueInv,
           GetConfigurationArgs \/ SaveSshReplicationKey \/ UpdateReplicationConfig
             \/ UpdateSshConfig \/ ReloadReplicationPlugin \/ CallFails
    PROVE  QueueInv'
  <1>1. UNCHANGED <<cr, cache, gerrit, hidden>>
    BY DEF GetConfigurationArgs, SaveSshReplicationKey, UpdateReplicationConfig,
           UpdateSshConfig, ReloadReplicationPlugin, CallFails, kube
  <1>2. CASE Return(TRUE)
    <2>1. pc' = "idle" /\ inst' = NoInst /\ queued'
      BY <1>2 DEF Return
    <2>2. NothingForgotten'
      BY <2>1 DEF NothingForgotten
    <2> QED  BY <1>1, <2>1, <2>2, EndKeepsQueue
  <1>3. CASE ~Return(TRUE)
    <2>1. /\ pc \in Configuring /\ inst' = inst
          /\ pc' \in Configuring \cup {Afterwards}
      BY <1>3 DEF GetConfigurationArgs, SaveSshReplicationKey, UpdateReplicationConfig,
           UpdateSshConfig, ReloadReplicationPlugin, CallFails, Then, Goto, Configuring
    <2>2. pc' # "idle"
      BY <2>1 DEF Configuring, Afterwards
    <2>3. ASSUME hidden = {} PROVE RunKnows'
      <3>1. inst.cr.status = "configuring"
        BY <2>1, <2>3 DEF QueueInv, Uncovered, RunKnows
      <3>2. pc' \in Configuring \cup {"configured"}
        BY <2>1, <3>1 DEF Afterwards
      <3> QED  BY <2>1, <3>1, <3>2 DEF RunKnows, Configuring
    <2> QED  BY <1>1, <2>1, <2>2, <2>3, GoesOn
  <1> QED  BY <1>2, <1>3

LEMMA WrittenKeepsQueue ==
    ASSUME IInv, QueueInv, CrEdited \/ CrDeleted \/ Collected
    PROVE  QueueInv'
  <1>0. cr \in Cr /\ cache \in Copies /\ inst \in Copies
    BY Types DEF IInv
  <1>1. PICK c \in {cr, [cr EXCEPT !.live = FALSE]} : Written(c)
    BY Zenon DEF CrEdited, CrDeleted, Collected
  <1>2. c.status = cr.status /\ c.available = cr.available /\ (~cr.live => ~c.live)
    BY <1>0 DEF Cr
  <1>3. cr' = c /\ UNCHANGED <<queued, pc, hidden>>
    BY <1>1 DEF Written
  <1>4. /\ ~cache'.fresh /\ cache'.cr = cache.cr
        /\ ~inst'.fresh /\ inst'.cr = inst.cr
    BY <1>0, <1>1, Outdated DEF Written
  <1>5. gerrit' = gerrit
    BY DEF CrEdited, CrDeleted, Collected
  <1>6. hidden' = {} => NotAhead(cache)' /\ NotAhead(inst)'
    BY <1>2, <1>3, <1>4 DEF QueueInv, Uncovered, NotAhead
  <1>7. hidden' = {} => RunKnows'
    BY <1>2, <1>3, <1>4, <1>5 DEF QueueInv, Uncovered, RunKnows
  <1>8. hidden' = {} => Uncovered'
    BY <1>2, <1>3, <1>4, <1>5, <1>6, <1>7 DEF QueueInv, Uncovered
  <1>9. NothingForgotten'
    BY <1>2, <1>3, <1>5 DEF QueueInv, NothingForgotten
  <1> QED  BY <1>2, <1>3, <1>4, <1>8, <1>9 DEF QueueInv

LEMMA WatchKeepsQueue ==
    ASSUME IInv, QueueInv, OperatorCrash \/ CacheSync
    PROVE  QueueInv'
  <1>1. UNCHANGED <<cr, gerrit, hidden>> /\ cache'.cr = cr
    BY DEF OperatorCrash, CacheSync, CopyOf
  <1>2. NotAhead(cache)'
    BY <1>1 DEF NotAhead
  <1>3. CASE OperatorCrash
    <2>1. pc' = "idle" /\ inst' = NoInst /\ queued'
      BY <1>3 DEF OperatorCrash
    <2>2. ~inst'.fresh /\ RunKnows' /\ NotAhead(inst)'
      BY <2>1, Forgets
    <2>3. NothingForgotten'
      BY <2>1 DEF NothingForgotten
    <2>4. hidden' = {} => Uncovered'
      BY <1>1, <1>2, <2>2 DEF QueueInv, Uncovered
    <2> QED  BY <1>1, <2>2, <2>3, <2>4 DEF QueueInv
  <1>4. CASE CacheSync
    <2>1. UNCHANGED <<pc, inst>> /\ (queued => queued')
      BY <1>4 DEF CacheSync
    <2>2. NothingForgotten'
      BY <1>1, <2>1 DEF QueueInv, NothingForgotten
    <2>3. hidden' = {} => RunKnows' /\ NotAhead(inst)'
      BY <1>1, <2>1 DEF QueueInv, Uncovered, RunKnows, NotAhead
    <2>4. hidden' = {} => Uncovered'
      BY <1>1, <1>2, <2>1, <2>3 DEF QueueInv, Uncovered
    <2> QED  BY <1>1, <2>1, <2>2, <2>4 DEF QueueInv
  <1> QED  BY <1>3, <1>4

LEMMA QuietKeepsQueue ==
    ASSUME IInv, QueueInv,
           Resync \/ GerritReady \/ GerritDeleted \/ GerritRestarts \/ CallsStopFailing
             \/ UNCHANGED vars
    PROVE  QueueInv'
  <1>1. UNCHANGED <<cr, cache, pc, inst, hidden>> /\ (queued => queued')
    BY DEF Resync, GerritReady, GerritDeleted, GerritRestarts, CallsStopFailing,
           vars, kube, local
  <1>2. gerrit' = "installing" => gerrit = "installing"
    BY DEF Resync, GerritReady, GerritDeleted, GerritRestarts, CallsStopFailing, vars
  <1>3. gerrit' # "absent" => gerrit # "absent"
    BY DEF Resync, GerritReady, GerritDeleted, GerritRestarts, CallsStopFailing, vars
  <1>4. NothingForgotten'
    BY <1>1, <1>3 DEF QueueInv, NothingForgotten
  <1>5. hidden' = {} => RunKnows' /\ NotAhead(inst)' /\ NotAhead(cache)'
    BY <1>1, <1>2 DEF QueueInv, Uncovered, RunKnows, NotAhead
  <1>6. hidden' = {} => Uncovered'
    BY <1>1, <1>2, <1>5 DEF QueueInv, Uncovered
  <1> QED  BY <1>1, <1>4, <1>6 DEF QueueInv

LEMMA TakenBackKeepsQueue == ASSUME QueueInv, GerritTakenBack PROVE QueueInv'
  <1>1. UNCHANGED <<cr, cache, inst>> /\ hidden' # {}
    BY DEF GerritTakenBack, kube, local
  <1> QED  BY <1>1 DEF QueueInv, NothingForgotten

LEMMA NextKeepsQueue == ASSUME IInv, QueueInv, [Next]_vars PROVE QueueInv'
  <1>1. CASE Reconcile
    BY <1>1, BeginKeepsQueue, SetOwnerKeepsQueue, GetInstanceOwnerKeepsQueue,
       CallsKeepQueue, MarksKeepQueue, LeavesKeepQueue DEF Reconcile
  <1>2. CASE Environment
    BY <1>2, WatchKeepsQueue, WrittenKeepsQueue, TakenBackKeepsQueue, QuietKeepsQueue
       DEF Environment
  <1>3. CASE UNCHANGED vars
    BY <1>3, QuietKeepsQueue
  <1> QED  BY <1>1, <1>2, <1>3 DEF Next

\* Unless a failed write was covered up or Gerrit's status has gone back, a
\* configuration that was started does
\* not stop before its end is reported, whichever of its steps fails.
THEOREM NoWakeUpLost == Spec => []NothingForgotten
  <1>1. Init => IInv /\ QueueInv
    BY InitInv, InitQueue
  <1>2. IInv /\ QueueInv /\ [Next]_vars => IInv' /\ QueueInv'
    BY NextKeeps, NextKeepsQueue
  <1>3. QueueInv => NothingForgotten
    BY DEF QueueInv
  <1> QED  BY <1>1, <1>2, <1>3, PTL DEF Spec

=============================================================================
