---------------------- MODULE GerritMergeRequestProofs ----------------------
(* What holds of GerritMergeRequest for every value of its constants. *)
EXTENDS GerritMergeRequest, TLAPS

----------------------------------------------------------------------------
(* The records and the sequence the state is made of. *)

Copies == [cr : Cr, fresh : BOOLEAN]

\* What writing to a copy of the CR leaves of it.
LEMMA ValueWritten ==
    ASSUME NEW i \in Copies, NEW v \in Values
    PROVE  /\ [i EXCEPT !.cr.value = v] \in Copies
           /\ [i EXCEPT !.cr.value = v].fresh = i.fresh
           /\ [i EXCEPT !.cr.value = v].cr.changeId = i.cr.changeId
  BY DEF Copies, Cr

LEMMA CopyMade ==
    ASSUME NEW c \in Cr, NEW b \in BOOLEAN
    PROVE  CopyOf(c, b) \in Copies /\ CopyOf(c, b).cr = c /\ CopyOf(c, b).fresh = b
  BY DEF Copies, CopyOf

LEMMA CopyParts ==
    ASSUME NEW i \in Copies
    PROVE  i.cr \in Cr /\ i.fresh \in BOOLEAN /\ i.cr.changeId \in Nat
  BY DEF Copies, Cr

LEMMA NoInstType == NoInst \in Copies /\ ~NoInst.fresh /\ NoInst.cr.changeId = 0
  <1>1. NewCr \in Cr /\ NewCr.changeId = 0
    BY DEF NewCr, Cr, Phases, Values
  <1> QED  BY <1>1, CopyMade DEF NoInst

----------------------------------------------------------------------------
(* The inductive invariant. *)

\* The handler has found no recorded change in its copy and creates one.
Creating == {"gitClient", "clone", "build", "push", "cleanup", "cleanupFailed"}

\* A current copy of the CR is what its reader takes it for, but for a change
\* the handler has just pushed and nobody else has recorded.
CopiesAgree ==
    /\ cache.fresh => cache.cr = cr
    /\ inst.fresh /\ cr.changeId # 0 => inst.cr.changeId = cr.changeId
    /\ pc = "idle" => ~inst.fresh
    /\ pc \in Creating => inst.cr.changeId = 0

\* Every change number anywhere is that of a change already pushed, and the
\* change being created gets the next one.
NumbersArePushed ==
    /\ cr.changeId <= Len(changes)
    /\ cache.cr.changeId <= Len(changes)
    /\ inst.cr.changeId <= Len(changes)
    /\ pc \in {"build", "push"} => new = Len(changes) + 1
    /\ pc = "cleanup" => new = Len(changes)

\* Where nobody restores changes, the change of a CR about to lose its finalizer
\* stays closed.
ClosedBeforeRelease ==
    "restore" \notin UserActions /\ pc = "removeFinalizer"
        => inst.cr.changeId \in 1..Len(changes) /\ changes[inst.cr.changeId] # "NEW"

IInv == TypeOK /\ CopiesAgree /\ NumbersArePushed /\ ClosedBeforeRelease

\* What the invariant says of the state's types, in the form the steps use it.
LEMMA Types ==
    ASSUME TypeOK
    PROVE  /\ cr \in Cr /\ cache \in Copies /\ inst \in Copies
           /\ cr.changeId \in Nat /\ cache.cr.changeId \in Nat /\ inst.cr.changeId \in Nat
           /\ changes \in Seq(ChangeStatuses) /\ Len(changes) \in Nat
           /\ new \in Nat
  BY CopyParts DEF TypeOK, Copies, Cr

LEMMA InitInv == ASSUME Init PROVE IInv
  <1>1. NewCr \in Cr /\ NewCr.changeId = 0
    BY DEF NewCr, Cr, Phases, Values
  <1>2. cr \in Cr /\ cr.changeId = 0
    <2>1. CASE cr = NewCr
      BY <1>1, <2>1
    <2>2. CASE cr = [NewCr EXCEPT !.complete = FALSE]
      BY <2>2 DEF NewCr, Cr, Phases, Values
    <2> QED  BY <2>1, <2>2 DEF Init
  <1>3. cache \in Copies /\ cache.cr = cr
    BY <1>2, CopyMade DEF Init
  <1>4. inst \in Copies /\ ~inst.fresh /\ inst.cr.changeId = 0
    BY NoInstType DEF Init
  <1>5. changes \in Seq(ChangeStatuses) /\ Len(changes) = 0
    BY DEF Init
  <1>6. pc = "idle" /\ new = 0
    BY DEF Init
  <1>7. TypeOK
    BY <1>2, <1>3, <1>4, <1>5 DEF Init, TypeOK, Copies, ControlPoints
  <1>8. CopiesAgree /\ NumbersArePushed /\ ClosedBeforeRelease
    BY <1>2, <1>3, <1>4, <1>5, <1>6
       DEF CopiesAgree, NumbersArePushed, ClosedBeforeRelease, Creating
  <1> QED  BY <1>7, <1>8 DEF IInv

\* An error becomes the status the handler goes on to write.
LEMMA FailKeeps ==
    ASSUME IInv, Fail
    PROVE  /\ inst' \in Copies /\ inst'.fresh = inst.fresh
           /\ inst'.cr.changeId = inst.cr.changeId
           /\ pc' = "status" /\ new' = 0 /\ queued' = queued
  <1>1. "error" \in Values
    BY DEF Values
  <1> QED  BY <1>1, Types, ValueWritten DEF IInv, Fail

----------------------------------------------------------------------------
(* Creating a change. *)

LEMMA BeginKeeps == ASSUME IInv, Begin PROVE IInv'
  <1>1. PICK i \in Copies : /\ \/ inst' = inst /\ pc' = pc
                               \/ inst' = i /\ pc' = "status"
                               \/ /\ inst' = i
                                  /\ pc' = IF i.cr.changeId = 0 THEN "gitClient" ELSE "owner"
                            /\ i.fresh = cache.fresh
                            /\ i.cr.changeId = cache.cr.changeId
    <2>1. CASE cache.cr.changeId = 0 /\ ~cache.cr.complete
      <3>1. "error" \in Values
        BY DEF Values
      <3>2. \/ inst' = inst /\ pc' = pc
            \/ inst' = [cache EXCEPT !.cr.value = "error"] /\ pc' = "status"
        BY <2>1 DEF Begin
      <3>3. cache \in Copies
        BY Types DEF IInv
      <3>4. [cache EXCEPT !.cr.value = "error"] \in Copies
            /\ [cache EXCEPT !.cr.value = "error"].fresh = cache.fresh
            /\ [cache EXCEPT !.cr.value = "error"].cr.changeId = cache.cr.changeId
        BY <3>1, <3>3 DEF Copies, Cr
      <3> QED  BY <3>2, <3>4
    <2>2. CASE cache.cr.changeId # 0 \/ cache.cr.complete
      BY <2>2, Types DEF IInv, Begin
    <2> QED  BY <2>1, <2>2, Types, CopyParts DEF IInv, TypeOK, Cr
  <1>2. inst' \in Copies
    BY <1>1, Types DEF IInv
  <1>3. TypeOK'
    BY <1>1, <1>2 DEF IInv, TypeOK, Begin, kube, Copies, ControlPoints
  <1>4. CopiesAgree' /\ NumbersArePushed' /\ ClosedBeforeRelease'
    BY <1>1, Types
       DEF IInv, CopiesAgree, NumbersArePushed, ClosedBeforeRelease, Begin, kube, Creating
  <1> QED  BY <1>3, <1>4 DEF IInv

LEMMA PrepareKeeps == ASSUME IInv, GetGitClient \/ Clone \/ BuildCommit PROVE IInv'
  <1>1. /\ pc' \in ControlPoints /\ dir' \in BOOLEAN /\ new' \in Nat
        /\ UNCHANGED <<cr, cache, edited, queued, inst, changes, gerrit, calm>>
    <2>1. CASE GetGitClient \/ BuildCommit
      BY <2>1 DEF GetGitClient, BuildCommit, Goto, kube, IInv, TypeOK, ControlPoints
    <2>2. CASE Clone
      BY <2>2, Types DEF Clone, kube, IInv, TypeOK, ControlPoints
    <2> QED  BY <2>1, <2>2
  <1>2. TypeOK'
    BY <1>1 DEF IInv, TypeOK
  <1>3. CopiesAgree' /\ NumbersArePushed' /\ ClosedBeforeRelease'
    BY DEF IInv, CopiesAgree, NumbersArePushed, ClosedBeforeRelease, GetGitClient, Clone,
           BuildCommit, Goto, kube, Creating
  <1> QED  BY <1>2, <1>3 DEF IInv

LEMMA PushKeeps == ASSUME IInv, Push PROVE IInv'
  <1>1. /\ changes' \in Seq(ChangeStatuses)
        /\ changes' = changes \/ Len(changes') = Len(changes) + 1
        /\ pc' = "cleanup" => Len(changes') = Len(changes) + 1
    <2>1. changes \in Seq(ChangeStatuses) /\ "NEW" \in ChangeStatuses
      BY Types DEF IInv, ChangeStatuses
    <2>2. /\ Append(changes, "NEW") \in Seq(ChangeStatuses)
          /\ Len(Append(changes, "NEW")) = Len(changes) + 1
      BY <2>1
    <2>3. changes' = Append(changes, "NEW") \/ (changes' = changes /\ pc' # "cleanup")
      BY DEF Push, Goto
    <2> QED  BY <2>1, <2>2, <2>3
  <1>2. TypeOK'
    BY <1>1 DEF IInv, TypeOK, Push, Goto, kube, ControlPoints
  <1>3. CopiesAgree' /\ NumbersArePushed' /\ ClosedBeforeRelease'
    BY <1>1, Types
       DEF IInv, CopiesAgree, NumbersArePushed, ClosedBeforeRelease, Push, Goto, kube, Creating
  <1> QED  BY <1>2, <1>3 DEF IInv

LEMMA RemoveCloneKeeps == ASSUME IInv, RemoveClone PROVE IInv'
  <1>1. CASE pc = "cleanup" /\ ~Fail
    <2>1. inst' = [inst EXCEPT !.cr.changeId = new, !.cr.value = "NEW"]
      BY <1>1 DEF RemoveClone
    <2>2. inst' \in Copies /\ inst'.fresh = inst.fresh /\ inst'.cr.changeId = new
      <3>1. "NEW" \in Values
        BY DEF Values
      <3>2. inst \in Copies /\ new \in Nat
        BY Types DEF IInv
      <3> QED  BY <2>1, <3>1, <3>2 DEF Copies, Cr
    <2>3. pc' \in {"deleteOwner", "status", "addFinalizer"} /\ new' = new
      BY <1>1 DEF RemoveClone, Deletion
    <2>4. TypeOK'
      BY <1>1, <2>2, <2>3 DEF IInv, TypeOK, RemoveClone, kube, Copies, ControlPoints
    <2>5. CopiesAgree' /\ NumbersArePushed' /\ ClosedBeforeRelease'
      BY <1>1, <2>2, <2>3, Types
         DEF IInv, CopiesAgree, NumbersArePushed, ClosedBeforeRelease, RemoveClone, kube, Creating
    <2> QED  BY <2>4, <2>5 DEF IInv
  <1>2. CASE Fail
    <2>1. TypeOK'
      <3>1. inst' \in Copies /\ pc' = "status" /\ new' = 0 /\ queued' = queued
        BY <1>2, FailKeeps
      <3>2. dir' \in BOOLEAN /\ UNCHANGED <<cr, cache, edited, changes, gerrit, calm>>
        BY DEF RemoveClone, kube, IInv, TypeOK
      <3> QED  BY <3>1, <3>2 DEF IInv, TypeOK, Copies, ControlPoints
    <2>2. CopiesAgree' /\ NumbersArePushed' /\ ClosedBeforeRelease'
      BY <1>2, FailKeeps, Types
         DEF IInv, CopiesAgree, NumbersArePushed, ClosedBeforeRelease, RemoveClone, kube, Creating
    <2> QED  BY <2>1, <2>2 DEF IInv
  <1> QED  BY <1>1, <1>2 DEF RemoveClone

----------------------------------------------------------------------------
(* Following a change and letting go of it. *)

\* A write that keeps the recorded change, answered with a copy that agrees.
LEMMA UpdateAndKeeps ==
    ASSUME IInv, pc \notin Creating, pc # "idle",
           NEW c \in Cr, NEW i \in Copies, NEW next \in ControlPoints \ {"removeFinalizer"},
           UpdateAnd(c, i, next), UNCHANGED <<dir, changes, gerrit, calm>>,
           next \notin Creating, next # "idle",
           c.changeId = cr.changeId, i.cr.changeId <= Len(changes),
           inst.fresh /\ cr.changeId # 0 => i.cr.changeId = cr.changeId
    PROVE  IInv'
  <1>1. CASE Update(c, i) /\ pc' = next /\ UNCHANGED <<queued, new>>
    <2>1. cache' \in Copies /\ ~cache'.fresh /\ cache'.cr = cache.cr
      <3>1. cache \in Copies
        BY Types DEF IInv
      <3> QED  BY <1>1, <3>1 DEF Update, Copies
    <2>2. TypeOK'
      BY <1>1, <2>1 DEF IInv, TypeOK, Update, Copies
    <2>3. CopiesAgree' /\ NumbersArePushed' /\ ClosedBeforeRelease'
      BY <1>1, <2>1, Types
         DEF IInv, CopiesAgree, NumbersArePushed, ClosedBeforeRelease, Update, Creating
    <2> QED  BY <2>2, <2>3 DEF IInv
  <1>2. CASE /\ Update(c, CopyOf([inst.cr EXCEPT !.value = "error"], FALSE))
             /\ pc' = "status" /\ new' = 0 /\ UNCHANGED queued
    <2>1. cache' \in Copies /\ ~cache'.fresh /\ cache'.cr = cache.cr
      <3>1. cache \in Copies
        BY Types DEF IInv
      <3> QED  BY <1>2, <3>1 DEF Update, Copies
    <2>2. inst' \in Copies /\ ~inst'.fresh /\ inst'.cr.changeId = inst.cr.changeId
      <3>1. inst.cr \in Cr /\ "error" \in Values
        BY Types, CopyParts DEF IInv, Values
      <3>2. [inst.cr EXCEPT !.value = "error"] \in Cr
            /\ [inst.cr EXCEPT !.value = "error"].changeId = inst.cr.changeId
        BY <3>1 DEF Cr
      <3> QED  BY <1>2, <3>2, CopyMade DEF Update
    <2>3. TypeOK'
      BY <1>2, <2>1, <2>2 DEF IInv, TypeOK, Update, Copies, ControlPoints
    <2>4. CopiesAgree' /\ NumbersArePushed' /\ ClosedBeforeRelease'
      BY <1>2, <2>1, <2>2, Types
         DEF IInv, CopiesAgree, NumbersArePushed, ClosedBeforeRelease, Update, Creating
    <2> QED  BY <2>3, <2>4 DEF IInv
  <1>3. CASE ~inst.fresh /\ Fail /\ UNCHANGED kube
    <2>1. TypeOK'
      BY <1>3, FailKeeps DEF IInv, TypeOK, kube, Copies, ControlPoints
    <2>2. CopiesAgree' /\ NumbersArePushed' /\ ClosedBeforeRelease'
      BY <1>3, FailKeeps, Types
         DEF IInv, CopiesAgree, NumbersArePushed, ClosedBeforeRelease, kube, Creating
    <2> QED  BY <2>1, <2>2 DEF IInv
  <1> QED  BY <1>1, <1>2, <1>3 DEF UpdateAnd

\* What comes back is the server's CR, but for an empty status.
LEMMA RoundTripKeeps ==
    ASSUME TypeOK, NEW c \in Cr
    PROVE  /\ RoundTrip(c) \in Cr /\ RoundTrip(c).phase = c.phase
           /\ RoundTrip(c).changeId = IF c.changeId = 0 THEN inst.cr.changeId ELSE c.changeId
  <1>1. inst.cr \in Cr
    BY Types, CopyParts
  <1>2. /\ (IF c.changeId = 0 THEN inst.cr.changeId ELSE c.changeId) \in Nat
        /\ (IF c.value = "" THEN inst.cr.value ELSE c.value) \in Values
    BY <1>1 DEF Cr
  <1> DEFINE i == IF c.changeId = 0 THEN inst.cr.changeId ELSE c.changeId
             v == IF c.value = "" THEN inst.cr.value ELSE c.value
  <1>3. RoundTrip(c) = [c EXCEPT !.changeId = i, !.value = v]
    BY DEF RoundTrip
  <1>4. i \in Nat /\ v \in Values
    BY <1>2
  <1> HIDE DEF i, v
  <1>5. /\ [c EXCEPT !.changeId = i, !.value = v] \in Cr
        /\ [c EXCEPT !.changeId = i, !.value = v].phase = c.phase
        /\ [c EXCEPT !.changeId = i, !.value = v].changeId = i
    BY <1>4 DEF Cr
  <1> QED  BY <1>3, <1>5 DEF i

LEMMA GetGerritClientKeeps ==
    ASSUME IInv, NEW at \in {"owner", "deleteOwner"}, NEW next \in {"get", "deleteGet"},
           GetGerritClient(at, next)
    PROVE  IInv'
  <1>1. CASE Goto(next) /\ UNCHANGED kube
    <2>1. TypeOK'
      BY <1>1 DEF IInv, TypeOK, GetGerritClient, Goto, kube, ControlPoints
    <2>2. CopiesAgree' /\ NumbersArePushed' /\ ClosedBeforeRelease'
      BY <1>1 DEF IInv, CopiesAgree, NumbersArePushed, ClosedBeforeRelease,
                  GetGerritClient, Goto, kube, Creating
    <2> QED  BY <2>1, <2>2 DEF IInv
  <1>2. ASSUME NEW c, c = [cr EXCEPT !.owned = TRUE],
               UpdateAnd(c, CopyOf(RoundTrip(c), TRUE), next)
        PROVE  IInv'
    <2>1. c \in Cr /\ c.changeId = cr.changeId
      <3>1. cr \in Cr
        BY Types DEF IInv
      <3> QED  BY <1>2, <3>1 DEF Cr
    <2>2. /\ CopyOf(RoundTrip(c), TRUE) \in Copies
          /\ CopyOf(RoundTrip(c), TRUE).cr.changeId
                = IF cr.changeId = 0 THEN inst.cr.changeId ELSE cr.changeId
      BY <2>1, RoundTripKeeps, CopyMade DEF IInv
    <2>3. /\ pc \notin Creating /\ pc # "idle"
          /\ next \in ControlPoints \ {"removeFinalizer"} /\ next \notin Creating /\ next # "idle"
          /\ UNCHANGED <<dir, changes, gerrit, calm>>
      BY DEF GetGerritClient, Creating, ControlPoints
    <2>4. /\ CopyOf(RoundTrip(c), TRUE).cr.changeId <= Len(changes)
          /\ cr.changeId # 0 => CopyOf(RoundTrip(c), TRUE).cr.changeId = cr.changeId
      BY <2>2 DEF IInv, NumbersArePushed
    <2> QED  BY <1>2, <2>1, <2>2, <2>3, <2>4, UpdateAndKeeps
  <1> QED  BY <1>1, <1>2 DEF GetGerritClient

LEMMA AddFinalizerKeeps == ASSUME IInv, AddFinalizer PROVE IInv'
  <1> DEFINE c == [cr EXCEPT !.finalizer = TRUE]
             d == [c EXCEPT !.changeId = inst.cr.changeId, !.value = inst.cr.value]
  <1>1. c \in Cr /\ c.changeId = cr.changeId
    <2>1. cr \in Cr
      BY Types DEF IInv
    <2> QED  BY <2>1 DEF Cr
  <1>2. d \in Cr /\ d.changeId = inst.cr.changeId
    <2>1. inst \in Copies
      BY Types DEF IInv
    <2> QED  BY <1>1, <2>1 DEF Cr, Copies
  <1>3. UpdateAnd(c, CopyOf(d, TRUE), "status")
    BY DEF AddFinalizer
  <1> HIDE DEF c, d
  <1>4. CopyOf(d, TRUE) \in Copies /\ CopyOf(d, TRUE).cr.changeId = inst.cr.changeId
    BY <1>2, CopyMade
  <1>5. pc \notin Creating /\ pc # "idle" /\ UNCHANGED <<dir, changes, gerrit, calm>>
    BY DEF AddFinalizer, Creating
  <1>6. "status" \in ControlPoints \ {"removeFinalizer"} /\ "status" \notin Creating
    BY DEF ControlPoints, Creating
  <1>7. inst.cr.changeId <= Len(changes)
    BY DEF IInv, NumbersArePushed
  <1>8. inst.fresh /\ cr.changeId # 0 => CopyOf(d, TRUE).cr.changeId = cr.changeId
    BY <1>4 DEF IInv, CopiesAgree
  <1>9. CopyOf(d, TRUE).cr.changeId <= Len(changes)
    BY <1>4, <1>7
  <1> QED  BY <1>1, <1>3, <1>4, <1>5, <1>6, <1>8, <1>9, UpdateAndKeeps

LEMMA RemoveFinalizerKeeps == ASSUME IInv, RemoveFinalizer PROVE IInv'
  <1> DEFINE c == [cr EXCEPT !.phase = "gone", !.finalizer = FALSE]
             i == [inst EXCEPT !.fresh = FALSE]
  <1>1. c \in Cr /\ c.changeId = cr.changeId
    <2>1. cr \in Cr /\ "gone" \in Phases
      BY Types DEF IInv, Phases
    <2> QED  BY <2>1 DEF Cr
  <1>2. i \in Copies /\ i.cr = inst.cr
    <2>1. inst \in Copies
      BY Types DEF IInv
    <2> QED  BY <2>1 DEF Copies
  <1>3. UpdateAnd(c, i, "status")
    BY DEF RemoveFinalizer
  <1> HIDE DEF c, i
  <1>4. pc \notin Creating /\ pc # "idle" /\ UNCHANGED <<dir, changes, gerrit, calm>>
    BY DEF RemoveFinalizer, Creating
  <1>5. "status" \in ControlPoints \ {"removeFinalizer"} /\ "status" \notin Creating
    BY DEF ControlPoints, Creating
  <1>6. i.cr.changeId <= Len(changes)
    BY <1>2 DEF IInv, NumbersArePushed
  <1>7. inst.fresh /\ cr.changeId # 0 => i.cr.changeId = cr.changeId
    BY <1>2 DEF IInv, CopiesAgree
  <1> QED  BY <1>1, <1>2, <1>3, <1>4, <1>5, <1>6, <1>7, UpdateAndKeeps

LEMMA GetStatusKeeps == ASSUME IInv, GetStatus PROVE IInv'
  <1>1. inst \in Copies /\ changes \in Seq(ChangeStatuses)
    BY Types DEF IInv
  <1>2. changes[inst.cr.changeId] \in Values
    <2>1. changes[inst.cr.changeId] \in ChangeStatuses \ {"deleted"}
      BY <1>1 DEF GetStatus, Found
    <2> QED  BY <2>1 DEF ChangeStatuses, Values
  <1>3. inst' \in Copies /\ inst'.fresh = inst.fresh /\ inst'.cr.changeId = inst.cr.changeId
    <2>1. inst' = [inst EXCEPT !.cr.value = changes[inst.cr.changeId]]
      BY DEF GetStatus
    <2> QED  BY <1>1, <1>2, <2>1 DEF Copies, Cr
  <1>4. /\ pc' \in {"deleteOwner", "status", "addFinalizer"}
        /\ UNCHANGED <<cr, cache, edited, queued, new, dir, changes, gerrit, calm>>
    BY DEF GetStatus, Deletion, kube
  <1>5. TypeOK'
    BY <1>3, <1>4 DEF IInv, TypeOK, Copies, ControlPoints
  <1>6. CopiesAgree' /\ NumbersArePushed' /\ ClosedBeforeRelease'
    BY <1>3, <1>4, Types
       DEF IInv, CopiesAgree, NumbersArePushed, ClosedBeforeRelease, Creating
  <1> QED  BY <1>5, <1>6 DEF IInv

LEMMA GetStatusToDeleteKeeps == ASSUME IInv, GetStatusToDelete PROVE IInv'
  <1>1. /\ pc' \in {"abandon", "removeFinalizer"}
        /\ UNCHANGED <<cr, cache, edited, queued, inst, new, dir, changes, gerrit, calm>>
    BY DEF GetStatusToDelete, Goto, kube
  <1>2. TypeOK'
    BY <1>1 DEF IInv, TypeOK, ControlPoints
  <1>3. CopiesAgree' /\ NumbersArePushed'
    BY <1>1 DEF IInv, CopiesAgree, NumbersArePushed, GetStatusToDelete, Creating
  <1>4. ClosedBeforeRelease'
    BY <1>1 DEF ClosedBeforeRelease, GetStatusToDelete, Goto, Found
  <1> QED  BY <1>2, <1>3, <1>4 DEF IInv

LEMMA AbandonKeeps == ASSUME IInv, Abandon PROVE IInv'
  <1> DEFINE k == inst.cr.changeId
             cs == [changes EXCEPT ![k] = "ABANDONED"]
  <1>1. changes \in Seq(ChangeStatuses) /\ k \in 1..Len(changes) /\ Len(changes) \in Nat
    BY Types DEF IInv, Abandon, Found
  <1>2. cs \in Seq(ChangeStatuses) /\ Len(cs) = Len(changes) /\ cs[k] = "ABANDONED"
    BY <1>1 DEF ChangeStatuses
  <1>3. changes' = cs /\ UNCHANGED <<cr, cache, edited, dir, gerrit, calm>>
    BY DEF Abandon, kube
  <1> HIDE DEF cs
  <1>4. CASE Goto("removeFinalizer")
    <2>1. TypeOK'
      BY <1>2, <1>3, <1>4 DEF IInv, TypeOK, Goto, ControlPoints
    <2>2. CopiesAgree' /\ NumbersArePushed'
      BY <1>2, <1>3, <1>4 DEF IInv, CopiesAgree, NumbersArePushed, Abandon, Goto, Creating
    <2>3. ClosedBeforeRelease'
      BY <1>1, <1>2, <1>3, <1>4 DEF ClosedBeforeRelease, Goto
    <2> QED  BY <2>1, <2>2, <2>3 DEF IInv
  <1>5. CASE Fail
    <2>1. TypeOK'
      BY <1>2, <1>3, <1>5, FailKeeps DEF IInv, TypeOK, Copies, ControlPoints
    <2>2. CopiesAgree' /\ NumbersArePushed' /\ ClosedBeforeRelease'
      BY <1>2, <1>3, <1>5, FailKeeps, Types
         DEF IInv, CopiesAgree, NumbersArePushed, ClosedBeforeRelease, Creating
    <2> QED  BY <2>1, <2>2 DEF IInv
  <1> QED  BY <1>4, <1>5 DEF Abandon, Then

LEMMA ReturnKeeps ==
    ASSUME IInv, NEW b \in BOOLEAN, Return(b)
    PROVE  /\ inst' \in Copies /\ ~inst'.fresh /\ inst'.cr.changeId = 0
           /\ pc' = "idle" /\ new' = 0 /\ queued' \in BOOLEAN
  BY NoInstType DEF Return, IInv, TypeOK

\* A run ends: whatever it read is forgotten.
LEMMA EndKeeps ==
    ASSUME IInv, NEW b \in BOOLEAN, Return(b),
           cr' \in Cr, cache' \in Copies, cache'.fresh => cache'.cr = cr',
           cr'.changeId <= Len(changes), cache'.cr.changeId <= Len(changes),
           UNCHANGED <<edited, dir, changes, gerrit, calm>>
    PROVE  IInv'
  <1>1. TypeOK'
    BY ReturnKeeps DEF IInv, TypeOK, Copies, ControlPoints
  <1>2. CopiesAgree' /\ NumbersArePushed' /\ ClosedBeforeRelease'
    BY ReturnKeeps, Types DEF IInv, CopiesAgree, NumbersArePushed, ClosedBeforeRelease, Creating
  <1> QED  BY <1>1, <1>2 DEF IInv

LEMMA UpdateStatusKeeps == ASSUME IInv, UpdateStatus PROVE IInv'
  <1>1. PICK b \in BOOLEAN : Return(b)
    <2>1. \/ Return(TRUE)
          \/ Return(inst.cr.value \in {"NEW", "error"})
      BY DEF UpdateStatus
    <2>2. (inst.cr.value \in {"NEW", "error"}) \in BOOLEAN
      OBVIOUS
    <2> QED  BY <2>1, <2>2
  <1>2. UNCHANGED <<edited, dir, changes, gerrit, calm>>
    BY DEF UpdateStatus
  <1>3. cr' \in Cr /\ cr'.changeId <= Len(changes)
    <2>1. CASE cr' = [cr EXCEPT !.changeId = inst.cr.changeId, !.value = inst.cr.value]
      <3>1. cr \in Cr /\ inst \in Copies /\ inst.cr.changeId <= Len(changes)
        BY Types DEF IInv, NumbersArePushed
      <3> QED  BY <2>1, <3>1 DEF Cr, Copies
    <2>2. CASE cr' = cr
      BY <2>2, Types DEF IInv, NumbersArePushed
    <2> QED  BY <2>1, <2>2 DEF UpdateStatus
  <1>4. cache' \in Copies /\ cache'.cr = cache.cr /\ (cache'.fresh => cache.fresh /\ cr' = cr)
    <2>1. cache \in Copies
      BY Types DEF IInv
    <2>2. CASE cache' = [cache EXCEPT !.fresh = @ /\ cr' = cr]
      BY <2>1, <2>2 DEF Copies
    <2>3. CASE cr' = cr /\ cache' = cache
      BY <2>1, <2>3
    <2> QED  BY <2>2, <2>3 DEF UpdateStatus
  <1>5. (cache'.fresh => cache'.cr = cr') /\ cache'.cr.changeId <= Len(changes)
    BY <1>4 DEF IInv, CopiesAgree, NumbersArePushed
  <1> QED  BY <1>1, <1>2, <1>3, <1>4, <1>5, EndKeeps

LEMMA FailuresKeep == ASSUME IInv, CallFails \/ StatusUpdateFails PROVE IInv'
  <1>1. CASE CallFails
    <2>1. TypeOK'
      BY <1>1, FailKeeps DEF IInv, TypeOK, CallFails, kube, Copies, ControlPoints
    <2>2. CopiesAgree' /\ NumbersArePushed' /\ ClosedBeforeRelease'
      BY <1>1, FailKeeps, Types
         DEF IInv, CopiesAgree, NumbersArePushed, ClosedBeforeRelease, CallFails, kube, Creating
    <2> QED  BY <2>1, <2>2 DEF IInv
  <1>2. CASE StatusUpdateFails
    <2>1. Return(TRUE) /\ UNCHANGED <<cr, cache, edited, dir, changes, gerrit, calm>>
      BY <1>2 DEF StatusUpdateFails, kube
    <2> QED  BY <2>1, Types, EndKeeps DEF IInv, CopiesAgree, NumbersArePushed
  <1> QED  BY <1>1, <1>2

----------------------------------------------------------------------------
(* What happens around the handler. *)

LEMMA CrashKeeps == ASSUME IInv, OperatorCrash PROVE IInv'
  <1>1. inst' \in Copies /\ ~inst'.fresh /\ inst'.cr.changeId = 0
    BY NoInstType DEF OperatorCrash
  <1>2. cache' \in Copies /\ cache'.cr = cr
    BY Types, CopyMade DEF IInv, OperatorCrash
  <1>3. TypeOK'
    BY <1>1, <1>2 DEF IInv, TypeOK, OperatorCrash, Copies, ControlPoints
  <1>4. pc' = "idle" /\ UNCHANGED <<cr, changes>>
    BY DEF OperatorCrash
  <1>5. CopiesAgree' /\ NumbersArePushed' /\ ClosedBeforeRelease'
    BY <1>1, <1>2, <1>4, Types
       DEF IInv, CopiesAgree, NumbersArePushed, ClosedBeforeRelease, Creating
  <1> QED  BY <1>3, <1>5 DEF IInv

LEMMA CacheSyncKeeps == ASSUME IInv, CacheSync PROVE IInv'
  <1>1. cache' \in Copies /\ cache'.cr = cr
    BY Types, CopyMade DEF IInv, CacheSync
  <1>2. queued' \in BOOLEAN
    BY DEF CacheSync, IInv, TypeOK
  <1>3. TypeOK'
    BY <1>1, <1>2 DEF IInv, TypeOK, CacheSync, Copies
  <1>4. CopiesAgree' /\ NumbersArePushed' /\ ClosedBeforeRelease'
    BY <1>1, Types
       DEF IInv, CopiesAgree, NumbersArePushed, ClosedBeforeRelease, CacheSync, Creating
  <1> QED  BY <1>3, <1>4 DEF IInv

LEMMA WrittenKeeps ==
    ASSUME IInv, NEW c \in Cr, c.changeId = cr.changeId, Written(c),
           edited' \in BOOLEAN, gerrit' \in BOOLEAN
    PROVE  IInv'
  <1>1. cache \in Copies /\ inst \in Copies
    BY Types DEF IInv
  <1>2. cache' \in Copies /\ ~cache'.fresh /\ cache'.cr = cache.cr
    BY <1>1 DEF Written, Copies
  <1>3. inst' \in Copies /\ ~inst'.fresh /\ inst'.cr = inst.cr
    BY <1>1 DEF Written, Copies
  <1>4. TypeOK'
    BY <1>2, <1>3 DEF IInv, TypeOK, Written, Copies
  <1>5. CopiesAgree' /\ NumbersArePushed' /\ ClosedBeforeRelease'
    BY <1>2, <1>3 DEF IInv, CopiesAgree, NumbersArePushed, ClosedBeforeRelease, Written, Creating
  <1> QED  BY <1>4, <1>5 DEF IInv

LEMMA CrEditedKeeps == ASSUME IInv, CrEdited PROVE IInv'
  <1>1. edited' \in BOOLEAN /\ gerrit' \in BOOLEAN
    BY DEF CrEdited, IInv, TypeOK
  <1>2. CASE Written(cr)
    BY <1>1, <1>2, Types, WrittenKeeps DEF IInv
  <1>3. CASE \E b \in BOOLEAN : Written([cr EXCEPT !.complete = b])
    <2>1. PICK b \in BOOLEAN : Written([cr EXCEPT !.complete = b])
      BY <1>3
    <2>2. cr \in Cr
      BY Types DEF IInv
    <2>3. [cr EXCEPT !.complete = b] \in Cr /\ [cr EXCEPT !.complete = b].changeId = cr.changeId
      BY <2>2 DEF Cr
    <2> QED  BY <1>1, <2>1, <2>3, WrittenKeeps
  <1> QED  BY <1>2, <1>3 DEF CrEdited

LEMMA DeletedKeeps == ASSUME IInv, CrDeleted \/ Collected PROVE IInv'
  <1>1. edited' \in BOOLEAN /\ gerrit' \in BOOLEAN
    BY DEF CrDeleted, Collected, IInv, TypeOK
  <1>2. PICK p \in Phases : Written([cr EXCEPT !.phase = p])
    <2>1. (IF cr.finalizer THEN "deleting" ELSE "gone") \in Phases
      BY DEF Phases
    <2> QED  BY <2>1 DEF CrDeleted, Collected, Deleted
  <1>3. cr \in Cr
    BY Types DEF IInv
  <1>4. [cr EXCEPT !.phase = p] \in Cr /\ [cr EXCEPT !.phase = p].changeId = cr.changeId
    BY <1>3 DEF Cr
  <1> QED  BY <1>1, <1>2, <1>4, WrittenKeeps

LEMMA UserActsKeep == ASSUME IInv, UserActs PROVE IInv'
  <1>1. PICK k \in DOMAIN changes, m \in Moves :
            /\ m[1] \in UserActions
            /\ changes[k] = m[2]
            /\ changes' = [changes EXCEPT ![k] = m[3]]
    BY DEF UserActs
  <1>2. changes \in Seq(ChangeStatuses) /\ Len(changes) \in Nat
    BY Types DEF IInv
  <1>3. m[3] \in ChangeStatuses /\ (m[3] = "NEW" => m[1] = "restore")
    BY DEF Moves, ChangeStatuses
  <1>4. k \in 1..Len(changes)
    BY <1>2
  <1>5. /\ changes' \in Seq(ChangeStatuses) /\ Len(changes') = Len(changes)
        /\ \A j \in 1..Len(changes) : changes'[j] = IF j = k THEN m[3] ELSE changes[j]
    BY <1>1, <1>2, <1>3, <1>4
  <1>6. UNCHANGED <<cr, cache, edited, queued, pc, inst, new, dir, gerrit, calm>>
    BY DEF UserActs, kube, local
  <1>7. TypeOK'
    BY <1>5, <1>6 DEF IInv, TypeOK
  <1>8. CopiesAgree' /\ NumbersArePushed'
    BY <1>5, <1>6 DEF IInv, CopiesAgree, NumbersArePushed, Creating
  <1>9. ClosedBeforeRelease'
    BY <1>1, <1>3, <1>5, <1>6 DEF IInv, ClosedBeforeRelease
  <1> QED  BY <1>7, <1>8, <1>9 DEF IInv

LEMMA QuietKeeps ==
    ASSUME IInv, GerritDeleted \/ CallsStopFailing \/ UNCHANGED vars
    PROVE  IInv'
  <1>1. /\ UNCHANGED <<cr, cache, edited, queued, pc, inst, new, dir, changes>>
        /\ gerrit' \in BOOLEAN /\ calm' \in BOOLEAN
    BY DEF GerritDeleted, CallsStopFailing, vars, kube, local, IInv, TypeOK
  <1>2. TypeOK'
    BY <1>1 DEF IInv, TypeOK
  <1>3. CopiesAgree' /\ NumbersArePushed' /\ ClosedBeforeRelease'
    BY <1>1 DEF IInv, CopiesAgree, NumbersArePushed, ClosedBeforeRelease, Creating
  <1> QED  BY <1>2, <1>3 DEF IInv

----------------------------------------------------------------------------
(* Theorems. *)

LEMMA NextKeeps == ASSUME IInv, [Next]_vars PROVE IInv'
  <1>1. CASE Reconcile
    BY <1>1, BeginKeeps, PrepareKeeps, PushKeeps, RemoveCloneKeeps, GetGerritClientKeeps,
       GetStatusKeeps, AddFinalizerKeeps, GetStatusToDeleteKeeps, AbandonKeeps,
       RemoveFinalizerKeeps, UpdateStatusKeeps, FailuresKeep DEF Reconcile
  <1>2. CASE Environment
    BY <1>2, CrashKeeps, CacheSyncKeeps, CrEditedKeeps, DeletedKeeps, UserActsKeep,
       QuietKeeps DEF Environment
  <1>3. CASE UNCHANGED vars
    BY <1>3, QuietKeeps
  <1> QED  BY <1>1, <1>2, <1>3 DEF Next

\* The inductive invariant of the merge request's controller.
THEOREM Invariance == Spec => []IInv
  <1>1. Init => IInv
    BY InitInv
  <1>2. IInv /\ [Next]_vars => IInv'
    BY NextKeeps
  <1> QED  BY <1>1, <1>2, PTL DEF Spec

\* Every variable of the merge request's controller keeps its type.
THEOREM TypeCorrect == Spec => []TypeOK
  <1>1. IInv => TypeOK
    BY DEF IInv
  <1> QED  BY <1>1, Invariance, PTL

\* No CR records a change that was not pushed, whatever became of the push's
\* answer, the clone, and the write that recorded it.
THEOREM RecordsArePushed == Spec => []RecordedWasPushed
  <1>1. IInv => RecordedWasPushed
    BY DEF IInv, NumbersArePushed, RecordedWasPushed
  <1> QED  BY <1>1, Invariance, PTL

\* Who writes the CR, and what.
LEMMA CrWrites ==
    ASSUME [Next]_vars
    PROVE  \/ cr' = cr
           \/ cr' = [cr EXCEPT !.owned = TRUE]
           \/ /\ inst.fresh /\ pc = "addFinalizer"
              /\ cr' = [cr EXCEPT !.finalizer = TRUE]
           \/ \E b \in BOOLEAN : cr' = [cr EXCEPT !.complete = b]
           \/ /\ cr.phase = "live"
              /\ cr' = [cr EXCEPT !.phase = IF cr.finalizer THEN "deleting" ELSE "gone"]
           \/ /\ inst.fresh /\ RemoveFinalizer
              /\ cr' = [cr EXCEPT !.phase = "gone", !.finalizer = FALSE]
           \/ /\ inst.fresh
              /\ cr' = [cr EXCEPT !.changeId = inst.cr.changeId, !.value = inst.cr.value]
  <1>1. CASE Begin \/ GetGitClient \/ Clone \/ BuildCommit \/ Push \/ RemoveClone
             \/ GetStatus \/ GetStatusToDelete \/ Abandon \/ CallFails \/ StatusUpdateFails
             \/ OperatorCrash \/ CacheSync \/ GerritDeleted \/ UserActs \/ CallsStopFailing
             \/ UNCHANGED vars
    BY <1>1 DEF Begin, GetGitClient, Clone, BuildCommit, Push, RemoveClone, GetStatus,
            GetStatusToDelete, Abandon, CallFails, StatusUpdateFails, OperatorCrash,
            CacheSync, GerritDeleted, UserActs, CallsStopFailing, kube, vars
  <1>2. CASE GetGerritClient("owner", "get") \/ GetGerritClient("deleteOwner", "deleteGet")
    <2>1. cr' = cr \/ cr' = [cr EXCEPT !.owned = TRUE]
      BY <1>2, Zenon DEF GetGerritClient, UpdateAnd, Update, kube
    <2> QED  BY <2>1
  <1>3. CASE AddFinalizer
    <2>1. cr' = cr \/ (inst.fresh /\ cr' = [cr EXCEPT !.finalizer = TRUE])
      BY <1>3, Zenon DEF AddFinalizer, UpdateAnd, Update, kube
    <2>2. pc = "addFinalizer"
      BY <1>3 DEF AddFinalizer
    <2> QED  BY <2>1, <2>2
  <1>4. CASE RemoveFinalizer
    <2>1. \/ cr' = cr
          \/ inst.fresh /\ cr' = [cr EXCEPT !.phase = "gone", !.finalizer = FALSE]
      BY <1>4, Zenon DEF RemoveFinalizer, UpdateAnd, Update, kube
    <2> QED  BY <1>4, <2>1
  <1>5. CASE UpdateStatus
    BY <1>5, Zenon DEF UpdateStatus
  <1>6. CASE CrEdited
    <2>1. cr' = cr \/ \E b \in BOOLEAN : cr' = [cr EXCEPT !.complete = b]
      BY <1>6, Zenon DEF CrEdited, Written
    <2> QED  BY <2>1
  <1>7. CASE CrDeleted \/ Collected
    <2>1. /\ cr.phase = "live"
          /\ cr' = [cr EXCEPT !.phase = IF cr.finalizer THEN "deleting" ELSE "gone"]
      BY <1>7, Zenon DEF CrDeleted, Collected, Deleted, Written
    <2> QED  BY <2>1
  <1> QED  BY <1>1, <1>2, <1>3, <1>4, <1>5, <1>6, <1>7 DEF Next, Reconcile, Environment

\* A CR keeps the change it has recorded: a handler that started from a copy
\* without it can push another change, but not record it.
THEOREM RecordsAreKept == Spec => RecordedNeverReplaced
  <1>1. ASSUME IInv, [Next]_vars
        PROVE  cr.changeId # 0 => cr'.changeId = cr.changeId
    <2>1. cr \in Cr /\ inst \in Copies
      BY <1>1, Types DEF IInv
    <2>2. cr'.changeId = cr.changeId \/ (inst.fresh /\ cr'.changeId = inst.cr.changeId)
      BY <1>1, <2>1, CrWrites DEF Cr
    <2> QED  BY <1>1, <2>2 DEF IInv, CopiesAgree
  <1>2. IInv /\ [Next]_vars => [cr.changeId # 0 => cr'.changeId = cr.changeId]_vars
    BY <1>1
  <1> QED  BY <1>2, Invariance, PTL DEF Spec, RecordedNeverReplaced

\* Where nobody restores changes, a CR is released only when the change it has
\* recorded is closed: the check and the release are two steps, and neither
\* people nor a second change come between them.
THEOREM ReleaseAfterClosing ==
    ASSUME "restore" \notin UserActions
    PROVE  Spec => DeletionClosesTheChange
  <1>1. ASSUME IInv, [Next]_vars, cr.phase = "deleting", cr'.phase = "gone", cr.changeId # 0
        PROVE  changes'[cr.changeId] # "NEW"
    <2>1. RemoveFinalizer /\ inst.fresh
      <3>1. cr \in Cr
        BY <1>1, Types DEF IInv
      <3> QED  BY <1>1, <3>1, CrWrites DEF Cr
    <2> QED  BY <1>1, <2>1 DEF RemoveFinalizer, IInv, CopiesAgree, ClosedBeforeRelease
  <1>2. IInv /\ [Next]_vars
          => [cr.phase = "deleting" /\ cr'.phase = "gone" /\ cr.changeId # 0
                => changes'[cr.changeId] # "NEW"]_vars
    BY <1>1
  <1> QED  BY <1>2, Invariance, PTL DEF Spec, DeletionClosesTheChange

----------------------------------------------------------------------------
(* The CR's phase, the queue and the finalizer. *)

\* Where TryToDelete takes the finalizer off.
DeletionCalls == {"deleteOwner", "deleteGet", "abandon", "removeFinalizer"}

\* The values with which a run over a live CR ends well.
Answers == Closed \cup {"NEW"}

\* A copy of the CR is never ahead of it.
PhasesFollow ==
    /\ inst.fresh => inst.cr.phase = cr.phase
    /\ cache.cr.phase = "deleting" => cr.phase # "live"
    /\ cache.cr.phase = "gone" => cr.phase = "gone"

\* What the handler is about to do fits the CR it has read.
CallFits ==
    /\ pc # "idle" => inst.cr.phase # "gone"
    /\ pc \in DeletionCalls => inst.cr.phase = "deleting"
    /\ pc = "addFinalizer" => inst.cr.phase = "live" /\ inst.cr.value \in Answers
    /\ pc = "status" /\ inst.fresh
          => \/ inst.cr.value = "error"
             \/ inst.cr.phase = "live" /\ inst.cr.value \in Answers

\* NothingForgotten, but for the age of the cache.
WakeUpDue ==
    \/ cr.phase = "gone"
    \/ cr.phase = "live" /\ cr.value \in Closed
    \/ pc # "idle"
    \/ queued
    \/ edited
    \/ cache.cr.phase # cr.phase

PhaseInv == PhasesFollow /\ CallFits /\ WakeUpDue

\* A copy of the CR with another status, or with other metadata.
LEMMA StatusWritten ==
    ASSUME NEW i \in Copies, NEW v \in Values
    PROVE  /\ [i EXCEPT !.cr.value = v].fresh = i.fresh
           /\ [i EXCEPT !.cr.value = v].cr.phase = i.cr.phase
           /\ [i EXCEPT !.cr.value = v].cr.value = v
  BY DEF Copies, Cr

LEMMA ChangeWritten ==
    ASSUME NEW i \in Copies, NEW k \in Nat, NEW v \in Values
    PROVE  /\ [i EXCEPT !.cr.changeId = k, !.cr.value = v].fresh = i.fresh
           /\ [i EXCEPT !.cr.changeId = k, !.cr.value = v].cr.phase = i.cr.phase
           /\ [i EXCEPT !.cr.changeId = k, !.cr.value = v].cr.value = v
  BY DEF Copies, Cr

LEMMA CrTyped ==
    ASSUME IInv
    PROVE  cr \in Cr /\ cr.phase \in Phases /\ inst \in Copies /\ cache \in Copies
  BY Types DEF IInv, Cr

LEMMA InitPhases == ASSUME Init PROVE PhaseInv
  <1>1. queued /\ pc = "idle" /\ ~inst.fresh
    BY NoInstType DEF Init
  <1>2. cache.cr = cr
    BY DEF Init, CopyOf
  <1>3. cr.phase = "live"
    <2>1. cr = NewCr \/ cr = [NewCr EXCEPT !.complete = FALSE]
      BY DEF Init
    <2>2. NewCr.phase = "live" /\ [NewCr EXCEPT !.complete = FALSE].phase = "live"
      BY DEF NewCr
    <2> QED  BY <2>1, <2>2
  <1>4. PhasesFollow
    BY <1>1, <1>2, <1>3 DEF PhasesFollow
  <1>5. CallFits
    BY <1>1 DEF CallFits, DeletionCalls
  <1>6. WakeUpDue
    BY <1>1 DEF WakeUpDue
  <1> QED  BY <1>4, <1>5, <1>6 DEF PhaseInv

\* While the handler runs nothing is forgotten, and only its own call matters.
LEMMA RunningKeeps ==
    ASSUME IInv, PhaseInv, pc' # "idle", cache' = cache,
           UNCHANGED cr, inst'.fresh => inst'.cr.phase = cr.phase, CallFits'
    PROVE  PhaseInv'
  BY DEF PhaseInv, PhasesFollow, WakeUpDue

\* An error becomes the status, whatever the CR's phase.
LEMMA FailFits ==
    ASSUME IInv, PhaseInv, pc # "idle", Fail
    PROVE  /\ pc' = "status" /\ CallFits'
           /\ inst'.fresh = inst.fresh /\ inst'.cr.phase = inst.cr.phase
  <1>1. /\ inst'.fresh = inst.fresh /\ inst'.cr.phase = inst.cr.phase
        /\ inst'.cr.value = "error" /\ pc' = "status"
    <2>1. "error" \in Values
      BY DEF Values
    <2>2. inst' = [inst EXCEPT !.cr.value = "error"] /\ pc' = "status"
      BY DEF Fail
    <2> QED  BY <2>1, <2>2, CrTyped, StatusWritten
  <1> QED  BY <1>1 DEF PhaseInv, CallFits, DeletionCalls

\* The next call after a status was computed fits the CR.
LEMMA DeletionFits ==
    ASSUME NEW i \in Copies, i.cr.phase # "gone", pc' = Deletion(i),
           inst'.cr.phase = i.cr.phase, inst'.cr.value \in Answers
    PROVE  pc' # "idle" /\ CallFits'
  <1>1. i.cr.phase \in Phases
    BY CopyParts DEF Cr
  <1>2. CASE i.cr.phase = "live"
    <2>1. pc' \in {"status", "addFinalizer"}
      BY <1>2 DEF Deletion
    <2> QED  BY <1>2, <2>1 DEF CallFits, DeletionCalls
  <1>3. CASE i.cr.phase = "deleting"
    <2>1. pc' = "deleteOwner"
      BY <1>3 DEF Deletion
    <2> QED  BY <1>3, <2>1 DEF CallFits, DeletionCalls
  <1> QED  BY <1>1, <1>2, <1>3 DEF Phases

LEMMA BeginKeepsPhases == ASSUME IInv, PhaseInv, Begin PROVE PhaseInv'
  <1>1. UNCHANGED <<cr, cache>>
    BY DEF Begin, kube
  <1>2. cache.fresh => cache.cr = cr
    BY DEF IInv, CopiesAgree
  <1>3. CASE cache.cr.phase = "gone"
    <2>1. cr.phase = "gone" /\ pc = "idle" /\ ~inst.fresh
      BY <1>3 DEF PhaseInv, PhasesFollow, Begin, IInv, CopiesAgree
    <2>2. UNCHANGED <<pc, inst>>
      BY <1>3 DEF Begin
    <2> QED  BY <1>1, <2>1, <2>2
         DEF PhaseInv, PhasesFollow, CallFits, WakeUpDue, DeletionCalls
  <1>4. CASE cache.cr.phase # "gone" /\ cache.cr.changeId = 0 /\ ~cache.cr.complete
    <2>1. inst' = [cache EXCEPT !.cr.value = "error"] /\ pc' = "status"
      BY <1>4 DEF Begin
    <2>2. /\ inst'.fresh = cache.fresh /\ inst'.cr.phase = cache.cr.phase
          /\ inst'.cr.value = "error"
      <3>1. "error" \in Values
        BY DEF Values
      <3> QED  BY <2>1, <3>1, CrTyped, StatusWritten
    <2>3. CallFits'
      BY <1>4, <2>1, <2>2 DEF CallFits, DeletionCalls
    <2> QED  BY <1>1, <1>2, <2>1, <2>2, <2>3, RunningKeeps
  <1>5. CASE cache.cr.phase # "gone" /\ (cache.cr.changeId # 0 \/ cache.cr.complete)
    <2>1. inst' = cache /\ pc' \in {"gitClient", "owner"}
      BY <1>5 DEF Begin
    <2>2. CallFits'
      BY <1>5, <2>1 DEF CallFits, DeletionCalls
    <2> QED  BY <1>1, <1>2, <2>1, <2>2, RunningKeeps
  <1> QED  BY <1>3, <1>4, <1>5

LEMMA CreatingKeepsPhases ==
    ASSUME IInv, PhaseInv, GetGitClient \/ Clone \/ BuildCommit \/ Push
    PROVE  PhaseInv'
  <1>1. /\ pc' \in {"clone", "build", "push", "cleanup", "cleanupFailed"}
        /\ UNCHANGED <<cr, cache, inst>> /\ pc # "idle"
    BY DEF GetGitClient, Clone, BuildCommit, Push, Goto, kube
  <1>2. CallFits'
    BY <1>1 DEF PhaseInv, CallFits, DeletionCalls
  <1> QED  BY <1>1, <1>2, RunningKeeps DEF PhaseInv, PhasesFollow

LEMMA RemoveCloneKeepsPhases == ASSUME IInv, PhaseInv, RemoveClone PROVE PhaseInv'
  <1>1. UNCHANGED <<cr, cache>> /\ pc # "idle"
    BY DEF RemoveClone, kube
  <1>2. CASE Fail
    BY <1>1, <1>2, FailFits, RunningKeeps DEF PhaseInv, PhasesFollow
  <1>3. CASE ~Fail
    <2>1. /\ inst' = [inst EXCEPT !.cr.changeId = new, !.cr.value = "NEW"]
          /\ pc' = Deletion(inst)
      BY <1>3 DEF RemoveClone
    <2>2. /\ inst'.fresh = inst.fresh /\ inst'.cr.phase = inst.cr.phase
          /\ inst'.cr.value = "NEW"
      <3>1. "NEW" \in Values /\ new \in Nat
        BY Types DEF Values, IInv
      <3> QED  BY <2>1, <3>1, CrTyped, ChangeWritten
    <2>3. inst.cr.phase # "gone" /\ "NEW" \in Answers
      BY <1>1 DEF PhaseInv, CallFits, Answers
    <2>4. pc' # "idle" /\ CallFits'
      BY <2>1, <2>2, <2>3, CrTyped, DeletionFits
    <2> QED  BY <1>1, <2>2, <2>4, RunningKeeps DEF PhaseInv, PhasesFollow
  <1> QED  BY <1>2, <1>3

LEMMA GetStatusKeepsPhases == ASSUME IInv, PhaseInv, GetStatus PROVE PhaseInv'
  <1>1. UNCHANGED <<cr, cache>> /\ pc # "idle"
    BY DEF GetStatus, kube
  <1>2. changes[inst.cr.changeId] \in Values \cap Answers
    <2>1. changes[inst.cr.changeId] \in ChangeStatuses \ {"deleted"}
      BY Types DEF IInv, GetStatus, Found
    <2> QED  BY <2>1 DEF ChangeStatuses, Values, Answers, Closed
  <1>3. /\ inst'.fresh = inst.fresh /\ inst'.cr.phase = inst.cr.phase
        /\ inst'.cr.value \in Answers
    <2>1. inst' = [inst EXCEPT !.cr.value = changes[inst.cr.changeId]]
      BY DEF GetStatus
    <2> QED  BY <1>2, <2>1, CrTyped, StatusWritten
  <1>4. pc' = Deletion(inst) /\ inst.cr.phase # "gone"
    BY <1>1 DEF GetStatus, PhaseInv, CallFits
  <1>5. pc' # "idle" /\ CallFits'
    BY <1>3, <1>4, CrTyped, DeletionFits
  <1> QED  BY <1>1, <1>3, <1>5, RunningKeeps DEF PhaseInv, PhasesFollow

\* A write that keeps the CR's phase, or takes the CR away.
LEMMA UpdateAndKeepsPhases ==
    ASSUME IInv, PhaseInv, pc # "idle", NEW c, NEW i, NEW next,
           UpdateAnd(c, i, next), next # "idle",
           c.phase = cr.phase \/ c.phase = "gone",
           i.fresh => i.cr.phase = c.phase,
           inst.fresh /\ inst' = i /\ pc' = next => CallFits'
    PROVE  PhaseInv'
  <1>1. CASE Update(c, i) /\ pc' = next /\ UNCHANGED <<queued, new>>
    <2>1. inst.fresh /\ cr' = c /\ inst' = i /\ cache' = [cache EXCEPT !.fresh = FALSE]
      BY <1>1 DEF Update
    <2>2. cache'.cr = cache.cr
      BY <2>1, CrTyped DEF Copies
    <2> QED  BY <1>1, <2>1, <2>2 DEF PhaseInv, PhasesFollow, WakeUpDue
  <1>2. CASE /\ Update(c, CopyOf([inst.cr EXCEPT !.value = "error"], FALSE))
             /\ pc' = "status" /\ new' = 0 /\ UNCHANGED queued
    <2>1. cr' = c /\ cache' = [cache EXCEPT !.fresh = FALSE]
      BY <1>2 DEF Update
    <2>2. cache'.cr = cache.cr
      BY <2>1, CrTyped DEF Copies
    <2>3. ~inst'.fresh /\ inst'.cr = [inst.cr EXCEPT !.value = "error"]
      BY <1>2 DEF Update, CopyOf
    <2>4. inst'.cr.phase = inst.cr.phase
      BY <2>3, CrTyped, CopyParts DEF Cr
    <2>5. CallFits'
      BY <1>2, <2>3, <2>4 DEF PhaseInv, CallFits, DeletionCalls
    <2> QED  BY <1>2, <2>1, <2>2, <2>3, <2>5 DEF PhaseInv, PhasesFollow, WakeUpDue
  <1>3. CASE ~inst.fresh /\ Fail /\ UNCHANGED kube
    BY <1>3, FailFits, RunningKeeps DEF kube, PhaseInv
  <1> QED  BY <1>1, <1>2, <1>3 DEF UpdateAnd

LEMMA GetGerritClientKeepsPhases ==
    ASSUME IInv, PhaseInv,
           NEW at, NEW next, <<at, next>> \in {<<"owner", "get">>, <<"deleteOwner", "deleteGet">>},
           GetGerritClient(at, next)
    PROVE  PhaseInv'
  <1>1. /\ pc = at /\ pc # "idle" /\ next \in {"get", "deleteGet"}
        /\ next = "deleteGet" => pc = "deleteOwner"
    BY DEF GetGerritClient
  <1>2. CASE Goto(next) /\ UNCHANGED kube
    <2>1. UNCHANGED <<cr, cache, inst>> /\ pc' = next
      BY <1>2 DEF Goto, kube
    <2>2. CallFits'
      BY <1>1, <2>1 DEF PhaseInv, CallFits, DeletionCalls
    <2> QED  BY <1>1, <2>1, <2>2, RunningKeeps DEF PhaseInv, PhasesFollow
  <1>3. ASSUME NEW c, c = [cr EXCEPT !.owned = TRUE],
               UpdateAnd(c, CopyOf(RoundTrip(c), TRUE), next)
        PROVE  PhaseInv'
    <2>1. c \in Cr /\ c.phase = cr.phase
      BY <1>3, CrTyped DEF Cr
    <2>2. CopyOf(RoundTrip(c), TRUE).cr.phase = c.phase
      BY <2>1, RoundTripKeeps DEF CopyOf, IInv
    <2>3. ASSUME inst.fresh, inst' = CopyOf(RoundTrip(c), TRUE), pc' = next
          PROVE  CallFits'
      <3>1. inst'.cr.phase = inst.cr.phase
        BY <2>1, <2>2, <2>3 DEF PhaseInv, PhasesFollow
      <3> QED  BY <1>1, <2>3, <3>1 DEF PhaseInv, CallFits, DeletionCalls
    <2>4. next # "idle"
      BY <1>1
    <2> QED  BY <1>1, <1>3, <2>1, <2>2, <2>3, <2>4, UpdateAndKeepsPhases
  <1> QED  BY <1>2, <1>3 DEF GetGerritClient

LEMMA AddFinalizerKeepsPhases == ASSUME IInv, PhaseInv, AddFinalizer PROVE PhaseInv'
  <1> DEFINE c == [cr EXCEPT !.finalizer = TRUE]
             d == [c EXCEPT !.changeId = inst.cr.changeId, !.value = inst.cr.value]
  <1>1. c.phase = cr.phase
    BY CrTyped DEF Cr
  <1>2. d.phase = cr.phase /\ d.value = inst.cr.value
    BY CrTyped DEF Cr
  <1>3. UpdateAnd(c, CopyOf(d, TRUE), "status") /\ pc = "addFinalizer"
    BY DEF AddFinalizer
  <1> HIDE DEF c, d
  <1>4. CopyOf(d, TRUE).cr = d
    BY DEF CopyOf
  <1>5. ASSUME inst.fresh, inst' = CopyOf(d, TRUE), pc' = "status"
        PROVE  CallFits'
    <2>1. inst'.cr.phase = "live" /\ inst'.cr.value \in Answers
      BY <1>2, <1>3, <1>4, <1>5 DEF PhaseInv, PhasesFollow, CallFits
    <2> QED  BY <1>5, <2>1 DEF CallFits, DeletionCalls
  <1> QED  BY <1>1, <1>2, <1>3, <1>4, <1>5, UpdateAndKeepsPhases

LEMMA RemoveFinalizerKeepsPhases == ASSUME IInv, PhaseInv, RemoveFinalizer PROVE PhaseInv'
  <1> DEFINE c == [cr EXCEPT !.phase = "gone", !.finalizer = FALSE]
             i == [inst EXCEPT !.fresh = FALSE]
  <1>1. c.phase = "gone"
    BY CrTyped DEF Cr
  <1>2. ~i.fresh /\ i.cr = inst.cr
    BY CrTyped DEF Copies
  <1>3. UpdateAnd(c, i, "status") /\ pc = "removeFinalizer"
    BY DEF RemoveFinalizer
  <1> HIDE DEF c, i
  <1>4. ASSUME inst' = i, pc' = "status"
        PROVE  CallFits'
    BY <1>2, <1>3, <1>4 DEF PhaseInv, CallFits, DeletionCalls
  <1> QED  BY <1>1, <1>2, <1>3, <1>4, UpdateAndKeepsPhases

LEMMA ClosingKeepsPhases ==
    ASSUME IInv, PhaseInv, GetStatusToDelete \/ Abandon
    PROVE  PhaseInv'
  <1>1. UNCHANGED <<cr, cache>> /\ pc \in DeletionCalls /\ pc # "idle"
    BY DEF GetStatusToDelete, Abandon, kube, DeletionCalls
  <1>2. CASE Fail
    BY <1>1, <1>2, FailFits, RunningKeeps DEF PhaseInv, PhasesFollow
  <1>3. CASE ~Fail
    <2>1. pc' \in {"abandon", "removeFinalizer"} /\ inst' = inst
      BY <1>3 DEF GetStatusToDelete, Abandon, Goto, Then
    <2>2. CallFits'
      BY <1>1, <2>1 DEF PhaseInv, CallFits, DeletionCalls
    <2> QED  BY <1>1, <2>1, <2>2, RunningKeeps DEF PhaseInv, PhasesFollow
  <1> QED  BY <1>2, <1>3

\* A run that ends without asking for another one has recorded a closed change.
LEMMA UpdateStatusKeepsPhases == ASSUME IInv, PhaseInv, UpdateStatus PROVE PhaseInv'
  <1>1. pc' = "idle" /\ ~inst'.fresh
    BY ReturnKeeps DEF UpdateStatus, Return, NoInst, CopyOf
  <1>2. cr'.phase = cr.phase /\ cache'.cr = cache.cr
    <2>1. CASE /\ cr' = [cr EXCEPT !.changeId = inst.cr.changeId, !.value = inst.cr.value]
               /\ cache' = [cache EXCEPT !.fresh = @ /\ cr' = cr]
      BY <2>1, CrTyped DEF Cr, Copies
    <2>2. CASE UNCHANGED <<cr, cache>>
      BY <2>2
    <2> QED  BY <2>1, <2>2 DEF UpdateStatus
  <1>3. WakeUpDue'
    <2>1. CASE Return(TRUE)
      BY <2>1 DEF Return, WakeUpDue
    <2>2. CASE ~Return(TRUE)
      <3>1. /\ inst.fresh /\ pc = "status" /\ Return(inst.cr.value \in {"NEW", "error"})
            /\ cr' = [cr EXCEPT !.changeId = inst.cr.changeId, !.value = inst.cr.value]
        BY <2>2 DEF UpdateStatus
      <3>2. inst.cr.value \in {"NEW", "error"} => queued'
        BY <3>1 DEF Return
      <3>3. cr'.value = inst.cr.value
        BY <3>1, CrTyped DEF Cr
      <3>4. \/ inst.cr.value = "error"
            \/ cr.phase = "live" /\ inst.cr.value \in Answers
        BY <3>1 DEF PhaseInv, PhasesFollow, CallFits
      <3> QED  BY <1>2, <3>2, <3>3, <3>4 DEF WakeUpDue, Answers
    <2> QED  BY <2>1, <2>2
  <1>4. CallFits'
    BY <1>1 DEF CallFits, DeletionCalls
  <1> QED  BY <1>1, <1>2, <1>3, <1>4 DEF PhaseInv, PhasesFollow

LEMMA FailuresKeepPhases ==
    ASSUME IInv, PhaseInv, CallFails \/ StatusUpdateFails
    PROVE  PhaseInv'
  <1>1. UNCHANGED <<cr, cache>> /\ pc # "idle"
    BY DEF CallFails, StatusUpdateFails, kube
  <1>2. CASE CallFails
    <2>1. Fail
      BY <1>2 DEF CallFails
    <2> QED  BY <1>1, <2>1, FailFits, RunningKeeps DEF PhaseInv, PhasesFollow
  <1>3. CASE StatusUpdateFails
    <2>1. pc' = "idle" /\ queued' /\ ~inst'.fresh
      BY <1>3 DEF StatusUpdateFails, Return, NoInst, CopyOf
    <2> QED  BY <1>1, <2>1
         DEF PhaseInv, PhasesFollow, CallFits, WakeUpDue, DeletionCalls
  <1> QED  BY <1>2, <1>3

\* Whoever writes the CR: the watch, at the latest, will know that it is deleted.
LEMMA WrittenKeepsPhases ==
    ASSUME IInv, PhaseInv, NEW c, Written(c),
           \/ c.phase = cr.phase /\ edited'
           \/ c = cr /\ UNCHANGED edited
           \/ cr.phase = "live" /\ c.phase \in {"deleting", "gone"}
    PROVE  PhaseInv'
  <1>1. /\ cr' = c /\ UNCHANGED <<queued, pc>>
        /\ cache' = [cache EXCEPT !.fresh = FALSE] /\ inst' = [inst EXCEPT !.fresh = FALSE]
    BY DEF Written
  <1>2. cache'.cr = cache.cr /\ inst'.cr = inst.cr /\ ~inst'.fresh
    BY <1>1, CrTyped DEF Copies
  <1>3. CallFits'
    BY <1>1, <1>2 DEF PhaseInv, CallFits
  <1>4. PhasesFollow'
    BY <1>1, <1>2 DEF PhaseInv, PhasesFollow
  <1>5. WakeUpDue'
    BY <1>1, <1>2 DEF PhaseInv, PhasesFollow, WakeUpDue
  <1> QED  BY <1>3, <1>4, <1>5 DEF PhaseInv

LEMMA WritersKeepPhases ==
    ASSUME IInv, PhaseInv, CrEdited \/ CrDeleted \/ Collected
    PROVE  PhaseInv'
  <1>1. CASE CrEdited
    <2>1. CASE Written(cr) /\ UNCHANGED edited
      BY <2>1, WrittenKeepsPhases
    <2>2. CASE \E b \in BOOLEAN : Written([cr EXCEPT !.complete = b]) /\ edited' = TRUE
      <3>1. PICK b \in BOOLEAN : Written([cr EXCEPT !.complete = b]) /\ edited' = TRUE
        BY <2>2
      <3>2. [cr EXCEPT !.complete = b].phase = cr.phase
        BY CrTyped DEF Cr
      <3>3. edited'
        BY <3>1
      <3> QED  BY <3>1, <3>2, <3>3, WrittenKeepsPhases
    <2> QED  BY <1>1, <2>1, <2>2 DEF CrEdited
  <1>2. CASE CrDeleted \/ Collected
    <2> DEFINE p == IF cr.finalizer THEN "deleting" ELSE "gone"
    <2>1. cr.phase = "live" /\ Written([cr EXCEPT !.phase = p])
      BY <1>2 DEF CrDeleted, Collected, Deleted
    <2>2. [cr EXCEPT !.phase = p].phase \in {"deleting", "gone"}
      BY CrTyped DEF Cr
    <2> HIDE DEF p
    <2> QED  BY <2>1, <2>2, WrittenKeepsPhases
  <1> QED  BY <1>1, <1>2

LEMMA AroundKeepsPhases ==
    ASSUME IInv, PhaseInv,
           \/ OperatorCrash \/ CacheSync \/ UserActs \/ GerritDeleted \/ CallsStopFailing
           \/ UNCHANGED vars
    PROVE  PhaseInv'
  <1>1. CASE OperatorCrash
    <2>1. /\ UNCHANGED cr /\ cache'.cr = cr /\ queued' /\ pc' = "idle" /\ ~inst'.fresh
      BY <1>1 DEF OperatorCrash, CopyOf, NoInst
    <2> QED  BY <2>1 DEF PhaseInv, PhasesFollow, CallFits, WakeUpDue, DeletionCalls
  <1>2. CASE CacheSync
    <2>1. /\ UNCHANGED <<cr, pc, inst>> /\ cache'.cr = cr
          /\ queued' = (queued \/ edited \/ cache.cr.phase # cr.phase)
      BY <1>2 DEF CacheSync, CopyOf
    <2> QED  BY <2>1 DEF PhaseInv, PhasesFollow, CallFits, WakeUpDue
  <1>3. CASE UserActs \/ GerritDeleted \/ CallsStopFailing \/ UNCHANGED vars
    <2>1. UNCHANGED <<cr, cache, edited, queued, pc, inst>>
      BY <1>3 DEF UserActs, GerritDeleted, CallsStopFailing, vars, kube, local
    <2> QED  BY <2>1 DEF PhaseInv, PhasesFollow, CallFits, WakeUpDue
  <1> QED  BY <1>1, <1>2, <1>3

LEMMA NextKeepsPhases == ASSUME IInv, PhaseInv, [Next]_vars PROVE PhaseInv'
  <1>1. CASE Reconcile
    BY <1>1, BeginKeepsPhases, CreatingKeepsPhases, RemoveCloneKeepsPhases,
       GetGerritClientKeepsPhases, GetStatusKeepsPhases, AddFinalizerKeepsPhases,
       ClosingKeepsPhases, RemoveFinalizerKeepsPhases, UpdateStatusKeepsPhases,
       FailuresKeepPhases DEF Reconcile
  <1>2. CASE Environment
    BY <1>2, WritersKeepPhases, AroundKeepsPhases DEF Environment
  <1>3. CASE UNCHANGED vars
    BY <1>3, AroundKeepsPhases
  <1> QED  BY <1>1, <1>2, <1>3 DEF Next

THEOREM PhaseInvariance == Spec => [](IInv /\ PhaseInv)
  <1>1. Init => IInv /\ PhaseInv
    BY InitInv, InitPhases
  <1>2. IInv /\ PhaseInv /\ [Next]_vars => IInv' /\ PhaseInv'
    BY NextKeeps, NextKeepsPhases
  <1> QED  BY <1>1, <1>2, PTL DEF Spec

\* An edit that has not reached the queue is still to be delivered.
EditIsDue == edited => ~cache.fresh

LEMMA EditStaysDue == ASSUME IInv, EditIsDue, [Next]_vars PROVE EditIsDue'
  <1>1. cache \in Copies
    BY Types DEF IInv
  <1>2. \/ UNCHANGED edited /\ (cache'.fresh => cache.fresh)
        \/ ~edited'
        \/ ~cache'.fresh
    <2>1. CASE UNCHANGED <<edited, cache>>
      BY <2>1
    <2>2. CASE UNCHANGED edited /\ cache' = [cache EXCEPT !.fresh = @ /\ cr' = cr]
      BY <1>1, <2>2 DEF Copies
    <2>3. CASE cache' = [cache EXCEPT !.fresh = FALSE]
      BY <1>1, <2>3 DEF Copies
    <2>4. CASE edited' = FALSE
      BY <2>4
    <2>5. CASE Reconcile
      <3>1. \/ UNCHANGED <<edited, cache>>
            \/ UNCHANGED edited /\ cache' = [cache EXCEPT !.fresh = @ /\ cr' = cr]
            \/ cache' = [cache EXCEPT !.fresh = FALSE]
        BY <2>5, Zenon
           DEF Reconcile, Begin, GetGitClient, Clone, BuildCommit, Push, RemoveClone,
               GetGerritClient, GetStatus, AddFinalizer, GetStatusToDelete, Abandon,
               RemoveFinalizer, UpdateStatus, CallFails, StatusUpdateFails, UpdateAnd,
               Update, kube
      <3> QED  BY <2>1, <2>2, <2>3, <3>1
    <2>6. CASE Environment
      <3>1. \/ UNCHANGED <<edited, cache>>
            \/ cache' = [cache EXCEPT !.fresh = FALSE]
            \/ edited' = FALSE
        BY <2>6, Zenon
           DEF Environment, OperatorCrash, CacheSync, CrEdited, CrDeleted, Deleted, Written,
               GerritDeleted, Collected, UserActs, CallsStopFailing, kube
      <3> QED  BY <2>1, <2>3, <2>4, <3>1
    <2>7. CASE UNCHANGED vars
      BY <2>1, <2>7 DEF vars
    <2> QED  BY <2>5, <2>6, <2>7 DEF Next
  <1> QED  BY <1>2 DEF EditIsDue

\* No run ends, and nothing happens to the CR between two runs, so that an open
\* change or a deleted CR is left with nothing to bring the handler back.
THEOREM NoWakeUpLost == Spec => []NothingForgotten
  <1>1. Init => EditIsDue
    BY DEF Init, EditIsDue
  <1>2. IInv /\ EditIsDue /\ [Next]_vars => EditIsDue'
    BY EditStaysDue
  <1>3. IInv /\ PhaseInv /\ EditIsDue => NothingForgotten
    BY DEF IInv, CopiesAgree, PhaseInv, WakeUpDue, EditIsDue, NothingForgotten
  <1> QED  BY <1>1, <1>2, <1>3, PhaseInvariance, PTL DEF Spec

\* What a step does to the phase and the finalizer.
LEMMA FinalizerSteps ==
    ASSUME "restore" \notin UserActions, IInv, PhaseInv, [Next]_vars
    PROVE  \/ cr'.phase = cr.phase /\ cr'.finalizer = cr.finalizer
           \/ cr.phase = "live" /\ cr'.phase = "live" /\ cr'.finalizer
           \/ /\ cr.phase = "live" /\ cr'.finalizer = cr.finalizer
              /\ cr'.phase = IF cr.finalizer THEN "deleting" ELSE "gone"
           \/ /\ cr.phase = "deleting" /\ cr'.phase = "gone" /\ ~cr'.finalizer
              /\ ~Recorded("NEW")'
  <1>1. cr \in Cr
    BY CrTyped
  <1>2. CASE cr' = cr \/ cr' = [cr EXCEPT !.owned = TRUE]
             \/ (\E b \in BOOLEAN : cr' = [cr EXCEPT !.complete = b])
             \/ cr' = [cr EXCEPT !.changeId = inst.cr.changeId, !.value = inst.cr.value]
    <2>1. cr'.phase = cr.phase /\ cr'.finalizer = cr.finalizer
      BY <1>1, <1>2 DEF Cr
    <2> QED  BY <2>1
  <1>3. CASE /\ inst.fresh /\ pc = "addFinalizer"
             /\ cr' = [cr EXCEPT !.finalizer = TRUE]
    <2>1. cr.phase = "live"
      BY <1>3 DEF PhaseInv, PhasesFollow, CallFits
    <2>2. cr'.phase = cr.phase /\ cr'.finalizer = TRUE
      BY <1>1, <1>3 DEF Cr
    <2> QED  BY <2>1, <2>2
  <1>4. CASE /\ cr.phase = "live"
             /\ cr' = [cr EXCEPT !.phase = IF cr.finalizer THEN "deleting" ELSE "gone"]
    <2>1. /\ cr'.finalizer = cr.finalizer
          /\ cr'.phase = IF cr.finalizer THEN "deleting" ELSE "gone"
      BY <1>1, <1>4 DEF Cr
    <2> QED  BY <1>4, <2>1
  <1>5. CASE /\ inst.fresh /\ RemoveFinalizer
             /\ cr' = [cr EXCEPT !.phase = "gone", !.finalizer = FALSE]
    <2>1. cr'.phase = "gone" /\ cr'.finalizer = FALSE /\ cr'.changeId = cr.changeId
      BY <1>1, <1>5 DEF Cr
    <2>2. pc = "removeFinalizer" /\ changes' = changes
      BY <1>5 DEF RemoveFinalizer
    <2>3. cr.phase = "deleting"
      BY <1>5, <2>2 DEF PhaseInv, PhasesFollow, CallFits, DeletionCalls
    <2>4. ASSUME cr.changeId \in DOMAIN changes
          PROVE  changes[cr.changeId] # "NEW"
      <3>1. cr.changeId # 0
        BY <2>4, Types DEF IInv
      <3>2. inst.cr.changeId = cr.changeId
        BY <1>5, <3>1 DEF IInv, CopiesAgree
      <3> QED  BY <2>2, <3>2 DEF IInv, ClosedBeforeRelease
    <2>5. ~Recorded("NEW")'
      BY <2>1, <2>2, <2>4 DEF Recorded
    <2> QED  BY <2>1, <2>3, <2>5
  <1> QED  BY <1>2, <1>3, <1>4, <1>5, CrWrites

\* Where nobody restores changes, the controller handles its finalizer as
\* CrFinalizer says: it holds a live CR only, no deleted CR that has it goes but
\* by the controller's hand, and then the change it has recorded is not open.
THEOREM ImplementsTheFinalizer ==
    ASSUME "restore" \notin UserActions
    PROVE  Spec => ImplementsFinalizer
  <1>1. ASSUME Init PROVE Finalizer!Init
    <2>1. cr.phase = "live" /\ cr.finalizer = FALSE
      <3>1. cr = NewCr \/ cr = [NewCr EXCEPT !.complete = FALSE]
        BY <1>1 DEF Init
      <3>2. /\ NewCr.phase = "live" /\ [NewCr EXCEPT !.complete = FALSE].phase = "live"
            /\ NewCr.finalizer = FALSE /\ [NewCr EXCEPT !.complete = FALSE].finalizer = FALSE
        BY DEF NewCr
      <3> QED  BY <3>1, <3>2
    <2> QED  BY <2>1 DEF Finalizer!Init
  <1>2. ASSUME IInv, PhaseInv, [Next]_vars
        PROVE  [Finalizer!Next]_(Finalizer!vars)
    <2>1. cr.finalizer \in BOOLEAN /\ cr'.finalizer \in BOOLEAN
      <3>1. IInv'
        BY <1>2, NextKeeps
      <3>2. cr \in Cr /\ cr' \in Cr
        BY <1>2, <3>1 DEF IInv, TypeOK
      <3> QED  BY <3>2 DEF Cr
    <2>2. CASE cr'.phase = cr.phase /\ cr'.finalizer = cr.finalizer
      BY <2>2 DEF Finalizer!vars
    <2>3. CASE cr.phase = "live" /\ cr'.phase = "live" /\ cr'.finalizer
      <3>1. Finalizer!Hold("cr")
        BY <2>1, <2>3 DEF Finalizer!Hold, Finalizer!Becomes
      <3> QED  BY <3>1 DEF Finalizer!Next
    <2>4. CASE /\ cr.phase = "live" /\ cr'.finalizer = cr.finalizer
               /\ cr'.phase = IF cr.finalizer THEN "deleting" ELSE "gone"
      <3>1. Finalizer!Delete("cr")
        BY <2>1, <2>4 DEF Finalizer!Delete, Finalizer!Becomes
      <3> QED  BY <3>1 DEF Finalizer!Next
    <2>5. CASE /\ cr.phase = "deleting" /\ cr'.phase = "gone" /\ ~cr'.finalizer
               /\ ~Recorded("NEW")'
      <3>1. Finalizer!Release("cr")
        BY <2>1, <2>5 DEF Finalizer!Release, Finalizer!Becomes
      <3> QED  BY <3>1 DEF Finalizer!Next
    <2> QED  BY <1>2, <2>2, <2>3, <2>4, <2>5, FinalizerSteps
  <1>3. IInv /\ PhaseInv /\ [Next]_vars => [Finalizer!Next]_(Finalizer!vars)
    BY <1>2
  <1> QED  BY <1>1, <1>3, PhaseInvariance, PTL DEF Spec, ImplementsFinalizer, Finalizer!Spec

=============================================================================
