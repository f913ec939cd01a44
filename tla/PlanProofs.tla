----------------------------- MODULE PlanProofs -----------------------------
(***************************************************************************)
(* Plans, for every number of inventories, selectors, registrations and    *)
(* faults: Status.Plan is recorded whenever the MachineInventory           *)
(* reconciler reads it, and the bootstrap plan of a machine registered     *)
(* once is its owner's.                                                    *)
(*                                                                         *)
(* The reconciler skips createPlanSecret on the word of the Ready          *)
(* condition alone, so the condition must not be stored without the plan.  *)
(* One path does store it alone: that of an inventory deleted before it    *)
(* had a plan.  The first proof follows the deletion timestamp into        *)
(* the copy a reconcile holds, up to the patch that stores it.             *)
(***************************************************************************)
EXTENDS AdoptionProofs

\* Unless the object is being deleted, a Ready condition other than a creation
\* failure comes with a plan.
PlanNoted(o) ==
  ~o.deleting /\ ~NeedsPlanSecret(o) => o.plan # "nil"

\* The calls that come after createPlanSecret.
AfterSecret == {"network", "claim", "address", "planStatus", "adoption",
                "reset", "resetStatus", "resetWrite"}

WorkerNoted(w) ==
  w.pc # "idle" =>
    /\ PlanNoted(w.obj)
    /\ w.key \notin outdated => w.obj.deleting = inv[w.key].deleting
    /\ w.pc \in AfterSecret => w.obj.plan # "nil"

StoredNoted == \A i \in Inventories : PlanNoted(inv[i]) /\ PlanNoted(invCache[i])

PlanInv == StoredNoted /\ WorkerNoted(iw)

----------------------------------------------------------------------------
(***************************************************************************)
(* The calls of the reconciler.                                            *)
(***************************************************************************)
\* What every call finds.
LEMMA WorkerFacts ==
  ASSUME IInv, PlanInv, iw.pc # "idle"
  PROVE  /\ iw \in InvWorker /\ iw.obj \in InventoryObject
         /\ iw.key \in Inventories
         /\ PlanNoted(iw.obj)
         /\ iw.pc \in AfterSecret => iw.obj.plan # "nil"
BY InvWorkerTyped DEF PlanInv, WorkerNoted

\* A call that writes no inventory and keeps the deletion timestamp.
LEMMA CallNoted ==
  ASSUME IInv, PlanInv, iw.pc # "idle", UNCHANGED <<inv, invCache, outdated>>,
         iw'.key = iw.key, iw'.obj.deleting = iw.obj.deleting,
         iw'.obj.plan # "nil" \/ (iw'.pc = "commit" /\ PlanNoted(iw'.obj))
  PROVE  PlanInv'
<1>1. StoredNoted'
  BY DEF PlanInv, StoredNoted, PlanNoted, NeedsPlanSecret
<1>2. WorkerNoted(iw)'
  BY DEF PlanInv, WorkerNoted, PlanNoted, NeedsPlanSecret, AfterSecret
<1> QED
  BY <1>1, <1>2 DEF PlanInv

\* The ways a call goes on, with a copy that has a plan.
LEMMA GoesOnNoted ==
  ASSUME IInv, PlanInv, iw.pc # "idle", UNCHANGED <<inv, invCache, outdated>>,
         NEW o \in InventoryObject, o.deleting = iw.obj.deleting, o.plan # "nil",
         \/ \E pc \in AfterSecret : InvContinue(pc, o)
         \/ \E again \in BOOLEAN : InvFinish(o, again)
         \/ InvError(o)
         \/ ToAdoption(o)
  PROVE  PlanInv'
<1>1. iw \in InvWorker
  BY WorkerFacts
<1>2. iw'.key = iw.key /\ iw'.obj.deleting = o.deleting /\ iw'.obj.plan = o.plan
  <2>1. CASE \E pc \in AfterSecret : InvContinue(pc, o)
    BY <2>1, <1>1 DEF InvContinue, InvWorker
  <2>2. ASSUME NEW p \in InventoryObject, NEW again \in BOOLEAN, InvFinish(p, again)
        PROVE  iw'.key = iw.key /\ iw'.obj = p
    BY <2>2, <1>1 DEF InvFinish, InvWorker
  <2>3. CASE InvError(o)
    <3>1. [o EXCEPT !.ready = "False"] \in InventoryObject
          /\ [o EXCEPT !.ready = "False"].deleting = o.deleting
          /\ [o EXCEPT !.ready = "False"].plan = o.plan
      BY DEF InventoryObject
    <3> QED
      BY <2>2, <2>3, <3>1 DEF InvError
  <2>4. CASE ToAdoption(o)
    <3>1. [o EXCEPT !.adopted = "False"] \in InventoryObject
          /\ [o EXCEPT !.adopted = "False"].deleting = o.deleting
          /\ [o EXCEPT !.adopted = "False"].plan = o.plan
      BY DEF InventoryObject, Status
    <3>2. \/ InvFinish([o EXCEPT !.adopted = "False"], FALSE)
          \/ InvFinish(o, FALSE)
          \/ InvContinue("adoption", o)
      BY <2>4 DEF ToAdoption
    <3>3. CASE InvContinue("adoption", o)
      BY <3>3, <2>1 DEF AfterSecret
    <3> QED
      BY <2>2, <3>1, <3>2, <3>3
  <2> QED
    BY <2>1, <2>2, <2>3, <2>4
<1> QED
  BY <1>2, CallNoted

\* The network status, the plan status and the adoption keep plan and deletion.
LEMMA StatusNoted ==
  ASSUME NEW i \in Inventories, NEW o \in InventoryObject, NEW s \in PlanSecret
  PROVE  /\ WithNetworkReady(i, o).deleting = o.deleting
         /\ WithNetworkReady(i, o).plan = o.plan
         /\ WithPlanStatus(o, s).deleting = o.deleting
         /\ o.plan # "nil" => WithPlanStatus(o, s).plan # "nil"
BY DEF WithNetworkReady, WithPlanStatus, InventoryObject

LEMMA AdoptionNoted ==
  ASSUME NEW i \in Inventories, NEW o \in InventoryObject, NEW s, NEW passed
  PROVE  /\ AdoptionOf(i, o, s, passed).deleting = o.deleting
         /\ AdoptionOf(i, o, s, passed).plan = o.plan
BY DEF AdoptionOf, removeSelectorOwnerShip, InventoryObject

\* createPlanSecret records the plan, or a creation failure.
LEMMA CreatePlanSecretNoted ==
  ASSUME IInv, PlanInv, CreatePlanSecret PROVE PlanInv'
<1> DEFINE o == iw.obj
           planned == [o EXCEPT !.plan = "waiting", !.ready = "False"]
           failed == [o EXCEPT !.ready = "CreationFailure"]
<1>1. iw.pc = "secret" /\ iw.pc # "idle" /\ UNCHANGED <<inv, invCache, outdated>>
  BY DEF CreatePlanSecret, noInventoryWritten, invOthersUnchanged
<1>2. o \in InventoryObject /\ iw \in InvWorker /\ iw.key \in Inventories
  BY <1>1, WorkerFacts
<1>3. CASE InvContinue(StepAfterSecret(iw.key, o), WithNetworkReady(iw.key, planned))
  <2>1. planned \in InventoryObject /\ planned.plan # "nil"
        /\ planned.deleting = o.deleting
    BY <1>2 DEF InventoryObject, PlanStates
  <2> HIDE DEF planned
  <2>2. WithNetworkReady(iw.key, planned) \in InventoryObject
        /\ WithNetworkReady(iw.key, planned).plan # "nil"
        /\ WithNetworkReady(iw.key, planned).deleting = o.deleting
    BY <1>2, <2>1 DEF WithNetworkReady, InventoryObject, Status
  <2>3. StepAfterSecret(iw.key, o) \in AfterSecret
    BY DEF StepAfterSecret, AfterSecret
  <2> QED
    BY <1>1, <1>3, <2>2, <2>3, GoesOnNoted
<1>4. CASE InvFinish(failed, TRUE)
  <2>1. failed.deleting = o.deleting /\ PlanNoted(failed)
    BY <1>2 DEF InventoryObject, PlanNoted, NeedsPlanSecret
  <2>2. iw'.key = iw.key /\ iw'.obj = failed /\ iw'.pc = "commit"
    BY <1>2, <1>4 DEF InvFinish, InvWorker
  <2> QED
    BY <1>1, <2>1, <2>2, CallNoted
<1> QED
  BY <1>3, <1>4 DEF CreatePlanSecret

\* The network: the copy keeps its plan.
LEMMA NetworkNoted ==
  ASSUME IInv, PlanInv,
         ReconcileNetworkConfig \/ ReadIPAddressClaim \/ ReadIPAddress
  PROVE  PlanInv'
<1> DEFINE o == iw.obj
<1>1. iw.pc \in {"network", "claim", "address"} /\ iw.pc # "idle"
      /\ UNCHANGED <<inv, invCache, outdated>>
  BY DEF ReconcileNetworkConfig, ReadIPAddressClaim, ReadIPAddress, noInventoryWritten,
         invOthersUnchanged
<1>2. o \in InventoryObject /\ o.plan # "nil"
  BY <1>1, WorkerFacts DEF AfterSecret
<1>3. CASE ReconcileNetworkConfig
  BY <1>1, <1>2, <1>3, GoesOnNoted DEF ReconcileNetworkConfig, AfterSecret
<1>4. CASE ReadIPAddressClaim \/ ReadIPAddress
  <2> DEFINE claimed == [o EXCEPT !.net = "claimed"]
             waiting == [o EXCEPT !.netReady = "False"]
             addressed == [o EXCEPT !.net = "addressed"]
  <2>1. \A p \in {claimed, waiting, addressed} :
          p \in InventoryObject /\ p.deleting = o.deleting /\ p.plan # "nil"
    BY <1>2 DEF InventoryObject, Status
  <2>2. \/ InvError(o) \/ InvContinue("address", claimed)
        \/ InvFinish(waiting, TRUE) \/ InvFinish(addressed, FALSE)
    BY <1>4 DEF ReadIPAddressClaim, ReadIPAddress
  <2> HIDE DEF claimed, waiting, addressed
  <2> QED
    BY <1>1, <1>2, <2>1, <2>2, GoesOnNoted DEF AfterSecret
<1> QED
  BY <1>3, <1>4

\* The calls that read the plan and the reset keep it, or make it another one.
LEMMA PlanCallsNoted ==
  ASSUME IInv, PlanInv,
         \/ UpdateInventoryWithPlanStatus \/ UpdateInventoryWithAdoptionStatus
         \/ ReconcileResetPlanSecret \/ ResetStatus \/ UpdatePlanSecretWithReset
  PROVE  PlanInv'
<1> DEFINE o == iw.obj
           s == sec[iw.key]
<1>1. iw.pc \in AfterSecret /\ iw.pc # "idle" /\ UNCHANGED <<inv, invCache, outdated>>
  BY DEF UpdateInventoryWithPlanStatus, UpdateInventoryWithAdoptionStatus,
         ReconcileResetPlanSecret, ResetStatus, UpdatePlanSecretWithReset,
         noInventoryWritten, invOthersUnchanged, AfterSecret
<1>2. /\ o \in InventoryObject /\ o.plan # "nil" /\ s \in PlanSecret
      /\ iw \in InvWorker /\ iw.key \in Inventories
  BY <1>1, WorkerFacts, InvWorkerTyped
<1> DEFINE Same(p) == p \in InventoryObject /\ p.deleting = o.deleting /\ p.plan # "nil"
<1>3. Same(o) /\ Same(WithPlanStatus(o, s))
  BY <1>2, StatusKeeps, StatusNoted
<1>4. CASE UpdateInventoryWithPlanStatus
  BY <1>1, <1>3, <1>4, GoesOnNoted DEF UpdateInventoryWithPlanStatus
<1>5. CASE UpdateInventoryWithAdoptionStatus
  <2> DEFINE passed == o.adopted = "Unknown" /\ iw.key \in late
             checked == AdoptionOf(iw.key, o, selCache[o.owner], passed)
             refused == [o EXCEPT !.adopted = "False"]
  <2>1. o.owner # None /\ o.adopted # "True"
    BY <1>5 DEF UpdateInventoryWithAdoptionStatus, IInv, InvCopyInv
  <2>2. Same(checked)
    <3>1. passed \in BOOLEAN
      OBVIOUS
    <3> HIDE DEF passed
    <3>2. checked \in InventoryObject
      BY <1>2, <2>1, <3>1, AdoptionKeeps
    <3>3. checked.deleting = o.deleting /\ checked.plan = o.plan
      BY <1>2, AdoptionNoted
    <3> QED
      BY <1>2, <3>2, <3>3
  <2>3. Same(refused)
    BY <1>2 DEF InventoryObject, Status
  <2>4. \/ InvFinish(checked, checked.adopted # "True")
        \/ InvFinish(refused, TRUE)
    BY <1>5 DEF UpdateInventoryWithAdoptionStatus
  <2> HIDE DEF checked, refused
  <2> QED
    BY <1>1, <2>2, <2>3, <2>4, GoesOnNoted
<1>6. CASE ReconcileResetPlanSecret
  <2>1. CASE iw' = [iw EXCEPT !.pc = "resetWrite", !.answer = s.answer]
    <3>1. iw'.key = iw.key /\ iw'.obj = iw.obj
      BY <1>2, <2>1 DEF InvWorker
    <3> QED
      BY <1>1, <1>2, <3>1, CallNoted
  <2> QED
    BY <1>1, <1>3, <1>6, <2>1, GoesOnNoted
       DEF ReconcileResetPlanSecret, AfterSecret
<1>7. CASE ResetStatus
  <2>1. Same(ReleaseAfterReset(WithPlanStatus(o, s)))
    <3> DEFINE q == WithPlanStatus(o, s)
    <3>1. Same(q)
      BY <1>3
    <3> HIDE DEF q
    <3> QED
      BY <3>1 DEF ReleaseAfterReset, InventoryObject, q
  <2> QED
    BY <1>1, <1>3, <1>7, <2>1, GoesOnNoted DEF ResetStatus
<1>8. CASE UpdatePlanSecretWithReset
  <2>1. Same([o EXCEPT !.plan = "waiting"])
    BY <1>2 DEF InventoryObject, PlanStates
  <2> QED
    BY <1>1, <1>3, <1>8, <2>1, GoesOnNoted DEF UpdatePlanSecretWithReset
<1> QED
  BY <1>4, <1>5, <1>6, <1>7, <1>8

\* Reconcile starts from the cached object, which is the server's unless stale.
LEMMA InvReconcileNoted ==
  ASSUME IInv, PlanInv, NEW i \in Inventories, InvReconcile(i) PROVE PlanInv'
<1> DEFINE o == invCache[i]
           w == FirstInvStep(i, o)
<1>1. /\ o \in InventoryObject
      /\ PlanNoted(o)
      /\ i \notin stale => o = inv[i]
  BY DEF IInv, TypeOK, ClusterTypeOK, CacheInv, PlanInv, StoredNoted
<1>2. UNCHANGED <<inv, invCache, stale>> /\ iw.pc = "idle"
  BY DEF InvReconcile, invOthersUnchanged
<1>3. StoredNoted'
  BY <1>2 DEF PlanInv, StoredNoted, PlanNoted, NeedsPlanSecret
<1>4. /\ w.key = i
      /\ w.obj.deleting = o.deleting
      /\ PlanNoted(w.obj)
      /\ w.pc \in AfterSecret => w.obj.plan # "nil"
  <2>1. CASE ~o.deleting /\ ~o.finalizer
    BY <1>1, <2>1 DEF FirstInvStep, InventoryObject, PlanNoted, NeedsPlanSecret,
                      AfterSecret
  <2>2. CASE ~o.deleting /\ o.finalizer /\ NeedsPlanSecret(o)
    BY <1>1, <2>2 DEF FirstInvStep, InventoryObject, AfterSecret
  <2>3. CASE ~o.deleting /\ o.finalizer /\ ~NeedsPlanSecret(o)
    <3>1. /\ WithNetworkReady(i, o).deleting = o.deleting
          /\ WithNetworkReady(i, o).plan # "nil"
      BY <1>1, <2>3 DEF PlanNoted, WithNetworkReady, InventoryObject
    <3>2. w.obj = WithNetworkReady(i, o) /\ w.key = i
      BY <1>1, <2>3 DEF FirstInvStep, InventoryObject
    <3> QED
      BY <3>1, <3>2 DEF PlanNoted
  <2>4. CASE o.deleting
    <3>1. w.obj \in {o, [o EXCEPT !.finalizer = FALSE], [o EXCEPT !.ready = "False"]}
          /\ w.key = i /\ w.pc \in {"commit", "reset"}
      BY <1>1, <2>4 DEF FirstInvStep, InventoryObject
    <3>2. w.pc = "reset" => w.obj.plan # "nil"
      BY <1>1, <2>4 DEF FirstInvStep, InventoryObject
    <3> QED
      BY <1>1, <2>4, <3>1, <3>2 DEF PlanNoted, InventoryObject, AfterSecret
  <2> QED
    BY <1>1, <2>1, <2>2, <2>3, <2>4 DEF InventoryObject
<1>5. WorkerNoted(iw)'
  <2>1. CASE invCache[i].exists
    <3>1. iw' = w /\ outdated' = outdated \cup ({i} \cap stale)
      BY <2>1 DEF InvReconcile
    <3>2. i \notin outdated' => w.obj.deleting = inv[i].deleting
      BY <1>1, <1>4, <3>1
    <3> HIDE DEF w
    <3> QED
      BY <1>2, <1>4, <3>1, <3>2 DEF WorkerNoted, PlanNoted, NeedsPlanSecret
  <2>2. CASE ~invCache[i].exists
    BY <1>2, <2>2 DEF InvReconcile, WorkerNoted
  <2> QED
    BY <2>1, <2>2
<1> QED
  BY <1>3, <1>5 DEF PlanInv

----------------------------------------------------------------------------
(***************************************************************************)
(* The patches that end the reconcile.                                     *)
(***************************************************************************)
\* The worker is idle, and what it stored, if anything, is noted.
LEMMA DoneNoted ==
  ASSUME IInv, PlanInv, iw'.pc = "idle", UNCHANGED invCache,
         \/ UNCHANGED inv
         \/ \E i \in Inventories : \E o :
              PlanNoted(o) /\ inv' = [inv EXCEPT ![i] = o]
  PROVE  PlanInv'
<1>1. \A i \in Inventories : PlanNoted(inv'[i])
  BY DEF IInv, TypeOK, ClusterTypeOK, PlanInv, StoredNoted, PlanNoted
<1> QED
  BY <1>1 DEF PlanInv, StoredNoted, WorkerNoted, PlanNoted, NeedsPlanSecret

\* The status of the copy goes into an object with the same deletion timestamp.
LEMMA WithStatusNoted ==
  ASSUME IInv, PlanInv, iw.pc # "idle", iw.key \notin outdated
  PROVE  PlanNoted(WithStatus(inv[iw.key], iw.obj))
<1>1. iw.obj.deleting = inv[iw.key].deleting /\ PlanNoted(iw.obj)
      /\ inv[iw.key] \in InventoryObject /\ iw.obj \in InventoryObject
  BY CopyCurrent, WorkerFacts DEF PlanInv, WorkerNoted
<1> QED
  BY <1>1 DEF WithStatus, PlanNoted, NeedsPlanSecret, InventoryObject

LEMMA PatchesNoted ==
  ASSUME IInv, PlanInv,
         \/ InvConflict \/ InvRelease \/ InvPatchMeta \/ InvPatchStatus
         \/ InvPatchStatusAlone
  PROVE  PlanInv'
<1> DEFINE v == inv[iw.key]
<1>1. iw.pc # "idle" /\ iw'.pc = "idle" /\ UNCHANGED invCache
  BY DEF InvConflict, InvRelease, InvPatchMeta, InvPatchStatus,
         InvPatchStatusAlone, InvDone, IdleInvWorker, invOthersUnchanged
<1>2. iw.key \in Inventories
  BY <1>1, WorkerFacts
<1>3. CASE InvConflict
  BY <1>1, <1>3, DoneNoted DEF InvConflict, InvNothingStored
<1>4. CASE InvRelease
  <2>1. PlanNoted(Gone(v))
    BY DEF PlanNoted, NeedsPlanSecret, Gone, NoInventory
  <2>2. inv' = [inv EXCEPT ![iw.key] = Gone(v)]
    BY <1>4 DEF InvRelease, InvStore
  <2> QED
    BY <1>1, <1>2, <2>1, <2>2, DoneNoted
<1>5. CASE InvPatchMeta
  <2>1. inv' = [inv EXCEPT ![iw.key] = WithMeta(v, iw.obj)]
        /\ v \in InventoryObject /\ PlanNoted(v)
    BY <1>1, <1>2, <1>5, CopyCurrent DEF InvPatchMeta, InvStore, PlanInv, StoredNoted
  <2>2. PlanNoted(WithMeta(v, iw.obj))
    BY <2>1 DEF WithMeta, PlanNoted, NeedsPlanSecret, InventoryObject
  <2> QED
    BY <1>1, <1>2, <2>1, <2>2, DoneNoted
<1>6. CASE InvPatchStatus \/ InvPatchStatusAlone
  <2>1. iw.key \notin outdated
        /\ \/ UNCHANGED inv
           \/ inv' = [inv EXCEPT ![iw.key] = WithStatus(v, iw.obj)]
    BY <1>6 DEF InvPatchStatus, InvPatchStatusAlone, InvStore, InvNothingStored
  <2>2. PlanNoted(WithStatus(v, iw.obj))
    BY <1>1, <2>1, WithStatusNoted
  <2> QED
    BY <1>1, <1>2, <2>1, <2>2, DoneNoted
<1> QED
  BY <1>3, <1>4, <1>5, <1>6

----------------------------------------------------------------------------
(***************************************************************************)
(* Everybody else.                                                         *)
(***************************************************************************)
\* The reconcile's copy stays, and is outdated when its object is written.
LEMMA OthersNoted ==
  ASSUME IInv, PlanInv, UNCHANGED iw,
         \A i \in Inventories : PlanNoted(inv'[i]) /\ PlanNoted(invCache'[i]),
         iw.pc # "idle" /\ iw.key \notin outdated' =>
           iw.key \notin outdated /\ inv'[iw.key].deleting = inv[iw.key].deleting
  PROVE  PlanInv'
BY DEF PlanInv, StoredNoted, WorkerNoted, PlanNoted, NeedsPlanSecret

\* A step that leaves inventories and caches alone.
LEMMA UntouchedNoted ==
  ASSUME IInv, PlanInv, UNCHANGED <<iw, inv, invCache>>,
         iw.pc # "idle" /\ iw.key \notin outdated' => iw.key \notin outdated
  PROVE  PlanInv'
BY OthersNoted DEF PlanInv, StoredNoted, PlanNoted, NeedsPlanSecret

\* Somebody writes inventory i: o is noted, and every copy held is outdated.
LEMMA WriteNoted ==
  ASSUME IInv, PlanInv, UNCHANGED <<iw, invCache>>, NEW i \in Inventories,
         NEW o, PlanNoted(o), inv' = [inv EXCEPT ![i] = o],
         outdated' = (outdated \cup {i}) \cap Held
  PROVE  PlanInv'
<1>1. inv \in [Inventories -> InventoryObject]
  BY DEF IInv, TypeOK, ClusterTypeOK
<1>2. \A j \in Inventories : PlanNoted(inv'[j])
  BY <1>1 DEF PlanInv, StoredNoted, PlanNoted
<1>3. \A j \in Inventories : PlanNoted(invCache'[j])
  BY DEF PlanInv, StoredNoted, PlanNoted, NeedsPlanSecret
<1>4. iw.pc # "idle" /\ iw.key \notin outdated' =>
        iw.key \notin outdated /\ inv'[iw.key] = inv[iw.key]
  BY <1>1, InvWorkerTyped DEF Held
<1> QED
  BY <1>2, <1>3, <1>4, OthersNoted

LEMMA SelNextNoted == ASSUME IInv, PlanInv, SelNext PROVE PlanInv'
<1>1. iw.pc # "idle" => iw.key \in Inventories /\ iw.key \notin Selectors
  BY InvWorkerTyped, NamesAssumption
<1>2. sw.pc # "idle" => sw.key \in Selectors
  BY SelWorkerTyped
<1>3. CASE FindAndAdoptInventory
  <2>1. UNCHANGED <<iw, invCache>>
    BY <1>3 DEF FindAndAdoptInventory, selOthersUnchanged
  <2>2. CASE UNCHANGED <<inv, outdated>>
    BY <2>1, <2>2, UntouchedNoted
  <2>3. ASSUME NEW i \in Adoptable(sw.key),
               inv' = [inv EXCEPT ![i] = [inv[i] EXCEPT !.owner = sw.key]],
               outdated' = (outdated \cup {i}) \cap Held
        PROVE  PlanInv'
    <3>1. i \in Inventories
      BY DEF Adoptable
    <3>2. inv[i] \in InventoryObject /\ PlanNoted(inv[i])
      BY <3>1 DEF IInv, TypeOK, ClusterTypeOK, PlanInv, StoredNoted
    <3>3. PlanNoted([inv[i] EXCEPT !.owner = sw.key])
      BY <3>2 DEF PlanNoted, NeedsPlanSecret, InventoryObject
    <3> QED
      BY <2>1, <2>3, <3>1, <3>3, WriteNoted
  <2> QED
    BY <1>3, <2>2, <2>3 DEF FindAndAdoptInventory, Written
<1>4. CASE \/ UpdateAdoptionStatus \/ ReadBootstrap \/ UpdatePlanSecretWithBootstrap
           \/ SetInventorySelectorAddresses
  BY <1>4, UntouchedNoted
     DEF UpdateAdoptionStatus, ReadBootstrap, UpdatePlanSecretWithBootstrap,
         SetInventorySelectorAddresses, noSelectorWritten, selOthersUnchanged
<1>5. CASE SelConflict
  <2>1. UNCHANGED <<iw, inv, invCache>> /\ outdated' = outdated \ {sw.key}
        /\ sw.key \in Selectors
    BY <1>2, <1>5 DEF SelConflict, selOthersUnchanged
  <2> QED
    BY <1>1, <2>1, UntouchedNoted
<1>6. CASE SelPatchStatus
  <2>1. UNCHANGED <<iw, inv, invCache>> /\ sw.key \in Selectors
        /\ \/ outdated' = (outdated \cup {sw.key}) \cap {iw.key}
           \/ outdated' = outdated \ {sw.key}
    BY <1>2, <1>6 DEF SelPatchStatus, selOthersUnchanged, Written
  <2> QED
    BY <1>1, <2>1, UntouchedNoted
<1>7. ASSUME NEW s \in Selectors, SelReconcile(s) PROVE PlanInv'
  <2>1. UNCHANGED <<iw, inv, invCache>> /\ outdated \subseteq outdated'
    BY <1>7 DEF SelReconcile, selOthersUnchanged
  <2> QED
    BY <2>1, UntouchedNoted
<1> QED
  BY <1>3, <1>4, <1>5, <1>6, <1>7 DEF SelNext, SelStep

LEMMA InventoryEnvironmentNoted ==
  ASSUME IInv, PlanInv, NEW i \in Inventories, InventoryEnvironment(i)
  PROVE  PlanInv'
<1>1. inv[i] \in InventoryObject /\ PlanNoted(inv[i])
  BY DEF IInv, TypeOK, ClusterTypeOK, PlanInv, StoredNoted
<1>2. ASSUME NEW o, NEW keys, StoreInventory(i, o, keys), PlanNoted(o)
      PROVE  PlanInv'
  BY <1>2, WriteNoted DEF StoreInventory, Written
<1>3. CASE createMachineInventory(i)
  <2> DEFINE o == [NoInventory EXCEPT !.exists = TRUE, !.uid = inv[i].uid + 1]
  <2>1. PlanNoted(o)
    BY DEF PlanNoted, NeedsPlanSecret, NoInventory
  <2> QED
    BY <1>2, <1>3, <2>1 DEF createMachineInventory
<1>4. CASE updateMachineInventory(i)
  BY <1>1, <1>2, <1>4 DEF updateMachineInventory
<1>5. CASE Delete(i)
  <2> DEFINE o == IF inv[i].finalizer THEN [inv[i] EXCEPT !.deleting = TRUE]
                                      ELSE Gone(inv[i])
  <2>1. PlanNoted(o)
    BY <1>1 DEF PlanNoted, NeedsPlanSecret, Gone, NoInventory, InventoryObject
  <2>2. StoreInventory(i, o, ObjectKeys(i, inv[i]))
    BY <1>5 DEF Delete
  <2> QED
    BY <1>2, <2>1, <2>2
<1>6. CASE \/ CollectSecret(i) \/ CollectClaim(i) \/ ServeClaim(i)
           \/ AgentApplies(i) \/ AgentFails(i)
  BY <1>6, UntouchedNoted
     DEF CollectSecret, CollectClaim, ServeClaim, AgentApplies, AgentFails,
         AgentAnswers
<1> QED
  BY <1>3, <1>4, <1>5, <1>6 DEF InventoryEnvironment, DeleteInventory, CollectInventory

LEMMA SelectorEnvironmentNoted ==
  ASSUME IInv, PlanInv, NEW s \in Selectors, SelectorEnvironment(s)
  PROVE  PlanInv'
<1>1. iw.pc # "idle" => iw.key # s
  BY InvWorkerTyped, NamesAssumption
<1>2. CASE DeleteSelector(s) \/ UpdateSelector(s)
  <2>1. UNCHANGED <<iw, inv, invCache>>
        /\ outdated' = (outdated \cup {s}) \cap Held
    BY <1>2 DEF DeleteSelector, UpdateSelector, Written
  <2> QED
    BY <1>1, <2>1, UntouchedNoted DEF Held
<1>3. CASE ProvideBootstrap(s)
  BY <1>3, UntouchedNoted DEF ProvideBootstrap
<1> QED
  BY <1>2, <1>3 DEF SelectorEnvironment

\* Every step, of whoever.
LEMMA NextNoted == ASSUME IInv, PlanInv, [Next]_vars PROVE PlanInv'
<1>1. CASE InvNext
  BY <1>1, CreatePlanSecretNoted, NetworkNoted, PlanCallsNoted, PatchesNoted,
     InvReconcileNoted
  DEF InvNext, InvStep
<1>2. CASE SelNext
  BY <1>2, SelNextNoted
<1>3. ASSUME NEW x \in Objects, Sync(x) PROVE PlanInv'
  <2>1. UNCHANGED <<iw, inv, outdated>>
        /\ \/ UNCHANGED invCache
           \/ x \in Inventories /\ invCache' = [invCache EXCEPT ![x] = inv[x]]
    BY <1>3 DEF Sync
  <2>2. \A i \in Inventories : PlanNoted(inv'[i]) /\ PlanNoted(invCache'[i])
    BY <2>1 DEF PlanInv, StoredNoted, PlanNoted, NeedsPlanSecret, IInv, TypeOK,
                ClusterTypeOK
  <2> QED
    BY <2>1, <2>2, OthersNoted
<1>4. ASSUME NEW x \in Objects, DeadlinePasses(x) PROVE PlanInv'
  BY <1>4, UntouchedNoted DEF DeadlinePasses
<1>5. CASE Restart
  BY <1>5 DEF Restart, IdleInvWorker, PlanInv, StoredNoted, WorkerNoted,
              PlanNoted, NeedsPlanSecret
<1>6. CASE UNCHANGED vars
  BY <1>6, UntouchedNoted DEF vars
<1> QED
  BY <1>1, <1>2, <1>3, <1>4, <1>5, <1>6, InventoryEnvironmentNoted,
     SelectorEnvironmentNoted DEF Next

LEMMA PlanInvHolds == Spec => []PlanInv
<1>1. Init => PlanInv
  BY DEF Init, PlanInv, StoredNoted, WorkerNoted, PlanNoted, NeedsPlanSecret,
         NoInventory, IdleInvWorker
<1>2. IInv /\ PlanInv /\ [Next]_vars => PlanInv'
  BY NextNoted
<1> QED
  BY <1>1, <1>2, InductiveInvariant, PTL DEF Spec

\* updateInventoryWithPlanStatus and the calls around it only run on a copy
\* with Status.Plan, whatever patches were refused, lost or made from stale
\* copies before.
THEOREM PlanIsRecorded == Spec => []PlanRecordedWhenRead
<1>1. PlanInv => PlanRecordedWhenRead
  BY DEF PlanInv, WorkerNoted, AfterSecret, PlanRecordedWhenRead
<1> QED
  BY <1>1, PlanInvHolds, PTL

----------------------------------------------------------------------------
(***************************************************************************)
(* Who writes bootstrap plans: selectors that some incarnation of the name *)
(* recorded as its owner.  Only once the name is registered again can that *)
(* be another than the owner of the inventory.                             *)
(***************************************************************************)
ByAdopter(i) ==
  sec[i].plan = "bootstrap" =>
    sec[i].by # None /\ \E u \in 1..MaxUid : adopter[i][u] = sec[i].by

\* updatePlanSecretWithBootstrap only runs for a bound selector.
WriterBound == sw.pc = "planWrite" => sw.obj.invReady = "True"

BootstrapInv == WriterBound /\ \A i \in Inventories : ByAdopter(i)

\* No new bootstrap plan is written.
PlansKept ==
  \A i \in Inventories :
    sec'[i].plan = "bootstrap" => sec[i].plan = "bootstrap" /\ sec'[i].by = sec[i].by

LEMMA NextHistory == ASSUME IInv, [Next]_vars PROVE HistoryKept
<1>1. adopter \in [Inventories -> [1..MaxUid -> Owners]]
  BY DEF IInv, TypeOK, ClusterTypeOK
<1>2. ASSUME NEW i \in Inventories, Confirmed(i) PROVE HistoryKept
  <2>1. adopter[i][inv[i].uid] = None
    BY <1>2, NotYetConfirmed DEF Confirmed
  <2> QED
    BY <1>1, <1>2, <2>1 DEF Confirmed, HistoryKept
<1> QED
  BY <1>2, NextEffect
     DEF StepEffect, NothingHappens, Dropped, Registered, Claimed, NewlyBound, HistoryKept

LEMMA InvNextPlans == ASSUME IInv, InvNext PROVE PlansKept /\ sw' = sw
<1>1. sec \in [Inventories -> PlanSecret]
  BY DEF IInv, TypeOK, ClusterTypeOK
<1>2. CASE CreatePlanSecret
  BY <1>1, <1>2
     DEF CreatePlanSecret, NoSecret, PlansKept, noInventoryWritten, invOthersUnchanged
<1>3. CASE UpdatePlanSecretWithReset
  <2>1. UNCHANGED sec \/ sec' = [sec EXCEPT ![iw.key] = ResetSecret(@)]
    BY <1>3 DEF UpdatePlanSecretWithReset
  <2>2. \A s \in PlanSecret : ResetSecret(s).plan = "reset"
    BY DEF ResetSecret, PlanSecret, newResetPlan
  <2> QED
    BY <1>1, <1>3, <2>1, <2>2
       DEF UpdatePlanSecretWithReset, PlansKept, noInventoryWritten, invOthersUnchanged
<1>4. CASE \/ ReconcileNetworkConfig \/ ReadIPAddressClaim \/ ReadIPAddress
           \/ UpdateInventoryWithPlanStatus \/ UpdateInventoryWithAdoptionStatus
           \/ ReconcileResetPlanSecret \/ ResetStatus
  BY <1>4
     DEF ReconcileNetworkConfig, ReadIPAddressClaim, ReadIPAddress,
         UpdateInventoryWithPlanStatus, UpdateInventoryWithAdoptionStatus, ReconcileResetPlanSecret, ResetStatus,
         noInventoryWritten, invOthersUnchanged, PlansKept
<1>5. CASE \/ InvConflict \/ InvRelease \/ InvPatchMeta \/ InvPatchStatus
           \/ InvPatchStatusAlone \/ \E i \in Inventories : InvReconcile(i)
  BY <1>5
     DEF InvConflict, InvRelease, InvPatchMeta, InvPatchStatus, InvPatchStatusAlone,
         InvReconcile, invOthersUnchanged, PlansKept
<1> QED
  BY <1>2, <1>3, <1>4, <1>5 DEF InvNext, InvStep

LEMMA SelNextWriter ==
  ASSUME IInv, WriterBound, SelNext
  PROVE  WriterBound' /\ (PlansKept \/ UpdatePlanSecretWithBootstrap)
<1>1. sw.pc # "idle" => sw \in SelWorker /\ (sw.pc = "plan" => sw.obj.invReady = "True")
  BY SelWorkerTyped DEF IInv, SelCopyInv
<1>2. ASSUME NEW pc, NEW o, SelContinue(pc, o), sw.pc # "idle"
      PROVE  sw'.pc = pc /\ sw'.obj = o
  BY <1>1, <1>2 DEF SelContinue, SelWorker
<1>3. ASSUME NEW o, NEW again, SelFinish(o, again), sw.pc # "idle"
      PROVE  sw'.pc = "commit"
  BY <1>1, <1>3 DEF SelFinish, SelWorker
<1>4. CASE FindAndAdoptInventory
  <2>1. UNCHANGED sec /\ sw.pc # "idle"
        /\ \E o : SelContinue("check", o) \/ SelFinish(o, TRUE)
    BY <1>4 DEF FindAndAdoptInventory, SelError
  <2>2. sw'.pc \in {"check", "commit"}
    BY <1>2, <1>3, <2>1
  <2> QED
    BY <2>1, <2>2 DEF WriterBound, PlansKept
<1>5. CASE UpdateAdoptionStatus
  <2>1. \/ sw'.pc = "commit"
        \/ \E o : sw'.pc = StepAfterAdoption(o)
    BY <1>1, <1>3, <1>5 DEF UpdateAdoptionStatus, SelError, SelWorker
  <2>2. sw'.pc # "planWrite"
    BY <2>1 DEF StepAfterAdoption
  <2> QED
    BY <1>5, <2>2 DEF UpdateAdoptionStatus, WriterBound, PlansKept
<1>6. CASE ReadBootstrap
  BY <1>1, <1>2, <1>3, <1>6 DEF ReadBootstrap, SelError, WriterBound, PlansKept
<1>7. CASE UpdatePlanSecretWithBootstrap
  <2>1. sw.pc # "idle" /\ \E o : SelContinue("addresses", o) \/ SelFinish(o, TRUE)
    BY <1>7 DEF UpdatePlanSecretWithBootstrap, SelError
  <2>2. sw'.pc \in {"addresses", "commit"}
    BY <1>2, <1>3, <2>1
  <2> QED
    BY <1>7, <2>2 DEF WriterBound
<1>8. CASE SetInventorySelectorAddresses
  BY <1>3, <1>8 DEF SetInventorySelectorAddresses, SelError, WriterBound, PlansKept
<1>9. CASE SelConflict \/ SelPatchStatus
  BY <1>9 DEF SelConflict, SelPatchStatus, SelDone, IdleSelWorker, WriterBound, PlansKept
<1>10. ASSUME NEW s \in Selectors, SelReconcile(s)
       PROVE  WriterBound' /\ PlansKept
  BY <1>10 DEF SelReconcile, WriterBound, PlansKept
<1> QED
  BY <1>4, <1>5, <1>6, <1>7, <1>8, <1>9, <1>10 DEF SelNext, SelStep

LEMMA OthersPlans ==
  ASSUME IInv, [Next]_vars, ~InvNext, ~SelNext
  PROVE  PlansKept /\ (sw' = sw \/ sw' = IdleSelWorker)
<1>1. sec \in [Inventories -> PlanSecret]
  BY DEF IInv, TypeOK, ClusterTypeOK
<1>2. ASSUME NEW i \in Inventories, CollectSecret(i) PROVE PlansKept /\ sw' = sw
  BY <1>1, <1>2 DEF CollectSecret, NoSecret, PlansKept
<1>3. ASSUME NEW i \in Inventories, NEW answer, AgentAnswers(i, answer)
      PROVE  PlansKept /\ sw' = sw
  BY <1>1, <1>3 DEF AgentAnswers, PlansKept, PlanSecret
<1>4. ASSUME NEW i \in Inventories,
             \/ createMachineInventory(i) \/ updateMachineInventory(i) \/ Delete(i)
             \/ CollectClaim(i) \/ ServeClaim(i)
      PROVE  PlansKept /\ sw' = sw
  BY <1>4
     DEF createMachineInventory, updateMachineInventory, Delete, StoreInventory,
         CollectClaim, ServeClaim, PlansKept
<1>5. ASSUME NEW s \in Selectors, SelectorEnvironment(s) PROVE PlansKept /\ sw' = sw
  BY <1>5
     DEF SelectorEnvironment, DeleteSelector, UpdateSelector, ProvideBootstrap, PlansKept
<1>6. ASSUME NEW x \in Objects, Sync(x) \/ DeadlinePasses(x)
      PROVE  PlansKept /\ sw' = sw
  BY <1>6 DEF Sync, DeadlinePasses, PlansKept
<1>7. CASE Restart \/ UNCHANGED vars
  BY <1>7 DEF Restart, vars, PlansKept
<1> QED
  BY <1>2, <1>3, <1>4, <1>5, <1>6, <1>7
     DEF Next, InventoryEnvironment, DeleteInventory, CollectInventory, AgentApplies,
         AgentFails

\* A selector that writes its plan was recorded as the owner.
LEMMA NextBootstrap ==
  ASSUME IInv, BootstrapInv, [Next]_vars
  PROVE  BootstrapInv'
<1>1. HistoryKept
  BY NextHistory
<1>2. WriterBound' /\ (PlansKept \/ UpdatePlanSecretWithBootstrap)
  BY InvNextPlans, SelNextWriter, OthersPlans DEF BootstrapInv, WriterBound, IdleSelWorker
<1>3. CASE PlansKept
  <2> SUFFICES ASSUME NEW i \in Inventories, sec'[i].plan = "bootstrap"
               PROVE  ByAdopter(i)'
    BY <1>2 DEF BootstrapInv, ByAdopter
  <2> QED
    BY <1>1, <1>3 DEF PlansKept, BootstrapInv, ByAdopter, HistoryKept
<1>4. CASE UpdatePlanSecretWithBootstrap
  <2> DEFINE i == sw.obj.ref
             u == sw.obj.refUid
  <2>1. /\ sw.pc = "planWrite" /\ sw.obj.invReady = "True" /\ sw.key \in Selectors
        /\ i \in Inventories /\ u \in 1..MaxUid /\ adopter[i][u] = sw.key
        /\ sec \in [Inventories -> PlanSecret]
    BY <1>4, SelWorkerTyped, BoundsAssumption
       DEF UpdatePlanSecretWithBootstrap, BootstrapInv, WriterBound, BoundTo, SelectorObject
  <2>2. adopter' = adopter
    BY <1>4 DEF UpdatePlanSecretWithBootstrap, noSelectorWritten, selOthersUnchanged
  <2>3. sec' = sec \/ sec' = [sec EXCEPT ![i] = BootstrapSecret(sw.key, @)]
    BY <1>4 DEF UpdatePlanSecretWithBootstrap
  <2>4. BootstrapSecret(sw.key, sec[i]).by = sw.key
    BY <2>1 DEF BootstrapSecret, PlanSecret
  <2>5. ASSUME NEW j \in Inventories PROVE ByAdopter(j)'
    <3>1. CASE sec'[j] = sec[j]
      BY <2>2, <3>1 DEF BootstrapInv, ByAdopter
    <3>2. CASE j = i /\ sec'[j].by = sw.key
      BY <2>1, <2>2, <3>2, NamesAssumption DEF ByAdopter, Objects
    <3> HIDE DEF i
    <3> QED
      BY <2>1, <2>3, <2>4, <3>1, <3>2
  <2> QED
    BY <1>2, <2>5 DEF BootstrapInv
<1> QED
  BY <1>2, <1>3, <1>4

LEMMA BootstrapInvHolds == Spec => []BootstrapInv
<1>1. Init => BootstrapInv
  BY DEF Init, BootstrapInv, WriterBound, ByAdopter, IdleSelWorker, NoSecret
<1>2. IInv /\ BootstrapInv /\ [Next]_vars => BootstrapInv'
  BY NextBootstrap
<1> QED
  BY <1>1, <1>2, InductiveInvariant, PTL DEF Spec

\* As long as no inventory was registered twice under one name the bootstrap
\* plan in a Secret is that of the owner, though the patch that writes it has
\* no precondition: a selector is bound until the machine goes.
THEOREM BootstrapIsByOwner ==
  Spec => []((\A i \in Inventories : inv[i].uid <= 1) => BootstrapByOwner)
<1>1. ASSUME IInv, BootstrapInv, \A i \in Inventories : inv[i].uid <= 1
      PROVE  BootstrapByOwner
  <2> SUFFICES ASSUME NEW i \in Inventories, sec[i].uid # 0,
                      sec[i].plan = "bootstrap", ownerAlive(i, sec[i].uid)
               PROVE  sec[i].by = inv[i].owner
    BY DEF BootstrapByOwner
  <2>1. inv[i].uid \in Nat /\ inv[i].uid # 0 /\ inv[i].uid <= 1
    BY <1>1, BoundsAssumption DEF ownerAlive, IInv, TypeOK, ClusterTypeOK, InventoryObject
  <2>2. PICK u \in 1..MaxUid : adopter[i][u] = sec[i].by /\ sec[i].by # None
    BY <1>1 DEF BootstrapInv, ByAdopter
  <2>3. u = inv[i].uid /\ inv[i].adopted = "True"
    BY <1>1, <2>1, <2>2, BoundsAssumption DEF IInv, HistoryInv
  <2> QED
    BY <1>1, <2>2, <2>3 DEF IInv, ServerInv, Recorded
<1> QED
  BY <1>1, InductiveInvariant, BootstrapInvHolds, PTL
=============================================================================
