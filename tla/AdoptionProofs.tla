---------------------------- MODULE AdoptionProofs ----------------------------
(***************************************************************************)
(* Proofs about Adoption, for every number of inventories, selectors,      *)
(* registrations and faults.                                               *)
(*                                                                         *)
(* None of the safety properties is inductive: a decision is taken on a    *)
(* cached object and stored later.  IInv says, for each of the places a    *)
(* fact passes through - server, cache, the copy a worker holds - what is  *)
(* known of it there.  The history variable adopter is written once per    *)
(* incarnation, so that "adopter[i][u] = s" stays true wherever a stale    *)
(* copy carries it.                                                        *)
(***************************************************************************)
EXTENDS Adoption, TLAPS

\* An adopted inventory has an owner, the one history names.
Recorded(i, o) ==
  /\ o.exists => o.uid # 0
  /\ o.adopted = "True" => /\ o.uid # 0
                           /\ o.owner # None
                           /\ adopter[i][o.uid] = o.owner

\* History is written once per incarnation, when it becomes adopted.
HistoryInv ==
  \A i \in Inventories : \A u \in 1..MaxUid :
    adopter[i][u] # None =>
      u < inv[i].uid \/ (u = inv[i].uid /\ inv[i].adopted = "True")

ServerInv == \A i \in Inventories : Recorded(i, inv[i])

CacheInv ==
  /\ \A i \in Inventories : i \notin stale => invCache[i] = inv[i]
  /\ \A i \in Inventories : Recorded(i, invCache[i])
  /\ \A s \in Selectors : s \notin stale => selCache[s] = sel[s]

\* A selector that says InventoryReady refers to a machine that it adopted.
BoundTo(s, o) ==
  o.invReady = "True" => /\ o.ref \in Inventories
                         /\ o.refUid # 0
                         /\ adopter[o.ref][o.refUid] = s

BoundInv == \A s \in Selectors : BoundTo(s, sel[s]) /\ BoundTo(s, selCache[s])

\* What is left of the server's object in the copy about to be stored.
SameAdoption(v, o) ==
  /\ v.exists /\ o.uid = v.uid
  /\ v.adopted = "True" => o.adopted = "True"
  /\ o.adopted = "True" => o.owner = v.owner
  /\ o.owner \in {v.owner, None}

InvCopyInv ==
  iw.pc # "idle" =>
    /\ iw.key \in Inventories
    /\ iw.obj.adopted = "True" => iw.obj.owner # None
    /\ iw.key \notin outdated => SameAdoption(inv[iw.key], iw.obj)
    /\ iw.pc = "adoption" => iw.obj.owner # None /\ iw.obj.adopted # "True"

SelCopyInv ==
  sw.pc # "idle" =>
    /\ sw.key \in Selectors
    /\ BoundTo(sw.key, sw.obj)
    /\ sw.pc = "adopt" => sw.obj.ref = None
    /\ sw.pc = "plan" => sw.obj.invReady = "True"
    /\ sw.pc = "planWrite" => sw.obj.ref \in Inventories
    /\ sw.key \notin outdated /\ sel[sw.key].invReady = "True" =>
         /\ sw.obj.invReady = "True"
         /\ sw.obj.ref = sel[sw.key].ref
         /\ sw.obj.refUid = sel[sw.key].refUid

IInv ==
  /\ TypeOK
  /\ HistoryInv
  /\ ServerInv
  /\ CacheInv
  /\ BoundInv
  /\ InvCopyInv
  /\ SelCopyInv

----------------------------------------------------------------------------
(***************************************************************************)
(* The initial state.                                                      *)
(***************************************************************************)
\* The manager starts with no inventory and fresh selectors.
LEMMA InitIInv == Init => IInv
<1> SUFFICES ASSUME Init PROVE IInv
  OBVIOUS
<1> USE NamesAssumption, FeaturesAssumption, BoundsAssumption DEF Init
<1>1. NoInventory \in InventoryObject /\ NewSelector \in SelectorObject
  BY DEF NoInventory, InventoryObject, NewSelector, SelectorObject, Owners,
         PlanStates, Status
<1>2. IdleInvWorker \in InvWorker /\ IdleSelWorker \in SelWorker
  BY <1>1 DEF IdleInvWorker, InvWorker, IdleSelWorker, SelWorker, Owners,
              Answers
<1>3. NoSecret \in PlanSecret /\ NoClaim \in Claim
  BY DEF NoSecret, PlanSecret, Owners, PlanTypes, Answers, NoClaim, Claim
<1>4. TypeOK
  BY <1>1, <1>2, <1>3 DEF TypeOK, ClusterTypeOK, Objects, Owners
<1>5. HistoryInv /\ ServerInv
  BY DEF HistoryInv, ServerInv, Recorded, NoInventory
<1>6. CacheInv
  BY DEF CacheInv, Recorded, NoInventory
<1>7. BoundInv
  BY DEF BoundInv, BoundTo, NewSelector
<1>8. InvCopyInv /\ SelCopyInv
  BY DEF InvCopyInv, SelCopyInv, IdleInvWorker, IdleSelWorker
<1> QED
  BY <1>4, <1>5, <1>6, <1>7, <1>8 DEF IInv

----------------------------------------------------------------------------
(***************************************************************************)
(* What the calls of the MachineInventory reconciler do to their copy.     *)
(***************************************************************************)
\* p is o with its adoption untouched, started, dropped or confirmed.
KeepsAdoption(o, p) ==
  /\ p.uid = o.uid
  /\ \/ p.adopted = o.adopted /\ p.owner = o.owner
     \/ /\ o.adopted # "True" /\ p.adopted # "True"
        /\ p.owner \in {o.owner, None}
     \/ /\ o.adopted # "True" /\ p.adopted = "True"
        /\ p.owner = o.owner /\ p.owner # None

\* Plan and network status leave ownership and adoption alone.
LEMMA StatusKeeps ==
  ASSUME NEW i, NEW o \in InventoryObject, NEW s \in PlanSecret
  PROVE  /\ WithPlanStatus(o, s) \in InventoryObject
         /\ KeepsAdoption(o, WithPlanStatus(o, s))
         /\ WithNetworkReady(i, o) \in InventoryObject
         /\ KeepsAdoption(o, WithNetworkReady(i, o))
BY DEF WithPlanStatus, WithNetworkReady, KeepsAdoption, InventoryObject,
       PlanStates, Status

\* updateInventoryWithAdoptionStatus confirms the owner it found, if at all.
LEMMA AdoptionKeeps ==
  ASSUME NEW i \in Inventories, NEW o \in InventoryObject, NEW s,
         NEW passed \in BOOLEAN, o.owner # None, o.adopted # "True"
  PROVE  /\ AdoptionOf(i, o, s, passed) \in InventoryObject
         /\ KeepsAdoption(o, AdoptionOf(i, o, s, passed))
<1>1. removeSelectorOwnerShip(o) \in InventoryObject
      /\ KeepsAdoption(o, removeSelectorOwnerShip(o))
  BY DEF removeSelectorOwnerShip, KeepsAdoption, InventoryObject, Owners, Status
<1>2. \A a \in Status :
        [o EXCEPT !.adopted = a] \in InventoryObject
        /\ KeepsAdoption(o, [o EXCEPT !.adopted = a])
  BY DEF KeepsAdoption, InventoryObject, Status
<1>3. AdoptionOf(i, o, s, passed) = removeSelectorOwnerShip(o)
      \/ \E a \in Status : AdoptionOf(i, o, s, passed) = [o EXCEPT !.adopted = a]
  BY NamesAssumption DEF AdoptionOf, Status, Objects
<1> QED
  BY <1>1, <1>2, <1>3

\* A reconcile starts from the cached object, with its adoption as it is.
LEMMA FirstStepKeeps ==
  ASSUME NEW i \in Inventories, NEW o \in InventoryObject
  PROVE  /\ FirstInvStep(i, o) \in InvWorker
         /\ FirstInvStep(i, o).key = i
         /\ FirstInvStep(i, o).pc \notin {"idle", "adoption"}
         /\ KeepsAdoption(o, FirstInvStep(i, o).obj)
<1> DEFINE w == FirstInvStep(i, o)
<1>1. WithNetworkReady(i, o) \in InventoryObject
      /\ KeepsAdoption(o, WithNetworkReady(i, o))
  BY DEF WithNetworkReady, KeepsAdoption, InventoryObject, Status
<1>2. StepAfterSecret(i, o) \in {"network", "planStatus"}
  BY DEF StepAfterSecret
<1> DEFINE step(pc, p, again) ==
             [pc |-> pc, key |-> i, obj |-> p, again |-> again,
              answer |-> "absent"]
<1>3. ASSUME NEW pc \in {"commit", "secret", "network", "planStatus", "reset"},
             NEW p \in InventoryObject, NEW again \in BOOLEAN,
             KeepsAdoption(o, p), w = step(pc, p, again)
      PROVE  /\ w \in InvWorker
             /\ w.key = i
             /\ w.pc \notin {"idle", "adoption"}
             /\ KeepsAdoption(o, w.obj)
  BY <1>3 DEF InvWorker, Answers
<1>4. /\ [o EXCEPT !.finalizer = TRUE] \in InventoryObject
      /\ [o EXCEPT !.finalizer = FALSE] \in InventoryObject
      /\ [o EXCEPT !.ready = "False"] \in InventoryObject
      /\ KeepsAdoption(o, o)
      /\ KeepsAdoption(o, [o EXCEPT !.finalizer = TRUE])
      /\ KeepsAdoption(o, [o EXCEPT !.finalizer = FALSE])
      /\ KeepsAdoption(o, [o EXCEPT !.ready = "False"])
  BY DEF InventoryObject, KeepsAdoption
<1>5. \/ w = step("commit", [o EXCEPT !.finalizer = TRUE], TRUE)
      \/ w = step("secret", o, FALSE)
      \/ w = step(StepAfterSecret(i, o), WithNetworkReady(i, o), FALSE)
      \/ w = step("commit", o, FALSE)
      \/ w = step("commit", [o EXCEPT !.finalizer = FALSE], FALSE)
      \/ w = step("commit", [o EXCEPT !.ready = "False"], TRUE)
      \/ w = step("reset", o, FALSE)
  BY DEF FirstInvStep
<1> HIDE DEF w, step
<1>6. /\ w \in InvWorker
      /\ w.key = i
      /\ w.pc \notin {"idle", "adoption"}
      /\ KeepsAdoption(o, w.obj)
  BY <1>1, <1>2, <1>3, <1>4, <1>5
<1> QED
  BY <1>6 DEF w

(***************************************************************************)
(* A call that writes no object: it is enough to look at the copy.         *)
(***************************************************************************)
\* The reconcile goes on with a copy that keeps its adoption.
LEMMA InvWorkerStep ==
  ASSUME IInv, noInventoryWritten, iw.pc # "idle",
         iw' \in InvWorker, iw'.key = iw.key, KeepsAdoption(iw.obj, iw'.obj),
         iw'.pc = "adoption" => iw'.obj.owner # None /\ iw'.obj.adopted # "True",
         sec' \in [Inventories -> PlanSecret],
         ipam' \in [Inventories -> Claim],
         queue' \subseteq Objects,
         faults' \in 0..MaxFaults
  PROVE  IInv'
<1> USE DEF IInv, noInventoryWritten, invOthersUnchanged
<1>1. TypeOK'
  BY DEF TypeOK, ClusterTypeOK
<1>2. (HistoryInv /\ ServerInv)'
  BY DEF HistoryInv, ServerInv, Recorded
<1>3. CacheInv' /\ BoundInv'
  BY DEF CacheInv, Recorded, BoundInv, BoundTo
<1>4. InvCopyInv'
  BY DEF InvCopyInv, SameAdoption, KeepsAdoption
<1>5. SelCopyInv'
  BY DEF SelCopyInv, BoundTo
<1> QED
  BY <1>1, <1>2, <1>3, <1>4, <1>5

----------------------------------------------------------------------------
(***************************************************************************)
(* The MachineInventory reconciler, call by call.                          *)
(***************************************************************************)
\* What every call finds: a typed copy, a typed Secret and its own key.
LEMMA InvWorkerTyped ==
  ASSUME IInv, iw.pc # "idle"
  PROVE  /\ iw \in InvWorker /\ iw.obj \in InventoryObject
         /\ iw.key \in Inventories
         /\ sec[iw.key] \in PlanSecret
         /\ sec \in [Inventories -> PlanSecret]
         /\ ipam \in [Inventories -> Claim]
         /\ queue \subseteq Objects /\ iw.key \in Objects
         /\ faults \in 0..MaxFaults
BY DEF IInv, TypeOK, ClusterTypeOK, InvCopyInv, InvWorker, Objects

\* A step with Fault or NoFault keeps the fault counter in its range.
LEMMA FaultTyped ==
  ASSUME faults \in 0..MaxFaults, Fault \/ NoFault
  PROVE  faults' \in 0..MaxFaults
BY BoundsAssumption DEF Fault, NoFault

\* The ways a call goes on: the copy it hands over is typed.
LEMMA InvContinueTyped ==
  ASSUME iw \in InvWorker, NEW o \in InventoryObject,
         NEW pc \in {"network", "claim", "address", "planStatus", "adoption",
                     "resetStatus"},
         NEW again \in BOOLEAN
  PROVE  /\ InvContinue(pc, o) =>
              iw' \in InvWorker /\ iw'.key = iw.key /\ iw'.pc = pc /\ iw'.obj = o
         /\ InvFinish(o, again) =>
              iw' \in InvWorker /\ iw'.key = iw.key /\ iw'.pc = "commit"
              /\ iw'.obj = o
BY DEF InvContinue, InvFinish, InvWorker

\* The network status and createPlanSecret do not touch the adoption.
LEMMA CreatePlanSecretStep == ASSUME IInv, CreatePlanSecret PROVE IInv'
<1> DEFINE i == iw.key
           o == iw.obj
           planned == [o EXCEPT !.plan = "waiting", !.ready = "False"]
           failed == [o EXCEPT !.ready = "CreationFailure"]
<1>1. iw.pc # "idle" /\ iw.pc = "secret" /\ noInventoryWritten
      /\ UNCHANGED ipam /\ (Fault \/ NoFault)
  BY DEF CreatePlanSecret
<1>2. planned \in InventoryObject /\ failed \in InventoryObject
      /\ KeepsAdoption(o, planned) /\ KeepsAdoption(o, failed)
  BY <1>1, InvWorkerTyped DEF InventoryObject, KeepsAdoption, PlanStates
<1>3. WithNetworkReady(i, planned) \in InventoryObject
      /\ KeepsAdoption(o, WithNetworkReady(i, planned))
  BY <1>2 DEF WithNetworkReady, InventoryObject, KeepsAdoption, Status
<1>4. StepAfterSecret(i, o) \in {"network", "planStatus"}
  BY DEF StepAfterSecret
<1>5. \/ InvContinue(StepAfterSecret(i, o), WithNetworkReady(i, planned))
      \/ InvFinish(failed, TRUE)
  BY DEF CreatePlanSecret
<1>6. iw' \in InvWorker /\ iw'.key = iw.key /\ iw'.pc # "adoption"
      /\ KeepsAdoption(iw.obj, iw'.obj)
  <2> HIDE DEF planned, failed, i
  <2>1. CASE InvContinue(StepAfterSecret(i, o), WithNetworkReady(i, planned))
    BY <2>1, <1>1, <1>3, <1>4, InvWorkerTyped, InvContinueTyped
  <2>2. CASE InvFinish(failed, TRUE)
    BY <2>2, <1>1, <1>2, InvWorkerTyped, InvContinueTyped
  <2> QED
    BY <2>1, <2>2, <1>5
<1>7. sec' \in [Inventories -> PlanSecret] /\ queue' \subseteq Objects
  <2>1. [NoSecret EXCEPT !.uid = o.uid] \in PlanSecret
    BY <1>1, InvWorkerTyped
    DEF NoSecret, PlanSecret, PlanTypes, Owners, Answers, InventoryObject
  <2> QED
    BY <2>1, <1>1, InvWorkerTyped DEF CreatePlanSecret
<1>8. ipam' \in [Inventories -> Claim] /\ faults' \in 0..MaxFaults
  BY <1>1, InvWorkerTyped, FaultTyped
<1> QED
  BY <1>1, <1>6, <1>7, <1>8, InvWorkerStep

\* The IPAddressClaim is created for the incarnation of the copy.
LEMMA ReconcileNetworkConfigStep ==
  ASSUME IInv, ReconcileNetworkConfig PROVE IInv'
<1> DEFINE failed == [iw.obj EXCEPT !.ready = "False"]
<1>1. iw.pc # "idle" /\ noInventoryWritten /\ UNCHANGED <<sec, queue>>
      /\ (InvContinue("claim", iw.obj) \/ InvFinish(failed, TRUE))
      /\ (Fault \/ NoFault)
  BY DEF ReconcileNetworkConfig, InvError
<1>2. failed \in InventoryObject /\ KeepsAdoption(iw.obj, failed)
      /\ KeepsAdoption(iw.obj, iw.obj)
  BY <1>1, InvWorkerTyped DEF InventoryObject, KeepsAdoption, Status
<1> HIDE DEF failed
<1>3. iw' \in InvWorker /\ iw'.key = iw.key /\ iw'.pc # "adoption"
      /\ KeepsAdoption(iw.obj, iw'.obj)
  BY <1>1, <1>2, InvWorkerTyped, InvContinueTyped
<1>4. ipam' \in [Inventories -> Claim]
  <2>1. [uid |-> iw.obj.uid, stage |-> "created"] \in Claim
    BY <1>1, InvWorkerTyped DEF Claim, InventoryObject
  <2> QED
    BY <2>1, <1>1, InvWorkerTyped DEF ReconcileNetworkConfig
<1>5. faults' \in 0..MaxFaults
  BY <1>1, InvWorkerTyped, FaultTyped
<1> QED
  BY <1>1, <1>3, <1>4, <1>5, InvWorkerTyped, InvWorkerStep

\* Reading the claim and its address changes spec and network status only.
LEMMA ReadIPAddressStep ==
  ASSUME IInv, ReadIPAddressClaim \/ ReadIPAddress PROVE IInv'
<1> DEFINE o == iw.obj
           claimed == [o EXCEPT !.net = "claimed"]
           waiting == [o EXCEPT !.netReady = "False"]
           addressed == [o EXCEPT !.net = "addressed"]
           failed == [o EXCEPT !.ready = "False"]
<1>1. iw.pc # "idle" /\ noInventoryWritten
      /\ UNCHANGED <<sec, ipam, queue>> /\ (Fault \/ NoFault)
  BY DEF ReadIPAddressClaim, ReadIPAddress
<1>2. \A p \in {claimed, waiting, addressed, failed} :
        p \in InventoryObject /\ KeepsAdoption(o, p)
  BY <1>1, InvWorkerTyped DEF InventoryObject, KeepsAdoption, Status
<1>3. \/ InvContinue("address", claimed)
      \/ \E p \in {waiting, addressed, failed}, again \in BOOLEAN :
           InvFinish(p, again)
  BY DEF ReadIPAddressClaim, ReadIPAddress, InvError
<1>4. iw' \in InvWorker /\ iw'.key = iw.key /\ iw'.pc # "adoption"
      /\ KeepsAdoption(iw.obj, iw'.obj)
  <2> HIDE DEF claimed, waiting, addressed, failed
  <2> QED
    BY <1>1, <1>2, <1>3, InvWorkerTyped, InvContinueTyped
<1>5. faults' \in 0..MaxFaults
  BY <1>1, InvWorkerTyped, FaultTyped
<1> QED
  BY <1>1, <1>4, <1>5, InvWorkerTyped, InvWorkerStep

\* An error below leaves a typed copy with the adoption it had.
LEMMA InvErrorKeeps ==
  ASSUME iw \in InvWorker, NEW o \in InventoryObject, KeepsAdoption(iw.obj, o),
         InvError(o)
  PROVE  /\ iw' \in InvWorker /\ iw'.key = iw.key /\ iw'.pc = "commit"
         /\ KeepsAdoption(iw.obj, iw'.obj)
<1>1. [o EXCEPT !.ready = "False"] \in InventoryObject
      /\ KeepsAdoption(iw.obj, [o EXCEPT !.ready = "False"])
  BY DEF InventoryObject, KeepsAdoption
<1>2. InvFinish([o EXCEPT !.ready = "False"], TRUE)
  BY DEF InvError
<1> QED
  BY <1>1, <1>2, InvContinueTyped

\* Only an owned inventory that is not adopted yet gets to the adoption.
LEMMA ToAdoptionKeeps ==
  ASSUME iw \in InvWorker, NEW o \in InventoryObject, KeepsAdoption(iw.obj, o),
         o.adopted = "True" => o.owner # None,
         ToAdoption(o)
  PROVE  /\ iw' \in InvWorker /\ iw'.key = iw.key
         /\ KeepsAdoption(iw.obj, iw'.obj)
         /\ iw'.pc = "adoption" =>
              iw'.obj.owner # None /\ iw'.obj.adopted # "True"
<1>1. CASE o.owner = None
  <2> DEFINE p == [o EXCEPT !.adopted = "False"]
  <2>1. p \in InventoryObject /\ KeepsAdoption(iw.obj, p)
    BY <1>1 DEF InventoryObject, KeepsAdoption, Status
  <2>2. InvFinish(p, FALSE)
    BY <1>1 DEF ToAdoption
  <2> HIDE DEF p
  <2> QED
    BY <2>1, <2>2, InvContinueTyped
<1>2. CASE o.owner # None /\ o.adopted = "True"
  <2>1. InvFinish(o, FALSE)
    BY <1>2 DEF ToAdoption
  <2> QED
    BY <2>1, InvContinueTyped
<1>3. CASE o.owner # None /\ o.adopted # "True"
  <2>1. InvContinue("adoption", o)
    BY <1>3 DEF ToAdoption
  <2> QED
    BY <2>1, <1>3, InvContinueTyped
<1> QED
  BY <1>1, <1>2, <1>3

\* What the copy of a reconcile in progress says of its own adoption.
LEMMA CopyOwned ==
  ASSUME IInv, iw.pc # "idle", NEW s \in PlanSecret
  PROVE  LET o == WithPlanStatus(iw.obj, s)
         IN  /\ o \in InventoryObject
             /\ KeepsAdoption(iw.obj, o)
             /\ o.adopted = "True" => o.owner # None
BY InvWorkerTyped, StatusKeeps DEF IInv, InvCopyInv, KeepsAdoption

\* The plan status is read, then the adoption is looked at.
LEMMA UpdateInventoryWithPlanStatusStep ==
  ASSUME IInv, UpdateInventoryWithPlanStatus PROVE IInv'
<1> DEFINE o == WithPlanStatus(iw.obj, sec[iw.key])
<1>1. iw.pc # "idle" /\ noInventoryWritten /\ UNCHANGED <<sec, ipam, queue>>
      /\ (Fault \/ NoFault)
  BY DEF UpdateInventoryWithPlanStatus
<1>2. o \in InventoryObject /\ KeepsAdoption(iw.obj, o)
      /\ (o.adopted = "True" => o.owner # None)
  BY <1>1, CopyOwned, InvWorkerTyped
<1>3. InvError(o) \/ ToAdoption(o) \/ InvError(iw.obj)
  BY DEF UpdateInventoryWithPlanStatus
<1>4. /\ iw' \in InvWorker /\ iw'.key = iw.key
      /\ KeepsAdoption(iw.obj, iw'.obj)
      /\ iw'.pc = "adoption" => iw'.obj.owner # None /\ iw'.obj.adopted # "True"
  <2> HIDE DEF o
  <2>1. KeepsAdoption(iw.obj, iw.obj)
    BY DEF KeepsAdoption
  <2> QED
    BY <2>1, <1>1, <1>2, <1>3, InvWorkerTyped, InvErrorKeeps, ToAdoptionKeeps
<1> QED
  BY <1>1, <1>4, InvWorkerTyped, FaultTyped, InvWorkerStep

\* The adoption is confirmed, awaited or dropped in the copy.
LEMMA UpdateInventoryWithAdoptionStatusStep ==
  ASSUME IInv, UpdateInventoryWithAdoptionStatus PROVE IInv'
<1> DEFINE i == iw.key
           o == iw.obj
           passed == o.adopted = "Unknown" /\ i \in late
           checked == AdoptionOf(i, o, selCache[o.owner], passed)
           failed == [o EXCEPT !.adopted = "False"]
<1>1. iw.pc # "idle" /\ noInventoryWritten /\ UNCHANGED <<sec, ipam, queue>>
      /\ (Fault \/ NoFault) /\ iw.pc = "adoption"
  BY DEF UpdateInventoryWithAdoptionStatus
<1>2. o.owner # None /\ o.adopted # "True"
  BY <1>1 DEF IInv, InvCopyInv
<1>3. checked \in InventoryObject /\ KeepsAdoption(o, checked)
  BY <1>1, <1>2, InvWorkerTyped, AdoptionKeeps
<1>4. failed \in InventoryObject /\ KeepsAdoption(o, failed)
  BY <1>1, <1>2, InvWorkerTyped DEF InventoryObject, KeepsAdoption, Status
<1>5. InvFinish(checked, checked.adopted # "True") \/ InvFinish(failed, TRUE)
  BY DEF UpdateInventoryWithAdoptionStatus
<1>6. iw' \in InvWorker /\ iw'.key = iw.key /\ iw'.pc = "commit"
      /\ KeepsAdoption(iw.obj, iw'.obj)
  <2> HIDE DEF checked, failed
  <2> QED
    BY <1>1, <1>3, <1>4, <1>5, InvWorkerTyped, InvContinueTyped
<1> QED
  BY <1>1, <1>6, InvWorkerTyped, FaultTyped, InvWorkerStep

\* The Secret is read before it is replaced by the reset plan.
LEMMA ReconcileResetPlanSecretStep ==
  ASSUME IInv, ReconcileResetPlanSecret PROVE IInv'
<1>1. iw.pc # "idle" /\ noInventoryWritten /\ UNCHANGED <<sec, ipam, queue>>
      /\ (Fault \/ NoFault)
  BY DEF ReconcileResetPlanSecret
<1>2. \/ InvError(iw.obj)
      \/ iw' = [iw EXCEPT !.pc = "resetWrite", !.answer = sec[iw.key].answer]
      \/ InvContinue("resetStatus", iw.obj)
  BY DEF ReconcileResetPlanSecret
<1>3. KeepsAdoption(iw.obj, iw.obj)
  BY DEF KeepsAdoption
<1>4. iw' \in InvWorker /\ iw'.key = iw.key /\ iw'.pc # "adoption"
      /\ KeepsAdoption(iw.obj, iw'.obj)
  <2>1. CASE InvError(iw.obj)
    BY <2>1, <1>1, <1>3, InvWorkerTyped, InvErrorKeeps
  <2>2. CASE iw' = [iw EXCEPT !.pc = "resetWrite", !.answer = sec[iw.key].answer]
    BY <2>2, <1>1, <1>3, InvWorkerTyped DEF InvWorker, PlanSecret
  <2>3. CASE InvContinue("resetStatus", iw.obj)
    BY <2>3, <1>1, <1>3, InvWorkerTyped, InvContinueTyped
  <2> QED
    BY <2>1, <2>2, <2>3, <1>2
<1> QED
  BY <1>1, <1>4, InvWorkerTyped, FaultTyped, InvWorkerStep

\* The answer to the reset plan decides on the finalizer, not on the owner.
LEMMA ResetStatusStep == ASSUME IInv, ResetStatus PROVE IInv'
<1> DEFINE o == WithPlanStatus(iw.obj, sec[iw.key])
<1>1. iw.pc # "idle" /\ noInventoryWritten /\ UNCHANGED <<sec, ipam, queue>>
      /\ (Fault \/ NoFault)
  BY DEF ResetStatus
<1>2. o \in InventoryObject /\ KeepsAdoption(iw.obj, o)
  BY <1>1, CopyOwned, InvWorkerTyped
<1>3. InvError(o) \/ InvFinish(ReleaseAfterReset(o), FALSE) \/ InvError(iw.obj)
  BY DEF ResetStatus
<1>4. ReleaseAfterReset(o) \in InventoryObject
      /\ KeepsAdoption(iw.obj, ReleaseAfterReset(o))
  BY <1>2 DEF ReleaseAfterReset, InventoryObject, KeepsAdoption
<1>5. iw' \in InvWorker /\ iw'.key = iw.key /\ iw'.pc = "commit"
      /\ KeepsAdoption(iw.obj, iw'.obj)
  <2> HIDE DEF o
  <2>1. KeepsAdoption(iw.obj, iw.obj)
    BY DEF KeepsAdoption
  <2> QED
    BY <2>1, <1>1, <1>2, <1>3, <1>4, InvWorkerTyped, InvErrorKeeps,
       InvContinueTyped
<1> QED
  BY <1>1, <1>5, InvWorkerTyped, FaultTyped, InvWorkerStep

\* Writing the reset plan clears the answer of the Secret.
LEMMA UpdatePlanSecretWithResetStep ==
  ASSUME IInv, UpdatePlanSecretWithReset PROVE IInv'
<1> DEFINE cleared == [iw.obj EXCEPT !.plan = "waiting"]
<1>1. iw.pc # "idle" /\ noInventoryWritten /\ UNCHANGED ipam
      /\ (Fault \/ NoFault)
  BY DEF UpdatePlanSecretWithReset
<1>2. cleared \in InventoryObject /\ KeepsAdoption(iw.obj, cleared)
      /\ KeepsAdoption(iw.obj, iw.obj)
  BY <1>1, InvWorkerTyped DEF InventoryObject, KeepsAdoption, PlanStates
<1>3. InvFinish(cleared, FALSE) \/ InvError(iw.obj)
  BY DEF UpdatePlanSecretWithReset
<1>4. iw' \in InvWorker /\ iw'.key = iw.key /\ iw'.pc = "commit"
      /\ KeepsAdoption(iw.obj, iw'.obj)
  <2> HIDE DEF cleared
  <2> QED
    BY <1>1, <1>2, <1>3, InvWorkerTyped, InvErrorKeeps, InvContinueTyped
<1>5. sec' \in [Inventories -> PlanSecret] /\ queue' \subseteq Objects
  <2>1. ResetSecret(sec[iw.key]) \in PlanSecret
    BY <1>1, InvWorkerTyped
    DEF ResetSecret, newResetPlan, PlanSecret, PlanTypes, Owners, Answers
  <2> QED
    BY <2>1, <1>1, InvWorkerTyped DEF UpdatePlanSecretWithReset
<1> QED
  BY <1>1, <1>4, <1>5, InvWorkerTyped, FaultTyped, InvWorkerStep

----------------------------------------------------------------------------
(***************************************************************************)
(* Writes of an inventory, by whoever.                                     *)
(***************************************************************************)
\* History is only added to.
HistoryKept ==
  \A i \in Inventories : \A u \in 1..MaxUid :
    adopter[i][u] # None => adopter'[i][u] = adopter[i][u]

\* The keys a watch event enqueues are objects.
LEMMA KeysTyped ==
  ASSUME NEW i \in Inventories, NEW v \in InventoryObject,
         NEW o \in InventoryObject
  PROVE  UpdateKeys(i, v, o) \in SUBSET Objects
         /\ ObjectKeys(i, v) \in SUBSET Objects
         /\ ObjectKeys(i, o) \in SUBSET Objects
<1>1. \A p \in {v, o} : MachineInventoryToSelector(i, p) \subseteq Objects
  BY DEF MachineInventoryToSelector, Objects, InventoryObject, Owners
<1> QED
  BY <1>1 DEF UpdateKeys, ObjectKeys, Objects

\* The new version is of the same incarnation and keeps a confirmed
\* adoption; or of the next incarnation, not adopted; or it is adopted now.
AdoptionEvolves(i, o) ==
  \/ /\ o.uid = inv[i].uid
     /\ o.adopted = "True" <=> inv[i].adopted = "True"
     /\ inv[i].adopted = "True" => o.owner = inv[i].owner
     /\ adopter' = adopter
  \/ /\ o.uid = inv[i].uid + 1
     /\ o.adopted # "True"
     /\ adopter' = adopter
  \/ /\ o.uid = inv[i].uid
     /\ o.adopted = "True" /\ inv[i].adopted # "True"
     /\ o.owner # None
     /\ adopter' = [adopter EXCEPT ![i][o.uid] = o.owner]

\* Server, cache and history agree after the write.
LEMMA InventoryWrite ==
  ASSUME IInv, NEW i \in Inventories, NEW o \in InventoryObject,
         o.exists => o.uid # 0,
         o.adopted = "True" => o.uid # 0,
         inv' = [inv EXCEPT ![i] = o],
         stale' = stale \cup {i},
         UNCHANGED <<invCache, sel, selCache>>,
         AdoptionEvolves(i, o)
  PROVE  /\ HistoryKept
         /\ (HistoryInv /\ ServerInv /\ CacheInv /\ BoundInv)'
         /\ adopter' \in [Inventories -> [1..MaxUid -> Owners]]
<1>1. /\ inv \in [Inventories -> InventoryObject]
      /\ invCache \in [Inventories -> InventoryObject]
      /\ sel \in [Selectors -> SelectorObject]
      /\ selCache \in [Selectors -> SelectorObject]
      /\ adopter \in [Inventories -> [1..MaxUid -> Owners]]
  BY DEF IInv, TypeOK, ClusterTypeOK
<1>2. \A v \in InventoryObject : v.uid \in 0..MaxUid /\ v.owner \in Owners
  BY DEF InventoryObject
<1>3. MaxUid \in Nat /\ None \notin Selectors
  BY BoundsAssumption, NamesAssumption DEF Objects
<1>4. adopter' \in [Inventories -> [1..MaxUid -> Owners]]
  <2>1. [adopter[i] EXCEPT ![o.uid] = o.owner] \in [1..MaxUid -> Owners]
    BY <1>1, <1>2
  <2>2. CASE adopter' = [adopter EXCEPT ![i][o.uid] = o.owner]
    <3>1. adopter' = [adopter EXCEPT ![i] = [adopter[i] EXCEPT ![o.uid] = o.owner]]
      BY <2>2
    <3> QED
      BY <3>1, <2>1, <1>1
  <2> QED
    BY <2>2, <1>1 DEF AdoptionEvolves
<1>a. \A j \in Inventories : \A u \in 1..MaxUid :
        adopter[j][u] # None =>
          u < inv[j].uid \/ (u = inv[j].uid /\ inv[j].adopted = "True")
  BY DEF IInv, HistoryInv
<1>b. /\ \A j \in Inventories : j # i => inv'[j] = inv[j]
      /\ inv'[i] = o
      /\ inv[i].uid \in Nat /\ o.uid \in Nat
  BY <1>1, <1>2, <1>3
<1>5. HistoryKept
  <2> SUFFICES ASSUME NEW j \in Inventories, NEW u \in 1..MaxUid,
                      adopter[j][u] # None
               PROVE  adopter'[j][u] = adopter[j][u]
    BY DEF HistoryKept
  <2>1. CASE adopter' = adopter
    BY <2>1
  <2>2. CASE /\ o.uid = inv[i].uid /\ inv[i].adopted # "True"
             /\ adopter' = [adopter EXCEPT ![i][o.uid] = o.owner]
    <3>1. j # i \/ u # o.uid
      BY <2>2, <1>a, <1>b
    <3> QED
      BY <3>1, <2>2, <1>1
  <2> QED
    BY <2>1, <2>2 DEF AdoptionEvolves
<1>6. HistoryInv'
  <2> SUFFICES ASSUME NEW j \in Inventories, NEW u \in 1..MaxUid,
                      adopter'[j][u] # None
               PROVE  u < inv'[j].uid
                      \/ (u = inv'[j].uid /\ inv'[j].adopted = "True")
    BY DEF HistoryInv
  <2>1. CASE j # i
    <3>1. adopter'[j] = adopter[j]
      BY <2>1, <1>1 DEF AdoptionEvolves
    <3> QED
      BY <3>1, <2>1, <1>a, <1>b
  <2>2. CASE j = i /\ adopter' = adopter
    BY <2>2, <1>a, <1>b DEF AdoptionEvolves
  <2>3. CASE /\ j = i
             /\ o.uid = inv[i].uid /\ o.adopted = "True"
             /\ adopter' = [adopter EXCEPT ![i][o.uid] = o.owner]
    <3>1. u = o.uid \/ adopter'[j][u] = adopter[j][u]
      BY <2>3, <1>1
    <3> QED
      BY <3>1, <2>3, <1>a, <1>b
  <2> QED
    BY <2>1, <2>2, <2>3 DEF AdoptionEvolves
<1>7. ServerInv'
  <2> SUFFICES ASSUME NEW j \in Inventories PROVE Recorded(j, inv[j])'
    BY DEF ServerInv
  <2>1. CASE j # i
    BY <2>1, <1>1, <1>2, <1>3, <1>5
    DEF IInv, ServerInv, Recorded, HistoryKept
  <2>2. CASE j = i
    BY <2>2, <1>1, <1>2, <1>3 DEF IInv, ServerInv, Recorded, AdoptionEvolves
  <2> QED
    BY <2>1, <2>2
<1>8. CacheInv'
  <2>1. \A j \in Inventories : Recorded(j, invCache[j])'
    BY <1>1, <1>2, <1>3, <1>5 DEF IInv, CacheInv, Recorded, HistoryKept
  <2> QED
    BY <2>1, <1>1 DEF IInv, CacheInv
<1>9. BoundInv'
  <2>1. \A s \in Selectors : sel[s].refUid \in 0..MaxUid
                           /\ selCache[s].refUid \in 0..MaxUid
    BY <1>1 DEF SelectorObject
  <2> QED
    BY <2>1, <1>3, <1>5 DEF IInv, BoundInv, BoundTo, HistoryKept
<1> QED
  BY <1>4, <1>5, <1>6, <1>7, <1>8, <1>9

\* A copy of an inventory that the write outdates needs no care any more.
LEMMA InvCopyStays ==
  ASSUME InvCopyInv, UNCHANGED iw,
         iw.pc # "idle" /\ iw.key \notin outdated' =>
           iw.key \notin outdated /\ inv'[iw.key] = inv[iw.key]
  PROVE  InvCopyInv'
BY DEF InvCopyInv, SameAdoption

\* The same for a copy of a selector; what history says of it stays true.
LEMMA SelCopyStays ==
  ASSUME IInv, UNCHANGED sw, HistoryKept,
         sw.pc # "idle" /\ sw.key \notin outdated' =>
           sw.key \notin outdated /\ sel'[sw.key] = sel[sw.key]
  PROVE  SelCopyInv'
<1>1. sw.obj.refUid \in 0..MaxUid
  BY DEF IInv, TypeOK, ClusterTypeOK, SelWorker, SelectorObject
<1>2. None \notin Selectors /\ MaxUid \in Nat
  BY NamesAssumption, BoundsAssumption DEF Objects
<1> QED
  BY <1>1, <1>2 DEF IInv, SelCopyInv, BoundTo, HistoryKept

----------------------------------------------------------------------------
(***************************************************************************)
(* The end of Reconcile of the MachineInventory controller.                *)
(***************************************************************************)
\* The worker is idle again, its key perhaps back in the queue.
LEMMA InvDoneTyped ==
  ASSUME IInv, iw.pc # "idle", NEW again, InvDone(again)
  PROVE  iw' \in InvWorker /\ iw'.pc = "idle" /\ queue' \subseteq Objects
<1>1. NoInventory \in InventoryObject
  BY BoundsAssumption, NamesAssumption
  DEF NoInventory, InventoryObject, Owners, PlanStates, Status
<1> QED
  BY <1>1, InvWorkerTyped DEF InvDone, IdleInvWorker, InvWorker, Answers

\* One of the two patches, accepted.
LEMMA InvStoreStep ==
  ASSUME IInv, iw.pc # "idle", NEW o \in InventoryObject, NEW again,
         NEW keys \in SUBSET Objects,
         o.exists => o.uid # 0,
         o.adopted = "True" => o.uid # 0,
         AdoptionEvolves(iw.key, o),
         InvStore(iw.key, o, keys),
         InvDone(again), invOthersUnchanged, UNCHANGED <<sec, ipam>>,
         faults' \in 0..MaxFaults
  PROVE  IInv'
<1> DEFINE i == iw.key
<1>1. i \in Inventories /\ i \in Objects
  BY InvWorkerTyped
<1>2. /\ inv' = [inv EXCEPT ![i] = o]
      /\ stale' = stale \cup {i}
      /\ outdated' = (outdated \cup {i}) \cap {sw.key}
      /\ note' = [note EXCEPT ![i] = @ \cup keys]
      /\ late' \in {late, late \ {i}}
      /\ UNCHANGED <<invCache, sel, selCache, dataReady, sw, sec, ipam>>
  BY DEF InvStore, Written, invOthersUnchanged
<1>3. /\ HistoryKept
      /\ (HistoryInv /\ ServerInv /\ CacheInv /\ BoundInv)'
      /\ adopter' \in [Inventories -> [1..MaxUid -> Owners]]
  BY <1>1, <1>2, InventoryWrite
<1>4. iw' \in InvWorker /\ iw'.pc = "idle" /\ queue' \subseteq Objects
  BY InvDoneTyped
<1>5. TypeOK'
  BY <1>1, <1>2, <1>3, <1>4 DEF IInv, TypeOK, ClusterTypeOK
<1>6. InvCopyInv'
  BY <1>4 DEF InvCopyInv
<1>7. SelCopyInv'
  <2>1. sw.pc # "idle" /\ sw.key \notin outdated' => sw.key \notin outdated
    BY <1>2
  <2> QED
    BY <2>1, <1>2, <1>3, SelCopyStays
<1> QED
  BY <1>3, <1>5, <1>6, <1>7 DEF IInv

\* The patches are refused or lost.
LEMMA InvNothingStoredStep ==
  ASSUME IInv, iw.pc # "idle", InvNothingStored, NEW again, InvDone(again),
         invOthersUnchanged, UNCHANGED <<sec, ipam>>,
         faults' \in 0..MaxFaults
  PROVE  IInv'
<1>1. iw' \in InvWorker /\ iw'.pc = "idle" /\ queue' \subseteq Objects
  BY InvDoneTyped
<1>2. /\ UNCHANGED <<inv, stale, note, late, adopter>>
      /\ UNCHANGED <<invCache, sel, selCache, dataReady, sw, sec, ipam>>
      /\ outdated' = outdated \ {iw.key}
  BY DEF InvNothingStored, invOthersUnchanged
<1>3. TypeOK'
  BY <1>1, <1>2 DEF IInv, TypeOK, ClusterTypeOK
<1>4. (HistoryInv /\ ServerInv /\ CacheInv /\ BoundInv)'
  BY <1>2 DEF IInv, HistoryInv, ServerInv, CacheInv, BoundInv, Recorded, BoundTo
<1>5. InvCopyInv'
  BY <1>1 DEF InvCopyInv
<1>6. SelCopyInv'
  <2>1. HistoryKept
    BY <1>2 DEF HistoryKept
  <2>2. sw.pc # "idle" => sw.key # iw.key
    BY InvWorkerTyped, NamesAssumption DEF IInv, SelCopyInv
  <2> QED
    BY <2>1, <2>2, <1>2, SelCopyStays
<1> QED
  BY <1>1, <1>3, <1>4, <1>5, <1>6 DEF IInv

\* A refused patch leaves the stored adoption as it is.
LEMMA InvConflictStep == ASSUME IInv, InvConflict PROVE IInv'
<1>1. iw.pc # "idle" /\ InvNothingStored /\ InvDone(TRUE)
      /\ invOthersUnchanged /\ UNCHANGED <<sec, ipam>> /\ (Fault \/ NoFault)
  BY DEF InvConflict
<1> QED
  BY <1>1, InvWorkerTyped, FaultTyped, InvNothingStoredStep

\* What the server holds of the key of an unfinished reconcile, and what the
\* copy says of its adoption when it is the latest version.
LEMMA CopyCurrent ==
  ASSUME IInv, iw.pc # "idle", iw.key \notin outdated
  PROVE  /\ inv[iw.key] \in InventoryObject
         /\ inv[iw.key].uid # 0
         /\ Recorded(iw.key, inv[iw.key])
         /\ SameAdoption(inv[iw.key], iw.obj)
         /\ iw.obj.adopted = "True" => iw.obj.owner # None
BY InvWorkerTyped
DEF IInv, TypeOK, ClusterTypeOK, InvCopyInv, ServerInv, Recorded, SameAdoption

\* The object goes with its finalizer.
LEMMA InvReleaseStep == ASSUME IInv, InvRelease PROVE IInv'
<1> DEFINE v == inv[iw.key]
<1>1. iw.pc # "idle" /\ iw.key \notin outdated
      /\ InvStore(iw.key, Gone(v), ObjectKeys(iw.key, v))
      /\ InvDone(iw.again) /\ invOthersUnchanged
      /\ UNCHANGED <<sec, ipam, faults>>
  BY DEF InvRelease
<1>2. v \in InventoryObject /\ v.uid # 0
  BY <1>1, CopyCurrent
<1>3. Gone(v) \in InventoryObject /\ Gone(v).uid = v.uid
      /\ Gone(v).adopted = v.adopted /\ Gone(v).owner = v.owner
  BY <1>2 DEF Gone, NoInventory, InventoryObject, PlanStates, Status
<1>4. adopter' = adopter
  BY <1>1, <1>3 DEF InvStore
<1>5. AdoptionEvolves(iw.key, Gone(v))
  BY <1>3, <1>4 DEF AdoptionEvolves
<1>6. ObjectKeys(iw.key, v) \in SUBSET Objects
  BY <1>1, <1>2, InvWorkerTyped, KeysTyped
<1> QED
  BY <1>1, <1>2, <1>3, <1>5, <1>6, InvWorkerTyped, InvStoreStep

\* Ownership is only dropped while the adoption is not confirmed.
LEMMA InvPatchMetaStep == ASSUME IInv, InvPatchMeta PROVE IInv'
<1> DEFINE v == inv[iw.key]
           o == WithMeta(v, iw.obj)
<1>1. iw.pc # "idle" /\ iw.key \notin outdated
      /\ InvStore(iw.key, o, UpdateKeys(iw.key, v, o))
      /\ InvDone(TRUE) /\ invOthersUnchanged
      /\ UNCHANGED <<sec, ipam, faults>>
  BY DEF InvPatchMeta
<1>2. v \in InventoryObject /\ v.uid # 0 /\ SameAdoption(v, iw.obj)
      /\ iw.obj \in InventoryObject
  BY <1>1, CopyCurrent, InvWorkerTyped
<1>3. o \in InventoryObject /\ o.uid = v.uid
      /\ o.adopted = v.adopted /\ o.owner = iw.obj.owner
  BY <1>2 DEF WithMeta, InventoryObject
<1> HIDE DEF v, o
<1>4. adopter' = adopter
  BY <1>1, <1>3 DEF InvStore, v
<1>5. AdoptionEvolves(iw.key, o)
  BY <1>2, <1>3, <1>4 DEF AdoptionEvolves, SameAdoption, v
<1>6. UpdateKeys(iw.key, v, o) \in SUBSET Objects
  BY <1>1, <1>2, <1>3, InvWorkerTyped, KeysTyped
<1> QED
  BY <1>1, <1>2, <1>3, <1>5, <1>6, InvWorkerTyped, InvStoreStep

\* The status carries the adoption: confirmed for the owner on the server.
LEMMA StatusEvolves ==
  ASSUME IInv, iw.pc # "idle", iw.key \notin outdated,
         NEW keys, InvStore(iw.key, WithStatus(inv[iw.key], iw.obj), keys)
  PROVE  LET o == WithStatus(inv[iw.key], iw.obj)
         IN  /\ o \in InventoryObject
             /\ inv[iw.key] \in InventoryObject
             /\ o.uid # 0
             /\ AdoptionEvolves(iw.key, o)
<1> DEFINE v == inv[iw.key]
           o == WithStatus(v, iw.obj)
<1>1. v \in InventoryObject /\ v.uid # 0 /\ Recorded(iw.key, v)
      /\ SameAdoption(v, iw.obj)
      /\ (iw.obj.adopted = "True" => iw.obj.owner # None)
      /\ iw.obj \in InventoryObject
  BY CopyCurrent, InvWorkerTyped
<1>2. o \in InventoryObject /\ o.uid = v.uid
      /\ o.adopted = iw.obj.adopted /\ o.owner = v.owner
  BY <1>1 DEF WithStatus, InventoryObject
<1>3. adopter' = IF o.adopted = "True" /\ v.adopted # "True"
                 THEN [adopter EXCEPT ![iw.key][o.uid] = o.owner]
                 ELSE adopter
  BY DEF InvStore
<1> HIDE DEF v, o
<1>4. AdoptionEvolves(iw.key, o)
  BY <1>1, <1>2, <1>3 DEF AdoptionEvolves, SameAdoption, v
<1> QED
  BY <1>1, <1>2, <1>4 DEF v, o

\* The status patch that follows an empty one.
LEMMA InvPatchStatusStep == ASSUME IInv, InvPatchStatus PROVE IInv'
<1> DEFINE v == inv[iw.key]
           o == WithStatus(v, iw.obj)
<1>1. iw.pc # "idle" /\ iw.key \notin outdated
      /\ InvDone(iw.again) /\ invOthersUnchanged
      /\ UNCHANGED <<sec, ipam, faults>>
  BY DEF InvPatchStatus
<1>2. CASE o # v
  <2>1. InvStore(iw.key, o, UpdateKeys(iw.key, v, o))
    BY <1>2 DEF InvPatchStatus
  <2>2. o \in InventoryObject /\ v \in InventoryObject /\ o.uid # 0
        /\ AdoptionEvolves(iw.key, o)
    BY <2>1, <1>1, StatusEvolves
  <2>3. UpdateKeys(iw.key, v, o) \in SUBSET Objects
    BY <2>2, <1>1, InvWorkerTyped, KeysTyped
  <2> QED
    BY <2>1, <2>2, <2>3, <1>1, InvWorkerTyped, InvStoreStep
<1>3. CASE o = v
  <2>1. InvNothingStored
    BY <1>3 DEF InvPatchStatus
  <2> QED
    BY <2>1, <1>1, InvWorkerTyped, InvNothingStoredStep
<1> QED
  BY <1>2, <1>3

\* The status patch that follows a lost one.
LEMMA InvPatchStatusAloneStep == ASSUME IInv, InvPatchStatusAlone PROVE IInv'
<1> DEFINE v == inv[iw.key]
           o == WithStatus(v, iw.obj)
<1>1. iw.pc # "idle" /\ iw.key \notin outdated /\ Fault
      /\ InvStore(iw.key, o, UpdateKeys(iw.key, v, o))
      /\ InvDone(TRUE) /\ invOthersUnchanged /\ UNCHANGED <<sec, ipam>>
  BY DEF InvPatchStatusAlone
<1>2. o \in InventoryObject /\ v \in InventoryObject /\ o.uid # 0
      /\ AdoptionEvolves(iw.key, o)
  BY <1>1, StatusEvolves
<1>3. UpdateKeys(iw.key, v, o) \in SUBSET Objects
  BY <1>1, <1>2, InvWorkerTyped, KeysTyped
<1> QED
  BY <1>1, <1>2, <1>3, InvWorkerTyped, FaultTyped, InvStoreStep

\* A reconcile begins with what the cache holds, outdated when it is stale.
LEMMA InvReconcileStep ==
  ASSUME IInv, NEW i \in Inventories, InvReconcile(i) PROVE IInv'
<1>1. /\ UNCHANGED <<inv, invCache, sel, selCache, stale, note, late, sec, ipam,
                     dataReady, sw, faults, adopter>>
      /\ queue' = queue \ {i}
  BY DEF InvReconcile, invOthersUnchanged
<1>2. invCache[i] \in InventoryObject
  BY DEF IInv, TypeOK, ClusterTypeOK
<1>3. CASE invCache[i].exists
  <2> DEFINE o == invCache[i]
  <2>1. iw' = FirstInvStep(i, o) /\ outdated' = outdated \cup ({i} \cap stale)
    BY <1>3 DEF InvReconcile
  <2>2. iw' \in InvWorker /\ iw'.key = i /\ iw'.pc \notin {"idle", "adoption"}
        /\ KeepsAdoption(o, iw'.obj)
    BY <2>1, <1>2, FirstStepKeeps
  <2>3. TypeOK'
    BY <1>1, <2>1, <2>2 DEF IInv, TypeOK, ClusterTypeOK, Objects
  <2>4. (HistoryInv /\ ServerInv /\ CacheInv /\ BoundInv)'
    BY <1>1 DEF IInv, HistoryInv, ServerInv, CacheInv, BoundInv, Recorded,
                BoundTo
  <2>5. InvCopyInv'
    <3>1. o.adopted = "True" => o.owner # None
      BY DEF IInv, CacheInv, Recorded
    <3>2. i \notin outdated' => SameAdoption(inv[i], o)
      BY <2>1, <1>3 DEF IInv, CacheInv, SameAdoption
    <3> QED
      BY <3>1, <3>2, <2>2, <1>1
      DEF InvCopyInv, SameAdoption, KeepsAdoption
  <2>6. SelCopyInv'
    <3>1. HistoryKept
      BY <1>1 DEF HistoryKept
    <3> QED
      BY <3>1, <1>1, <2>1, SelCopyStays
  <2> QED
    BY <2>3, <2>4, <2>5, <2>6 DEF IInv
<1>4. CASE ~invCache[i].exists
  <2>1. UNCHANGED <<iw, outdated>>
    BY <1>4 DEF InvReconcile
  <2> QED
    BY <1>1, <2>1
    DEF IInv, TypeOK, ClusterTypeOK, HistoryInv, ServerInv, CacheInv, BoundInv,
        Recorded, BoundTo, InvCopyInv, SameAdoption, SelCopyInv
<1> QED
  BY <1>3, <1>4

----------------------------------------------------------------------------
(***************************************************************************)
(* The MachineInventorySelector reconciler, call by call.                  *)
(***************************************************************************)
\* What every call finds: a typed copy and its own key.
LEMMA SelWorkerTyped ==
  ASSUME IInv, sw.pc # "idle"
  PROVE  /\ sw \in SelWorker /\ sw.obj \in SelectorObject
         /\ sw.key \in Selectors /\ sw.key \in Objects
         /\ sw.again \in BOOLEAN
         /\ BoundTo(sw.key, sw.obj)
         /\ sec \in [Inventories -> PlanSecret]
         /\ invCache \in [Inventories -> InventoryObject]
         /\ sel[sw.key] \in SelectorObject
         /\ queue \subseteq Objects
         /\ faults \in 0..MaxFaults
BY DEF IInv, TypeOK, ClusterTypeOK, SelCopyInv, SelWorker, Objects

\* The copy p is o with its binding as it was, or o was not bound.
KeepsBinding(o, p) ==
  o.invReady = "True" => /\ p.invReady = "True"
                         /\ p.ref = o.ref
                         /\ p.refUid = o.refUid

\* What the next call relies on.
SelPcInv(w) ==
  /\ w.pc = "adopt" => w.obj.ref = None
  /\ w.pc = "plan" => w.obj.invReady = "True"
  /\ w.pc = "planWrite" => w.obj.ref \in Inventories

\* A call that writes no object: it is enough to look at the copy.
LEMMA SelWorkerStep ==
  ASSUME IInv, noSelectorWritten, sw.pc # "idle",
         sw' \in SelWorker, sw'.key = sw.key,
         BoundTo(sw.key, sw'.obj), KeepsBinding(sw.obj, sw'.obj), SelPcInv(sw'),
         sec' \in [Inventories -> PlanSecret],
         queue' \subseteq Objects,
         faults' \in 0..MaxFaults
  PROVE  IInv'
<1> USE DEF IInv, noSelectorWritten, selOthersUnchanged
<1>1. TypeOK'
  BY DEF TypeOK, ClusterTypeOK
<1>2. (HistoryInv /\ ServerInv)'
  BY DEF HistoryInv, ServerInv, Recorded
<1>3. CacheInv' /\ BoundInv'
  BY DEF CacheInv, Recorded, BoundInv, BoundTo
<1>4. InvCopyInv'
  BY DEF InvCopyInv, SameAdoption
<1>5. SelCopyInv'
  BY DEF SelCopyInv, BoundTo, KeepsBinding, SelPcInv
<1> QED
  BY <1>1, <1>2, <1>3, <1>4, <1>5

\* The ways a call goes on: the copy it hands over is typed.
LEMMA SelContinueTyped ==
  ASSUME sw \in SelWorker, NEW o \in SelectorObject,
         NEW pc \in {"check", "plan", "planWrite", "addresses", "commit"},
         NEW again \in BOOLEAN
  PROVE  /\ SelContinue(pc, o) =>
              sw' \in SelWorker /\ sw'.key = sw.key /\ sw'.pc = pc /\ sw'.obj = o
         /\ SelFinish(o, again) =>
              sw' \in SelWorker /\ sw'.key = sw.key /\ sw'.pc = "commit"
              /\ sw'.obj = o
         /\ SelError(o) =>
              sw' \in SelWorker /\ sw'.key = sw.key /\ sw'.pc = "commit"
              /\ sw'.obj = o
BY DEF SelContinue, SelFinish, SelError, SelWorker

\* A selector believes only a cached inventory that names it as the owner
\* and is adopted: history then names it too.
LEMMA AdoptionStatusBound ==
  ASSUME IInv, NEW s \in Selectors, NEW o \in SelectorObject,
         o.ref \in Inventories, NEW passed \in BOOLEAN
  PROVE  LET checked == AdoptionStatus(s, o, invCache[o.ref], passed)
         IN  checked \in SelectorObject /\ BoundTo(s, checked)
<1> DEFINE v == invCache[o.ref]
           checked == AdoptionStatus(s, o, v, passed)
           adopted == [o EXCEPT !.invReady = "True", !.refUid = v.uid]
<1>1. v \in InventoryObject /\ Recorded(o.ref, v)
  BY DEF IInv, TypeOK, ClusterTypeOK, CacheInv
<1>2. /\ adopted \in SelectorObject
      /\ adopted.ref = o.ref /\ adopted.refUid = v.uid
  BY <1>1 DEF SelectorObject, InventoryObject, Status
<1>3. \A p \in {[o EXCEPT !.invReady = "False"],
                [o EXCEPT !.invReady = "Unknown"], RestartAdoption(o)} :
        p \in SelectorObject /\ p.invReady # "True"
  BY DEF RestartAdoption, SelectorObject, Status
<1>4. \/ checked \in {[o EXCEPT !.invReady = "False"],
                      [o EXCEPT !.invReady = "Unknown"], RestartAdoption(o)}
      \/ /\ checked = adopted
         /\ v.owner \in {None, s} /\ v.owner # None /\ v.adopted = "True"
  BY <1>1 DEF AdoptionStatus, OrphanInventory, InventoryObject
<1> HIDE DEF adopted
<1>5. checked \in SelectorObject /\ BoundTo(s, checked)
  BY <1>1, <1>2, <1>3, <1>4 DEF BoundTo, Recorded
<1> QED
  BY <1>5

\* Only a bound selector goes on to the plan.
LEMMA StepAfterAdoptionTyped ==
  ASSUME NEW o
  PROVE  /\ StepAfterAdoption(o) \in {"plan", "addresses", "commit"}
         /\ StepAfterAdoption(o) = "plan" => o.invReady = "True"
BY DEF StepAfterAdoption

\* updateAdoptionStatus binds the selector, waits, or restarts.
LEMMA UpdateAdoptionStatusStep == ASSUME IInv, UpdateAdoptionStatus PROVE IInv'
<1> DEFINE s == sw.key
           o == sw.obj
           settled == o.ref = None \/ o.invReady = "True"
           passed == s \in late /\ o.ref = sel[s].ref
           checked == AdoptionStatus(s, o, invCache[o.ref], passed)
           failed == [o EXCEPT !.invReady = "False"]
<1>1. sw.pc # "idle" /\ noSelectorWritten /\ UNCHANGED <<sec, queue>>
      /\ (Fault \/ NoFault)
  BY DEF UpdateAdoptionStatus
<1>2. sw \in SelWorker /\ o \in SelectorObject /\ s \in Selectors
      /\ BoundTo(s, o)
  BY <1>1, SelWorkerTyped
<1>3. CASE settled
  <2>1. sw' = [sw EXCEPT !.pc = StepAfterAdoption(o), !.again = (o.ref = None)]
    BY <1>3 DEF UpdateAdoptionStatus, AdoptionSettled
  <2>2. sw' \in SelWorker /\ sw'.key = s /\ sw'.obj = o
        /\ sw'.pc = StepAfterAdoption(o)
    BY <2>1, <1>2, StepAfterAdoptionTyped DEF SelWorker
  <2>3. SelPcInv(sw') /\ KeepsBinding(o, sw'.obj)
    BY <2>2, StepAfterAdoptionTyped DEF SelPcInv, KeepsBinding
  <2> QED
    BY <2>2, <2>3, <1>1, <1>2, SelWorkerTyped, FaultTyped, SelWorkerStep
<1>4. CASE ~settled
  <2>1. o.ref \in Inventories
    BY <1>2, <1>4 DEF SelectorObject
  <2>2. checked \in SelectorObject /\ BoundTo(s, checked)
    BY <2>1, <1>2, AdoptionStatusBound
  <2>3. failed \in SelectorObject /\ BoundTo(s, failed)
    BY <1>2 DEF SelectorObject, Status, BoundTo
  <2>4. \/ SelError(checked)
        \/ sw' = [sw EXCEPT !.pc = StepAfterAdoption(checked), !.obj = checked,
                            !.again = (checked.invReady = "Unknown")]
        \/ SelError(failed)
    BY <1>4 DEF UpdateAdoptionStatus, AdoptionSettled
  <2> HIDE DEF checked, failed
  <2>5. sw' \in SelWorker /\ sw'.key = s /\ BoundTo(s, sw'.obj) /\ SelPcInv(sw')
    <3>1. CASE SelError(checked) \/ SelError(failed)
      BY <3>1, <2>2, <2>3, <1>2, SelContinueTyped DEF SelPcInv
    <3>2. CASE sw' = [sw EXCEPT !.pc = StepAfterAdoption(checked),
                                !.obj = checked,
                                !.again = (checked.invReady = "Unknown")]
      BY <3>2, <2>2, <1>2, StepAfterAdoptionTyped DEF SelWorker, SelPcInv
    <3> QED
      BY <2>4, <3>1, <3>2
  <2>6. KeepsBinding(o, sw'.obj)
    BY <1>4 DEF KeepsBinding
  <2> QED
    BY <2>5, <2>6, <1>1, <1>2, SelWorkerTyped, FaultTyped, SelWorkerStep
<1> QED
  BY <1>3, <1>4

\* The bootstrap plan is only computed for a bound selector.
LEMMA ReadBootstrapStep == ASSUME IInv, ReadBootstrap PROVE IInv'
<1>1. sw.pc # "idle" /\ sw.pc = "plan" /\ noSelectorWritten
      /\ UNCHANGED <<sec, queue>> /\ (Fault \/ NoFault)
  BY DEF ReadBootstrap
<1>2. sw.obj.ref \in Inventories
  BY <1>1 DEF IInv, SelCopyInv, BoundTo
<1>3. \/ SelFinish(sw.obj, sw.again)
      \/ SelError(sw.obj)
      \/ SelContinue("planWrite", sw.obj)
  BY DEF ReadBootstrap
<1>4. sw' \in SelWorker /\ sw'.key = sw.key /\ sw'.obj = sw.obj
      /\ sw'.pc \in {"commit", "planWrite"}
  BY <1>1, <1>3, SelWorkerTyped, SelContinueTyped
<1>5. SelPcInv(sw') /\ KeepsBinding(sw.obj, sw'.obj)
  BY <1>2, <1>4 DEF SelPcInv, KeepsBinding
<1> QED
  BY <1>1, <1>4, <1>5, SelWorkerTyped, FaultTyped, SelWorkerStep

\* The Secret of the inventory gets the plan, the selector its checksum.
LEMMA UpdatePlanSecretWithBootstrapStep ==
  ASSUME IInv, UpdatePlanSecretWithBootstrap PROVE IInv'
<1> DEFINE o == [sw.obj EXCEPT !.boot = TRUE]
<1>1. sw.pc # "idle" /\ sw.pc = "planWrite" /\ noSelectorWritten
      /\ (Fault \/ NoFault)
  BY DEF UpdatePlanSecretWithBootstrap
<1>2. sw.obj.ref \in Inventories
  BY <1>1 DEF IInv, SelCopyInv
<1>3. SelContinue("addresses", o) \/ SelError(sw.obj)
  BY DEF UpdatePlanSecretWithBootstrap
<1>4. o \in SelectorObject /\ BoundTo(sw.key, o) /\ KeepsBinding(sw.obj, o)
      /\ KeepsBinding(sw.obj, sw.obj)
  BY <1>1, SelWorkerTyped DEF SelectorObject, BoundTo, KeepsBinding
<1>5. sw' \in SelWorker /\ sw'.key = sw.key /\ BoundTo(sw.key, sw'.obj)
      /\ KeepsBinding(sw.obj, sw'.obj) /\ SelPcInv(sw')
  <2> HIDE DEF o
  <2> QED
    BY <1>1, <1>3, <1>4, SelWorkerTyped, SelContinueTyped DEF SelPcInv
<1>6. sec' \in [Inventories -> PlanSecret]
  <2>1. sec[sw.obj.ref] \in PlanSecret /\ sw.key \in Owners
    BY <1>1, <1>2, SelWorkerTyped DEF Owners
  <2>2. BootstrapSecret(sw.key, sec[sw.obj.ref]) \in PlanSecret
    BY <2>1 DEF BootstrapSecret, PlanSecret, PlanTypes
  <2> QED
    BY <2>2, <1>1, <1>2, SelWorkerTyped DEF UpdatePlanSecretWithBootstrap
<1>7. queue' \subseteq Objects
  BY <1>1, <1>2, SelWorkerTyped DEF UpdatePlanSecretWithBootstrap, Objects
<1> QED
  BY <1>1, <1>5, <1>6, <1>7, SelWorkerTyped, FaultTyped, SelWorkerStep

\* Addresses and readiness do not touch the binding.
LEMMA SetInventorySelectorAddressesStep ==
  ASSUME IInv, SetInventorySelectorAddresses PROVE IInv'
<1> DEFINE o == WithAddresses(sw.obj)
<1>1. sw.pc # "idle" /\ noSelectorWritten /\ UNCHANGED <<sec, queue>>
      /\ (Fault \/ NoFault)
  BY DEF SetInventorySelectorAddresses
<1>2. SelFinish(o, sw.again) \/ SelError(sw.obj)
  BY DEF SetInventorySelectorAddresses
<1>3. o \in SelectorObject /\ BoundTo(sw.key, o) /\ KeepsBinding(sw.obj, o)
      /\ KeepsBinding(sw.obj, sw.obj)
  <2>1. sw.obj \in SelectorObject /\ BoundTo(sw.key, sw.obj)
    BY <1>1, SelWorkerTyped
  <2> DEFINE n == IF sw.obj.addresses < MaxAddresses THEN sw.obj.addresses + 1
                                                   ELSE sw.obj.addresses
  <2>2. n \in 0..MaxAddresses
    BY <2>1, BoundsAssumption DEF SelectorObject
  <2>3. o = [sw.obj EXCEPT !.ready = TRUE, !.addresses = n]
    BY <2>1 DEF WithAddresses, SelectorObject
  <2> HIDE DEF n, o
  <2> QED
    BY <2>1, <2>2, <2>3 DEF SelectorObject, BoundTo, KeepsBinding
<1>4. sw' \in SelWorker /\ sw'.key = sw.key /\ BoundTo(sw.key, sw'.obj)
      /\ KeepsBinding(sw.obj, sw'.obj) /\ SelPcInv(sw')
  <2> HIDE DEF o
  <2> QED
    BY <1>1, <1>2, <1>3, SelWorkerTyped, SelContinueTyped DEF SelPcInv
<1> QED
  BY <1>1, <1>4, SelWorkerTyped, FaultTyped, SelWorkerStep

\* A reconcile begins with what the cache holds, outdated when it is stale.
LEMMA SelReconcileStep ==
  ASSUME IInv, NEW s \in Selectors, SelReconcile(s) PROVE IInv'
<1> DEFINE o == selCache[s]
<1>1. /\ UNCHANGED <<inv, invCache, sel, selCache, stale, note, late, sec, ipam,
                     dataReady, iw, faults, adopter>>
      /\ queue' = queue \ {s}
  BY DEF SelReconcile, selOthersUnchanged
<1>2. o \in SelectorObject /\ BoundTo(s, o)
  BY DEF IInv, TypeOK, ClusterTypeOK, BoundInv
<1>3. (HistoryInv /\ ServerInv /\ CacheInv /\ BoundInv)'
  BY <1>1 DEF IInv, HistoryInv, ServerInv, CacheInv, BoundInv, Recorded, BoundTo
<1>4. CASE o.phase # "gone"
  <2>1. PICK pc \in {"commit", "adopt", "check"} :
          /\ sw' = [pc |-> pc, key |-> s, obj |-> o, again |-> FALSE]
          /\ pc = "adopt" => o.ref = None
    BY <1>4 DEF SelReconcile
  <2>2. outdated' = outdated \cup ({s} \cap stale)
    BY <1>4 DEF SelReconcile
  <2>3. TypeOK'
    BY <1>1, <1>2, <2>1, <2>2
    DEF IInv, TypeOK, ClusterTypeOK, Objects, SelWorker, Owners
  <2>4. InvCopyInv'
    <3>1. iw.pc # "idle" /\ iw.key \notin outdated' => iw.key \notin outdated
      BY <2>2
    <3> QED
      BY <3>1, <1>1, InvCopyStays DEF IInv
  <2>5. SelCopyInv'
    <3>1. s \notin outdated' => o = sel[s]
      BY <2>2 DEF IInv, CacheInv
    <3> QED
      BY <3>1, <2>1, <1>1, <1>2 DEF SelCopyInv, BoundTo
  <2> QED
    BY <1>3, <2>3, <2>4, <2>5 DEF IInv
<1>5. CASE o.phase = "gone"
  <2>1. UNCHANGED <<sw, outdated>>
    BY <1>5 DEF SelReconcile
  <2> QED
    BY <1>1, <1>3, <2>1
    DEF IInv, TypeOK, ClusterTypeOK, InvCopyInv, SameAdoption, SelCopyInv,
        BoundTo
<1> QED
  BY <1>4, <1>5

\* The patched inventory was free in the cache and on the server.
LEMMA FindAndAdoptInventoryStep ==
  ASSUME IInv, FindAndAdoptInventory PROVE IInv'
<1> DEFINE s == sw.key
<1>1. sw.pc # "idle" /\ sw.pc = "adopt" /\ (Fault \/ NoFault)
      /\ selOthersUnchanged /\ UNCHANGED <<sel, late, sec, queue>>
  BY DEF FindAndAdoptInventory
<1>2. sw.obj.ref = None /\ sw.obj.invReady # "True"
  BY <1>1, SelWorkerTyped, NamesAssumption
  DEF IInv, SelCopyInv, BoundTo, Objects
<1>3. CASE UNCHANGED <<inv, stale, outdated, note>>
           /\ (SelContinue("check", sw.obj) \/ SelError(sw.obj))
  <2>1. noSelectorWritten
    BY <1>1, <1>3 DEF noSelectorWritten
  <2>2. sw' \in SelWorker /\ sw'.key = s /\ sw'.obj = sw.obj
        /\ sw'.pc \in {"check", "commit"}
    BY <1>1, <1>3, SelWorkerTyped, SelContinueTyped
  <2>3. SelPcInv(sw') /\ KeepsBinding(sw.obj, sw'.obj)
    BY <2>2 DEF SelPcInv, KeepsBinding
  <2> QED
    BY <1>1, <2>1, <2>2, <2>3, SelWorkerTyped, FaultTyped, SelWorkerStep
<1>4. ASSUME NEW i \in Adoptable(s), i \notin stale,
             inv' = [inv EXCEPT ![i] = [inv[i] EXCEPT !.owner = s]],
             Written(i, UpdateKeys(i, inv[i], [inv[i] EXCEPT !.owner = s]), Held),
             SelContinue("check", Adopting(sw.obj, i))
      PROVE  IInv'
  <2> DEFINE o == [inv[i] EXCEPT !.owner = s]
  <2>1. i \in Inventories /\ i \in Objects /\ inv[i] = invCache[i]
        /\ inv[i] \in InventoryObject
        /\ inv[i].exists /\ inv[i].owner = None /\ Recorded(i, inv[i])
    BY <1>4 DEF Adoptable, isAlreadyOwned, IInv, TypeOK, ClusterTypeOK, CacheInv,
                ServerInv, Objects
  <2>2. o \in InventoryObject /\ o.uid = inv[i].uid /\ o.uid # 0
        /\ o.adopted = inv[i].adopted /\ o.adopted # "True"
    BY <2>1, <1>1, SelWorkerTyped DEF InventoryObject, Owners, Recorded
  <2>3. AdoptionEvolves(i, o)
    BY <2>2, <1>1 DEF AdoptionEvolves, selOthersUnchanged
  <2>4. /\ stale' = stale \cup {i}
        /\ outdated' = (outdated \cup {i}) \cap {iw.key, sw.key}
        /\ note' = [note EXCEPT ![i] = @ \cup UpdateKeys(i, inv[i], o)]
        /\ UNCHANGED <<invCache, sel, selCache, late, sec, queue, ipam,
                       dataReady, iw>>
    BY <1>1, <1>4 DEF Written, Held, selOthersUnchanged
  <2>5. /\ HistoryKept
        /\ (HistoryInv /\ ServerInv /\ CacheInv /\ BoundInv)'
        /\ adopter' \in [Inventories -> [1..MaxUid -> Owners]]
    BY <2>1, <2>2, <2>3, <2>4, <1>4, InventoryWrite
  <2>6. UpdateKeys(i, inv[i], o) \in SUBSET Objects
    BY <2>1, <2>2, KeysTyped
  <2>7. sw' \in SelWorker /\ sw'.key = s /\ sw'.pc = "check"
        /\ sw'.obj.invReady = "Unknown"
    <3>1. Adopting(sw.obj, i) \in SelectorObject
          /\ Adopting(sw.obj, i).invReady = "Unknown"
      BY <2>1, <1>1, SelWorkerTyped DEF Adopting, SelectorObject, Status
    <3> QED
      BY <3>1, <1>1, <1>4, SelWorkerTyped, SelContinueTyped
  <2>8. TypeOK'
    BY <1>1, <1>4, <2>1, <2>2, <2>4, <2>5, <2>6, <2>7, SelWorkerTyped, FaultTyped
    DEF IInv, TypeOK, ClusterTypeOK
  <2>9. InvCopyInv'
    <3>1. iw.pc # "idle" /\ iw.key \notin outdated' =>
            iw.key \notin outdated /\ inv'[iw.key] = inv[iw.key]
      BY <2>1, <2>4, <1>4, InvWorkerTyped DEF IInv, TypeOK, ClusterTypeOK
    <3> QED
      BY <3>1, <2>4, InvCopyStays DEF IInv
  <2>10. SelCopyInv'
    <3>1. s \notin outdated' => s \notin outdated
      BY <2>4
    <3>2. s \notin outdated' => sel[s].invReady # "True"
      BY <3>1, <1>1, <1>2 DEF IInv, SelCopyInv
    <3> QED
      BY <3>2, <2>4, <2>7, <1>1, SelWorkerTyped DEF SelCopyInv, BoundTo
  <2> QED
    BY <2>5, <2>8, <2>9, <2>10 DEF IInv
<1> QED
  BY <1>3, <1>4 DEF FindAndAdoptInventory, Latest

\* The worker is idle again, its key perhaps back in the queue.
LEMMA SelDoneTyped ==
  ASSUME IInv, sw.pc # "idle", NEW again, SelDone(again)
  PROVE  sw' \in SelWorker /\ sw'.pc = "idle" /\ queue' \subseteq Objects
<1>1. NewSelector \in SelectorObject
  BY BoundsAssumption DEF NewSelector, SelectorObject, Status
<1> QED
  BY <1>1, SelWorkerTyped DEF SelDone, IdleSelWorker, SelWorker, Owners

\* The status patch of a selector is refused or lost.
LEMMA SelConflictStep == ASSUME IInv, SelConflict PROVE IInv'
<1>1. /\ sw.pc # "idle" /\ SelDone(TRUE) /\ (Fault \/ NoFault)
      /\ outdated' = outdated \ {sw.key}
      /\ UNCHANGED <<inv, invCache, sel, selCache, stale, note, late, sec, ipam,
                     dataReady, iw, adopter>>
  BY DEF SelConflict, selOthersUnchanged
<1>2. sw' \in SelWorker /\ sw'.pc = "idle" /\ queue' \subseteq Objects
  BY <1>1, SelDoneTyped
<1>3. TypeOK'
  BY <1>1, <1>2, FaultTyped DEF IInv, TypeOK, ClusterTypeOK
<1>4. (HistoryInv /\ ServerInv /\ CacheInv /\ BoundInv)'
  BY <1>1 DEF IInv, HistoryInv, ServerInv, CacheInv, BoundInv, Recorded, BoundTo
<1>5. InvCopyInv'
  <2>1. iw.pc # "idle" => iw.key # sw.key
    BY <1>1, InvWorkerTyped, SelWorkerTyped, NamesAssumption
  <2> QED
    BY <2>1, <1>1, InvCopyStays DEF IInv
<1>6. SelCopyInv'
  BY <1>2 DEF SelCopyInv
<1> QED
  BY <1>3, <1>4, <1>5, <1>6 DEF IInv

\* The status patch of a selector is stored: what it says history says too.
LEMMA SelPatchStatusStep == ASSUME IInv, SelPatchStatus PROVE IInv'
<1> DEFINE s == sw.key
           o == sw.obj
<1>1. /\ sw.pc # "idle" /\ SelDone(sw.again) /\ s \notin outdated
      /\ UNCHANGED <<inv, invCache, selCache, sec, ipam, dataReady, iw, faults,
                     adopter>>
  BY DEF SelPatchStatus, selOthersUnchanged
<1>2. s \in Selectors /\ s \in Objects /\ o \in SelectorObject /\ BoundTo(s, o)
  BY <1>1, SelWorkerTyped
<1>3. sw' \in SelWorker /\ sw'.pc = "idle" /\ queue' \subseteq Objects
  BY <1>1, SelDoneTyped
<1>4. \/ /\ sel' = [sel EXCEPT ![s] = o]
         /\ stale' = stale \cup {s}
         /\ outdated' = (outdated \cup {s}) \cap {iw.key}
         /\ note' = [note EXCEPT ![s] = @ \cup {}]
         /\ late' \in {late, late \ {s}}
      \/ /\ UNCHANGED <<sel, stale, note, late>>
         /\ outdated' = outdated \ {s}
  BY DEF SelPatchStatus, Written
<1>5. TypeOK'
  BY <1>1, <1>2, <1>3, <1>4 DEF IInv, TypeOK, ClusterTypeOK
<1>6. (HistoryInv /\ ServerInv)'
  BY <1>1 DEF IInv, HistoryInv, ServerInv, Recorded
<1>7. CacheInv'
  BY <1>1, <1>2, <1>4, NamesAssumption
  DEF IInv, TypeOK, ClusterTypeOK, CacheInv, Recorded
<1>8. BoundInv'
  BY <1>1, <1>2, <1>4 DEF IInv, TypeOK, ClusterTypeOK, BoundInv, BoundTo
<1>9. InvCopyInv'
  <2>1. iw.pc # "idle" => iw.key # s
    BY <1>1, InvWorkerTyped, SelWorkerTyped, NamesAssumption
  <2> QED
    BY <2>1, <1>1, <1>4, InvCopyStays DEF IInv
<1>10. SelCopyInv'
  BY <1>3 DEF SelCopyInv
<1> QED
  BY <1>5, <1>6, <1>7, <1>8, <1>9, <1>10 DEF IInv

----------------------------------------------------------------------------
(***************************************************************************)
(* The environment.                                                        *)
(***************************************************************************)
\* Somebody else writes an inventory: the copies the workers hold of it are
\* outdated from then on.
LEMMA StoreInventoryStep ==
  ASSUME IInv, NEW i \in Inventories, NEW o \in InventoryObject,
         NEW keys \in SUBSET Objects,
         o.exists => o.uid # 0,
         o.adopted = "True" => o.uid # 0,
         AdoptionEvolves(i, o),
         StoreInventory(i, o, keys),
         late' \in SUBSET Objects, faults' \in 0..MaxFaults
  PROVE  IInv'
<1>1. /\ inv' = [inv EXCEPT ![i] = o]
      /\ stale' = stale \cup {i}
      /\ outdated' = (outdated \cup {i}) \cap {iw.key, sw.key}
      /\ note' = [note EXCEPT ![i] = @ \cup keys]
      /\ UNCHANGED <<invCache, sel, selCache, queue, sec, ipam, dataReady, iw,
                     sw, adopter>>
  BY DEF StoreInventory, Written, Held
<1>2. /\ HistoryKept
      /\ (HistoryInv /\ ServerInv /\ CacheInv /\ BoundInv)'
  BY <1>1, InventoryWrite
<1>3. TypeOK'
  BY <1>1 DEF IInv, TypeOK, ClusterTypeOK, Objects
<1>4. InvCopyInv'
  <2>1. iw.pc # "idle" /\ iw.key \notin outdated' =>
          iw.key \notin outdated /\ inv'[iw.key] = inv[iw.key]
    BY <1>1, InvWorkerTyped DEF IInv, TypeOK, ClusterTypeOK
  <2> QED
    BY <2>1, <1>1, InvCopyStays DEF IInv
<1>5. SelCopyInv'
  <2>1. sw.pc # "idle" /\ sw.key \notin outdated' => sw.key \notin outdated
    BY <1>1
  <2> QED
    BY <2>1, <1>1, <1>2, SelCopyStays
<1> QED
  BY <1>2, <1>3, <1>4, <1>5 DEF IInv

\* A machine registers: the next incarnation is nobody's.
LEMMA CreateMachineInventoryStep ==
  ASSUME IInv, NEW i \in Inventories, createMachineInventory(i) PROVE IInv'
<1> DEFINE o == [NoInventory EXCEPT !.exists = TRUE, !.uid = inv[i].uid + 1]
<1>1. StoreInventory(i, o, ObjectKeys(i, o)) /\ UNCHANGED <<late, faults>>
      /\ inv[i].uid < MaxUid
  BY DEF createMachineInventory
<1>2. inv[i].uid + 1 \in 0..MaxUid /\ inv[i].uid + 1 # 0
  BY <1>1, BoundsAssumption DEF IInv, TypeOK, ClusterTypeOK, InventoryObject
<1>3. o \in InventoryObject /\ o.uid = inv[i].uid + 1 /\ o.adopted = "none"
      /\ o.uid # 0
  BY <1>2 DEF NoInventory, InventoryObject, Owners, PlanStates, Status
<1> HIDE DEF o
<1>4. AdoptionEvolves(i, o)
  BY <1>1, <1>3 DEF AdoptionEvolves, StoreInventory
<1>5. ObjectKeys(i, o) \in SUBSET Objects
  BY <1>3, KeysTyped
<1>6. late' \in SUBSET Objects /\ faults' \in 0..MaxFaults
  BY <1>1 DEF IInv, TypeOK, ClusterTypeOK
<1> QED
  BY <1>1, <1>3, <1>4, <1>5, <1>6, StoreInventoryStep

\* A machine registers again: labels and annotations only.
LEMMA UpdateMachineInventoryStep ==
  ASSUME IInv, NEW i \in Inventories, updateMachineInventory(i) PROVE IInv'
<1>1. StoreInventory(i, inv[i], ObjectKeys(i, inv[i])) /\ UNCHANGED late
      /\ Fault
  BY DEF updateMachineInventory
<1>2. inv[i] \in InventoryObject /\ Recorded(i, inv[i])
  BY DEF IInv, TypeOK, ClusterTypeOK, ServerInv
<1>3. AdoptionEvolves(i, inv[i])
  BY <1>1 DEF AdoptionEvolves, StoreInventory
<1>4. ObjectKeys(i, inv[i]) \in SUBSET Objects
  BY <1>2, KeysTyped
<1>5. late' \in SUBSET Objects /\ faults' \in 0..MaxFaults
  BY <1>1, FaultTyped DEF IInv, TypeOK, ClusterTypeOK
<1> QED
  BY <1>1, <1>2, <1>3, <1>4, <1>5, StoreInventoryStep DEF Recorded

\* Deletion does not change hands, and the record keeps uid and adoption.
LEMMA DeleteStep ==
  ASSUME IInv, NEW i \in Inventories, Delete(i) PROVE IInv'
<1> DEFINE v == inv[i]
           o == IF v.finalizer THEN [v EXCEPT !.deleting = TRUE] ELSE Gone(v)
<1>1. StoreInventory(i, o, ObjectKeys(i, v)) /\ late' \in {late, late \ {i}}
      /\ UNCHANGED faults /\ v.exists
  BY DEF Delete
<1>2. v \in InventoryObject /\ Recorded(i, v) /\ v.uid # 0
  BY <1>1 DEF IInv, TypeOK, ClusterTypeOK, ServerInv, Recorded
<1>3. o \in InventoryObject /\ o.uid = v.uid /\ o.adopted = v.adopted
      /\ o.owner = v.owner
  <2>1. [v EXCEPT !.deleting = TRUE] \in InventoryObject
    BY <1>2 DEF InventoryObject
  <2>2. Gone(v) \in InventoryObject
    BY <1>2 DEF Gone, NoInventory, InventoryObject, PlanStates, Status
  <2>3. /\ [v EXCEPT !.deleting = TRUE].uid = v.uid
        /\ [v EXCEPT !.deleting = TRUE].adopted = v.adopted
        /\ [v EXCEPT !.deleting = TRUE].owner = v.owner
        /\ Gone(v).uid = v.uid
        /\ Gone(v).adopted = v.adopted
        /\ Gone(v).owner = v.owner
    BY <1>2 DEF Gone, NoInventory, InventoryObject
  <2> QED
    BY <2>1, <2>2, <2>3
<1> HIDE DEF o
<1>4. AdoptionEvolves(i, o)
  BY <1>1, <1>3 DEF AdoptionEvolves, StoreInventory
<1>5. ObjectKeys(i, v) \in SUBSET Objects
  BY <1>2, KeysTyped
<1>6. late' \in SUBSET Objects /\ faults' \in 0..MaxFaults
  BY <1>1 DEF IInv, TypeOK, ClusterTypeOK
<1> QED
  BY <1>1, <1>2, <1>3, <1>4, <1>5, <1>6, StoreInventoryStep

\* A step that touches no inventory and no selector.
LEMMA QuietStep ==
  ASSUME IInv,
         UNCHANGED <<inv, invCache, sel, selCache, stale, outdated, note, iw, sw,
                     adopter>>,
         sec' \in [Inventories -> PlanSecret],
         ipam' \in [Inventories -> Claim],
         queue' \subseteq Objects, late' \subseteq Objects,
         dataReady' \subseteq Selectors, faults' \in 0..MaxFaults
  PROVE  IInv'
<1>1. TypeOK'
  BY DEF IInv, TypeOK, ClusterTypeOK
<1>2. (HistoryInv /\ ServerInv /\ CacheInv /\ BoundInv)'
  BY DEF IInv, HistoryInv, ServerInv, CacheInv, BoundInv, Recorded, BoundTo
<1>3. (InvCopyInv /\ SelCopyInv)'
  BY DEF IInv, InvCopyInv, SameAdoption, SelCopyInv, BoundTo
<1> QED
  BY <1>1, <1>2, <1>3 DEF IInv

\* The garbage collector, the IPAM provider and the agent touch neither.
LEMMA InventoryQuietStep ==
  ASSUME IInv, NEW i \in Inventories,
         \/ CollectSecret(i) \/ CollectClaim(i) \/ ServeClaim(i)
         \/ AgentApplies(i) \/ AgentFails(i)
  PROVE  IInv'
<1> USE DEF IInv, TypeOK, ClusterTypeOK
<1>1. i \in Objects /\ sec[i] \in PlanSecret /\ ipam[i] \in Claim
  BY DEF Objects
<1>2. CASE CollectSecret(i)
  <2>1. NoSecret \in PlanSecret
    BY BoundsAssumption DEF NoSecret, PlanSecret, PlanTypes, Owners, Answers
  <2> QED
    BY <2>1, <1>1, <1>2, QuietStep DEF CollectSecret
<1>3. CASE CollectClaim(i)
  <2>1. NoClaim \in Claim /\ [ipam[i] EXCEPT !.stage = "deleting"] \in Claim
    BY <1>1, BoundsAssumption DEF NoClaim, Claim
  <2> QED
    BY <2>1, <1>1, <1>3, QuietStep DEF CollectClaim
<1>4. CASE ServeClaim(i)
  <2>1. \A st \in {"visible", "assigned"} : [ipam[i] EXCEPT !.stage = st] \in Claim
    BY <1>1 DEF Claim
  <2>2. ipam' \in [Inventories -> Claim]
    <3>1. \E st \in {"visible", "assigned"} :
            ipam' = [ipam EXCEPT ![i] = [ipam[i] EXCEPT !.stage = st]]
      BY <1>4 DEF ServeClaim
    <3> QED
      BY <3>1, <2>1
  <2> QED
    BY <2>2, <1>4, QuietStep DEF ServeClaim
<1>5. CASE AgentApplies(i) \/ AgentFails(i)
  <2>1. PICK answer \in {"applied", "failed"} :
          AgentAnswers(i, answer) /\ (Fault \/ NoFault)
    BY <1>5 DEF AgentApplies, AgentFails
  <2>2. [sec[i] EXCEPT !.answer = answer, !.answered = sec[i].plan] \in PlanSecret
    BY <1>1 DEF PlanSecret, Answers
  <2>3. sec' \in [Inventories -> PlanSecret]
    <3>1. sec' = [sec EXCEPT ![i] = [sec[i] EXCEPT !.answer = answer,
                                                   !.answered = sec[i].plan]]
      BY <2>1 DEF AgentAnswers
    <3> QED
      BY <3>1, <2>2
  <2> QED
    BY <2>1, <2>3, <1>1, FaultTyped, QuietStep DEF AgentAnswers
<1> QED
  BY <1>2, <1>3, <1>4, <1>5

\* The CAPI bootstrap provider touches neither.
LEMMA ProvideBootstrapStep ==
  ASSUME IInv, NEW s \in Selectors, ProvideBootstrap(s) PROVE IInv'
BY QuietStep DEF ProvideBootstrap, IInv, TypeOK, ClusterTypeOK

\* Nor does the clock.
LEMMA DeadlinePassesStep ==
  ASSUME IInv, NEW x \in Objects, DeadlinePasses(x) PROVE IInv'
BY QuietStep DEF DeadlinePasses, IInv, TypeOK, ClusterTypeOK

\* The cache of one object catches up with the server.
LEMMA SyncStep == ASSUME IInv, NEW x \in Objects, Sync(x) PROVE IInv'
<1>1. /\ stale' = stale \ {x}
      /\ queue' = queue \cup note[x]
      /\ note' = [note EXCEPT ![x] = {}]
      /\ UNCHANGED <<inv, sel, outdated, late, sec, ipam, dataReady, iw, sw,
                     faults, adopter>>
      /\ \/ /\ x \in Inventories /\ UNCHANGED selCache
            /\ invCache' = [invCache EXCEPT ![x] = inv[x]]
         \/ /\ x \in Selectors /\ UNCHANGED invCache
            /\ selCache' = [selCache EXCEPT ![x] = sel[x]]
  BY DEF Sync, Objects
<1>2. TypeOK'
  BY <1>1 DEF IInv, TypeOK, ClusterTypeOK
<1>3. (HistoryInv /\ ServerInv)'
  BY <1>1 DEF IInv, HistoryInv, ServerInv, Recorded
<1>4. CacheInv'
  BY <1>1, NamesAssumption
  DEF IInv, TypeOK, ClusterTypeOK, ServerInv, CacheInv, Recorded
<1>5. BoundInv'
  BY <1>1 DEF IInv, TypeOK, ClusterTypeOK, BoundInv, BoundTo
<1>6. (InvCopyInv /\ SelCopyInv)'
  BY <1>1 DEF IInv, InvCopyInv, SameAdoption, SelCopyInv, BoundTo
<1> QED
  BY <1>2, <1>3, <1>4, <1>5, <1>6 DEF IInv

\* Deleting or relabelling a selector leaves its status alone.
LEMMA SelectorEnvironmentStep ==
  ASSUME IInv, NEW s \in Selectors, DeleteSelector(s) \/ UpdateSelector(s)
  PROVE  IInv'
<1>1. /\ UNCHANGED <<inv, invCache, selCache, queue, late, sec, ipam, dataReady,
                     iw, sw, adopter>>
      /\ stale' = stale \cup {s}
      /\ outdated' = (outdated \cup {s}) \cap {iw.key, sw.key}
      /\ note' = [note EXCEPT ![s] = @ \cup {s}]
  BY DEF DeleteSelector, UpdateSelector, Written, Held
<1>2. sel' = sel \/ \E phase \in {"deleting", "gone"} :
                     sel' = [sel EXCEPT ![s] = [sel[s] EXCEPT !.phase = phase]]
  BY DEF DeleteSelector, UpdateSelector
<1>3. sel[s] \in SelectorObject /\ s \in Objects /\ s \notin Inventories
  BY NamesAssumption DEF IInv, TypeOK, ClusterTypeOK, Objects
<1>4. /\ sel' \in [Selectors -> SelectorObject]
      /\ \A t \in Selectors :
           /\ sel'[t].invReady = sel[t].invReady
           /\ sel'[t].ref = sel[t].ref
           /\ sel'[t].refUid = sel[t].refUid
           /\ t # s => sel'[t] = sel[t]
  <2>1. sel \in [Selectors -> SelectorObject]
    BY DEF IInv, TypeOK, ClusterTypeOK
  <2>2. \A phase \in {"deleting", "gone"} :
          LET o == [sel[s] EXCEPT !.phase = phase]
          IN  /\ o \in SelectorObject
              /\ o.invReady = sel[s].invReady
              /\ o.ref = sel[s].ref
              /\ o.refUid = sel[s].refUid
    BY <1>3 DEF SelectorObject
  <2>3. sel' = sel \/ \E o \in SelectorObject :
                         /\ sel' = [sel EXCEPT ![s] = o]
                         /\ o.invReady = sel[s].invReady
                         /\ o.ref = sel[s].ref
                         /\ o.refUid = sel[s].refUid
    BY <1>2, <2>2
  <2> QED
    BY <2>1, <2>3
<1>5. faults' \in 0..MaxFaults
  <2>1. Fault \/ UNCHANGED faults
    BY DEF DeleteSelector, UpdateSelector
  <2> QED
    BY <2>1, FaultTyped DEF NoFault, IInv, TypeOK, ClusterTypeOK
<1>6. TypeOK'
  BY <1>1, <1>3, <1>4, <1>5 DEF IInv, TypeOK, ClusterTypeOK
<1>7. (HistoryInv /\ ServerInv)'
  BY <1>1 DEF IInv, HistoryInv, ServerInv, Recorded
<1>8. CacheInv'
  BY <1>1, <1>3, <1>4 DEF IInv, CacheInv, Recorded
<1>9. BoundInv'
  BY <1>1, <1>4 DEF IInv, BoundInv, BoundTo
<1>10. InvCopyInv'
  <2>1. iw.pc # "idle" /\ iw.key \notin outdated' => iw.key \notin outdated
    BY <1>1
  <2> QED
    BY <2>1, <1>1, InvCopyStays DEF IInv
<1>11. SelCopyInv'
  <2>1. HistoryKept
    BY <1>1 DEF HistoryKept
  <2>2. sw.pc # "idle" /\ sw.key \notin outdated' =>
          sw.key \notin outdated /\ sel'[sw.key] = sel[sw.key]
    BY <1>1, <1>4, SelWorkerTyped
  <2> QED
    BY <2>1, <2>2, <1>1, SelCopyStays
<1> QED
  BY <1>6, <1>7, <1>8, <1>9, <1>10, <1>11 DEF IInv

\* A restart loses the copies and reads the caches anew.
LEMMA RestartStep == ASSUME IInv, Restart PROVE IInv'
<1>1. /\ iw' = IdleInvWorker /\ sw' = IdleSelWorker
      /\ invCache' = inv /\ selCache' = sel
      /\ stale' = {} /\ outdated' = {}
      /\ note' = [x \in Objects |-> {}]
      /\ queue' \subseteq Objects
      /\ Fault
      /\ UNCHANGED <<inv, sel, late, sec, ipam, dataReady, adopter>>
  BY DEF Restart, Objects
<1>2. NoInventory \in InventoryObject /\ NewSelector \in SelectorObject
  BY BoundsAssumption, NamesAssumption
  DEF NoInventory, InventoryObject, NewSelector, SelectorObject, Owners,
      PlanStates, Status
<1>3. IdleInvWorker \in InvWorker /\ IdleSelWorker \in SelWorker
  BY <1>2 DEF IdleInvWorker, InvWorker, IdleSelWorker, SelWorker, Owners,
              Answers
<1>4. TypeOK'
  BY <1>1, <1>3, FaultTyped DEF IInv, TypeOK, ClusterTypeOK
<1>5. (HistoryInv /\ ServerInv /\ CacheInv /\ BoundInv)'
  BY <1>1 DEF IInv, HistoryInv, ServerInv, CacheInv, BoundInv, Recorded, BoundTo
<1>6. (InvCopyInv /\ SelCopyInv)'
  BY <1>1 DEF InvCopyInv, SelCopyInv, IdleInvWorker, IdleSelWorker
<1> QED
  BY <1>4, <1>5, <1>6 DEF IInv

----------------------------------------------------------------------------
(***************************************************************************)
(* The theorems.                                                           *)
(***************************************************************************)
\* Every step, of whoever, keeps IInv.
LEMMA NextIInv == ASSUME IInv, [Next]_vars PROVE IInv'
<1>1. CASE InvStep
  BY <1>1, CreatePlanSecretStep, ReconcileNetworkConfigStep,
     ReadIPAddressStep, UpdateInventoryWithPlanStatusStep,
     UpdateInventoryWithAdoptionStatusStep, ReconcileResetPlanSecretStep,
     ResetStatusStep, UpdatePlanSecretWithResetStep, InvConflictStep,
     InvReleaseStep, InvPatchMetaStep, InvPatchStatusStep,
     InvPatchStatusAloneStep
  DEF InvStep
<1>2. CASE \E i \in Inventories : InvReconcile(i)
  BY <1>2, InvReconcileStep
<1>3. CASE SelStep
  BY <1>3, FindAndAdoptInventoryStep, UpdateAdoptionStatusStep,
     ReadBootstrapStep, UpdatePlanSecretWithBootstrapStep,
     SetInventorySelectorAddressesStep, SelConflictStep, SelPatchStatusStep
  DEF SelStep
<1>4. CASE \E s \in Selectors : SelReconcile(s)
  BY <1>4, SelReconcileStep
<1>5. ASSUME NEW i \in Inventories, InventoryEnvironment(i) PROVE IInv'
  <2>1. CASE createMachineInventory(i)
    BY <2>1, CreateMachineInventoryStep
  <2>2. CASE updateMachineInventory(i)
    BY <2>2, UpdateMachineInventoryStep
  <2>3. CASE DeleteInventory(i) \/ CollectInventory(i)
    BY <2>3, DeleteStep DEF DeleteInventory, CollectInventory
  <2>4. CASE \/ CollectSecret(i) \/ CollectClaim(i) \/ ServeClaim(i)
             \/ AgentApplies(i) \/ AgentFails(i)
    BY <2>4, InventoryQuietStep
  <2> QED
    BY <1>5, <2>1, <2>2, <2>3, <2>4 DEF InventoryEnvironment
<1>6. ASSUME NEW s \in Selectors, SelectorEnvironment(s) PROVE IInv'
  BY <1>6, SelectorEnvironmentStep, ProvideBootstrapStep DEF SelectorEnvironment
<1>7. ASSUME NEW x \in Objects, Sync(x) \/ DeadlinePasses(x) PROVE IInv'
  BY <1>7, SyncStep, DeadlinePassesStep
<1>8. CASE Restart
  BY <1>8, RestartStep
<1>9. CASE UNCHANGED vars
  BY <1>9, QuietStep DEF vars, IInv, TypeOK, ClusterTypeOK
<1> QED
  BY <1>1, <1>2, <1>3, <1>4, <1>5, <1>6, <1>7, <1>8, <1>9
  DEF Next, InvNext, SelNext

\* IInv holds in every state the manager can reach.
THEOREM InductiveInvariant == Spec => []IInv
<1>1. Init => IInv
  BY InitIInv
<1>2. IInv /\ [Next]_vars => IInv'
  BY NextIInv
<1> QED
  BY <1>1, <1>2, PTL DEF Spec

\* The variables of both controllers always have their types: no call reads
\* a status, a queue key or a Secret of another shape than the code expects.
THEOREM TypeCorrect == Spec => []TypeOK
<1>1. IInv => TypeOK
  BY DEF IInv
<1> QED
  BY <1>1, InductiveInvariant, PTL

\* No two selectors are ever told to bootstrap the same machine: history
\* names one adopter per incarnation, and a bound selector is that one.
THEOREM AdoptionIsExclusive == Spec => []ExclusiveAdoption
<1>1. IInv => ExclusiveAdoption
  <2> SUFFICES ASSUME IInv, NEW s \in Selectors, NEW t \in Selectors, s # t,
                      NEW m \in Bound(s) \cap Bound(t)
               PROVE  FALSE
    BY DEF ExclusiveAdoption
  <2>1. /\ sel[s].invReady = "True" /\ m = <<sel[s].ref, sel[s].refUid>>
        /\ sel[t].invReady = "True" /\ m = <<sel[t].ref, sel[t].refUid>>
    BY DEF Bound
  <2>2. /\ adopter[sel[s].ref][sel[s].refUid] = s
        /\ adopter[sel[t].ref][sel[t].refUid] = t
    BY <2>1 DEF IInv, BoundInv, BoundTo
  <2> QED
    BY <2>1, <2>2
<1> QED
  BY <1>1, InductiveInvariant, PTL

\* A selector is never told to bootstrap a machine that did not confirm it,
\* and the confirmation stands as long as the machine does.
THEOREM AdoptionIsConfirmed == Spec => []ConfirmedByInventory
<1>1. IInv => ConfirmedByInventory
  <2> SUFFICES ASSUME IInv, NEW s \in Selectors, sel[s].invReady = "True"
               PROVE  LET v == inv[sel[s].ref]
                      IN  \/ v.uid > sel[s].refUid
                          \/ v.uid = sel[s].refUid /\ v.owner = s
                             /\ v.adopted = "True"
    BY DEF ConfirmedByInventory
  <2> DEFINE i == sel[s].ref
             u == sel[s].refUid
  <2>1. i \in Inventories /\ u # 0 /\ adopter[i][u] = s
    BY DEF IInv, BoundInv, BoundTo
  <2>2. u \in 1..MaxUid /\ inv[i].uid \in Nat /\ s # None
    BY <2>1, BoundsAssumption, NamesAssumption
    DEF IInv, TypeOK, ClusterTypeOK, SelectorObject, InventoryObject, Objects
  <2>3. u < inv[i].uid \/ (u = inv[i].uid /\ inv[i].adopted = "True")
    BY <2>1, <2>2 DEF IInv, HistoryInv
  <2>4. inv[i].adopted = "True" => adopter[i][inv[i].uid] = inv[i].owner
    BY <2>1 DEF IInv, ServerInv, Recorded
  <2> QED
    BY <2>1, <2>2, <2>3, <2>4
<1> QED
  BY <1>1, InductiveInvariant, PTL

----------------------------------------------------------------------------
(***************************************************************************)
(* What a step does to ownership, adoption and binding.                    *)
(***************************************************************************)
BindingsKept == \A s \in Selectors : Bound(s)' = Bound(s)

OwnershipKept(i) ==
  /\ inv'[i].uid = inv[i].uid
  /\ inv'[i].owner = inv[i].owner
  /\ inv'[i].adopted = "True" <=> inv[i].adopted = "True"

OtherOwnershipsKept(i) == \A j \in Inventories : j # i => OwnershipKept(j)

\* Nothing the handshake is about changes.
NothingHappens ==
  /\ \A i \in Inventories : OwnershipKept(i)
  /\ adopter' = adopter
  /\ BindingsKept

\* A free inventory gets an owner.
Claimed(s, i) ==
  /\ inv[i].owner = None /\ inv[i].uid # 0
  /\ inv[i].adopted # "True" /\ inv'[i].adopted # "True"
  /\ inv'[i].uid = inv[i].uid
  /\ inv'[i].owner = s
  /\ OtherOwnershipsKept(i)
  /\ adopter' = adopter
  /\ BindingsKept

\* An inventory that is not adopted loses its owner.
Dropped(i) ==
  /\ inv[i].uid # 0
  /\ inv[i].adopted # "True" /\ inv'[i].adopted # "True"
  /\ inv'[i].uid = inv[i].uid
  /\ inv'[i].owner = None
  /\ OtherOwnershipsKept(i)
  /\ adopter' = adopter
  /\ BindingsKept

\* The next incarnation begins.
Registered(i) ==
  /\ inv'[i].adopted # "True"
  /\ inv'[i].uid = inv[i].uid + 1
  /\ inv'[i].owner = None
  /\ OtherOwnershipsKept(i)
  /\ adopter' = adopter
  /\ BindingsKept

\* An owned inventory becomes adopted.
Confirmed(i) ==
  /\ inv[i].owner # None /\ inv[i].uid # 0
  /\ inv[i].adopted # "True" /\ inv'[i].adopted = "True"
  /\ inv'[i].uid = inv[i].uid
  /\ inv'[i].owner = inv[i].owner
  /\ OtherOwnershipsKept(i)
  /\ adopter' = [adopter EXCEPT ![i][inv[i].uid] = inv[i].owner]
  /\ BindingsKept

\* A selector that was not bound is bound to a machine it adopted.
NewlyBound(s) ==
  /\ \A i \in Inventories : OwnershipKept(i)
  /\ adopter' = adopter
  /\ Bound(s) = {}
  /\ sel'[s].invReady = "True"
  /\ BoundTo(s, sel'[s])
  /\ sel'[s].refUid \in 0..MaxUid
  /\ \A t \in Selectors : t # s => Bound(t)' = Bound(t)

StepEffect ==
  \/ NothingHappens
  \/ \E i \in Inventories :
       \/ Dropped(i) \/ Registered(i) \/ Confirmed(i)
       \/ \E s \in Selectors : Claimed(s, i)
  \/ \E s \in Selectors : NewlyBound(s)

\* Most steps write neither kind of object.
LEMMA QuietEffect ==
  ASSUME UNCHANGED <<inv, sel, adopter>> PROVE StepEffect
BY DEF StepEffect, NothingHappens, OwnershipKept, BindingsKept, Bound

\* Selectors unchanged: bindings kept.
LEMMA BindingsStay == ASSUME UNCHANGED sel PROVE BindingsKept
BY DEF BindingsKept, Bound

\* Removing a finalizer changes no owner.
LEMMA InvReleaseEffect == ASSUME IInv, InvRelease PROVE StepEffect
<1> DEFINE v == inv[iw.key]
<1>1. iw.pc # "idle" /\ iw.key \notin outdated
      /\ inv' = [inv EXCEPT ![iw.key] = Gone(v)] /\ UNCHANGED sel
  BY DEF InvRelease, InvStore, invOthersUnchanged
<1>2. iw.key \in Inventories /\ v \in InventoryObject
  BY <1>1, InvWorkerTyped, CopyCurrent
<1>3. Gone(v).uid = v.uid /\ Gone(v).adopted = v.adopted
      /\ Gone(v).owner = v.owner
  BY <1>2 DEF Gone, NoInventory
<1>4. adopter' = adopter
  BY <1>3 DEF InvRelease, InvStore
<1>5. \A i \in Inventories : OwnershipKept(i)
  BY <1>1, <1>2, <1>3 DEF OwnershipKept, IInv, TypeOK, ClusterTypeOK
<1> QED
  BY <1>1, <1>4, <1>5, BindingsStay DEF StepEffect, NothingHappens

\* The first patch drops an unconfirmed owner, or changes no owner.
LEMMA InvPatchMetaEffect == ASSUME IInv, InvPatchMeta PROVE StepEffect
<1> DEFINE i == iw.key
           v == inv[i]
           o == WithMeta(v, iw.obj)
<1>1. iw.pc # "idle" /\ i \notin outdated
      /\ inv' = [inv EXCEPT ![i] = o] /\ UNCHANGED sel
  BY DEF InvPatchMeta, InvStore, invOthersUnchanged
<1>2. i \in Inventories /\ v \in InventoryObject /\ v.uid # 0
      /\ SameAdoption(v, iw.obj)
  BY <1>1, InvWorkerTyped, CopyCurrent
<1>3. o.uid = v.uid /\ o.adopted = v.adopted /\ o.owner = iw.obj.owner
  BY <1>2 DEF WithMeta, InventoryObject
<1>4. adopter' = adopter
  BY <1>3 DEF InvPatchMeta, InvStore
<1> HIDE DEF o
<1>5. inv'[i] = o /\ \A j \in Inventories : j # i => inv'[j] = inv[j]
  BY <1>1, <1>2 DEF IInv, TypeOK, ClusterTypeOK
<1>6. CASE o.owner = v.owner
  BY <1>1, <1>3, <1>4, <1>5, <1>6, BindingsStay
  DEF StepEffect, NothingHappens, OwnershipKept
<1>7. CASE o.owner # v.owner
  <2>1. o.owner = None /\ v.adopted # "True"
    BY <1>2, <1>3, <1>7 DEF SameAdoption
  <2>2. Dropped(i)
    BY <2>1, <1>1, <1>2, <1>3, <1>4, <1>5, BindingsStay
    DEF Dropped, OtherOwnershipsKept, OwnershipKept
  <2> QED
    BY <2>2, <1>2 DEF StepEffect
<1> QED
  BY <1>6, <1>7

\* The status patch confirms the owner, or changes no adoption.
LEMMA InvStatusEffect ==
  ASSUME IInv, iw.pc # "idle", iw.key \notin outdated, UNCHANGED sel,
         NEW keys, InvStore(iw.key, WithStatus(inv[iw.key], iw.obj), keys)
  PROVE  StepEffect
<1> DEFINE i == iw.key
           v == inv[i]
           o == WithStatus(v, iw.obj)
<1>1. inv' = [inv EXCEPT ![i] = o]
      /\ adopter' = IF o.adopted = "True" /\ v.adopted # "True"
                    THEN [adopter EXCEPT ![i][o.uid] = o.owner]
                    ELSE adopter
  BY DEF InvStore
<1>2. i \in Inventories /\ v \in InventoryObject /\ v.uid # 0
      /\ SameAdoption(v, iw.obj)
      /\ (iw.obj.adopted = "True" => iw.obj.owner # None)
  BY InvWorkerTyped, CopyCurrent
<1>3. o.uid = v.uid /\ o.adopted = iw.obj.adopted /\ o.owner = v.owner
  BY <1>2 DEF WithStatus, InventoryObject
<1> HIDE DEF o
<1>4. inv'[i] = o /\ \A j \in Inventories : j # i => inv'[j] = inv[j]
  BY <1>1, <1>2 DEF IInv, TypeOK, ClusterTypeOK
<1>5. CASE o.adopted = "True" /\ v.adopted # "True"
  <2>1. v.owner # None
    BY <1>2, <1>3, <1>5 DEF SameAdoption
  <2>2. Confirmed(i)
    BY <2>1, <1>1, <1>2, <1>3, <1>4, <1>5, BindingsStay
    DEF Confirmed, OtherOwnershipsKept, OwnershipKept
  <2> QED
    BY <2>2, <1>2 DEF StepEffect
<1>6. CASE ~(o.adopted = "True" /\ v.adopted # "True")
  <2>1. adopter' = adopter /\ (o.adopted = "True" <=> v.adopted = "True")
    BY <1>1, <1>2, <1>3, <1>6 DEF SameAdoption
  <2> QED
    BY <2>1, <1>3, <1>4, BindingsStay
    DEF StepEffect, NothingHappens, OwnershipKept
<1> QED
  BY <1>5, <1>6

\* The last patch of a reconcile, with or without the one before it.
LEMMA InvPatchStatusEffect ==
  ASSUME IInv, InvPatchStatus \/ InvPatchStatusAlone PROVE StepEffect
<1> DEFINE v == inv[iw.key]
           o == WithStatus(v, iw.obj)
<1>1. iw.pc # "idle" /\ iw.key \notin outdated /\ UNCHANGED sel
  BY DEF InvPatchStatus, InvPatchStatusAlone, invOthersUnchanged
<1>2. \/ InvStore(iw.key, o, UpdateKeys(iw.key, v, o))
      \/ InvNothingStored
  BY DEF InvPatchStatus, InvPatchStatusAlone
<1>3. CASE InvStore(iw.key, o, UpdateKeys(iw.key, v, o))
  BY <1>1, <1>3, InvStatusEffect
<1>4. CASE InvNothingStored
  BY <1>1, <1>4, QuietEffect DEF InvNothingStored
<1> QED
  BY <1>2, <1>3, <1>4

\* A selector takes an inventory that is free on the server too.
LEMMA FindAndAdoptInventoryEffect ==
  ASSUME IInv, FindAndAdoptInventory PROVE StepEffect
<1> DEFINE s == sw.key
<1>1. sw.pc # "idle" /\ UNCHANGED <<sel, adopter>>
  BY DEF FindAndAdoptInventory, selOthersUnchanged
<1>2. CASE UNCHANGED inv
  BY <1>1, <1>2, QuietEffect
<1>3. ASSUME NEW i \in Adoptable(s), i \notin stale,
             inv' = [inv EXCEPT ![i] = [inv[i] EXCEPT !.owner = s]]
      PROVE  StepEffect
  <2> DEFINE o == [inv[i] EXCEPT !.owner = s]
  <2>1. i \in Inventories /\ inv[i] \in InventoryObject
        /\ inv[i].owner = None /\ inv[i].uid # 0 /\ Recorded(i, inv[i])
    BY <1>3 DEF Adoptable, isAlreadyOwned, IInv, TypeOK, ClusterTypeOK,
                CacheInv, ServerInv, Recorded
  <2>2. o.owner = s /\ o.uid = inv[i].uid /\ o.adopted = inv[i].adopted
    BY <2>1 DEF InventoryObject
  <2>3. inv[i].adopted # "True"
    BY <2>1 DEF Recorded
  <2> HIDE DEF o
  <2>4. inv'[i] = o /\ \A j \in Inventories : j # i => inv'[j] = inv[j]
    BY <2>1, <1>3 DEF IInv, TypeOK, ClusterTypeOK, o
  <2>5. Claimed(s, i)
    BY <1>1, <2>1, <2>2, <2>3, <2>4, BindingsStay
    DEF Claimed, OtherOwnershipsKept, OwnershipKept
  <2> QED
    BY <1>1, <2>1, <2>5, SelWorkerTyped DEF StepEffect
<1>4. \/ UNCHANGED inv
      \/ \E i \in Adoptable(s) :
           i \notin stale /\ inv' = [inv EXCEPT ![i] = [inv[i] EXCEPT !.owner = s]]
  BY DEF FindAndAdoptInventory, Latest
<1> QED
  BY <1>2, <1>3, <1>4

\* The status patch of a selector binds it, or keeps what it was bound to.
LEMMA SelPatchStatusEffect == ASSUME IInv, SelPatchStatus PROVE StepEffect
<1> DEFINE o == sw.obj
<1>0. PICK s \in Selectors : s = sw.key
  BY SelWorkerTyped DEF SelPatchStatus
<1>1. /\ sw.pc # "idle" /\ s \notin outdated
      /\ UNCHANGED <<inv, adopter>>
      /\ sel' = [sel EXCEPT ![s] = o] \/ UNCHANGED sel
  BY <1>0 DEF SelPatchStatus, selOthersUnchanged
<1>2. CASE UNCHANGED sel
  BY <1>1, <1>2, QuietEffect
<1>3. CASE sel' = [sel EXCEPT ![s] = o]
  <2>1. s \in Selectors /\ o \in SelectorObject /\ BoundTo(s, o)
    BY <1>0, <1>1, SelWorkerTyped
  <2>2. sel'[s] = o /\ \A t \in Selectors : t # s => sel'[t] = sel[t]
    BY <1>3, <2>1 DEF IInv, TypeOK, ClusterTypeOK
  <2>3. \A t \in Selectors : t # s => Bound(t)' = Bound(t)
    BY <2>2 DEF Bound
  <2>4. \A i \in Inventories : OwnershipKept(i)
    BY <1>1 DEF OwnershipKept
  <2>5. CASE sel[s].invReady = "True"
    <3>1. o.invReady = "True" /\ o.ref = sel[s].ref /\ o.refUid = sel[s].refUid
      BY <1>0, <1>1, <2>5 DEF IInv, SelCopyInv
    <3>2. Bound(s)' = Bound(s)
      BY <3>1, <2>2, <2>5 DEF Bound
    <3> QED
      BY <3>2, <1>1, <2>3, <2>4 DEF StepEffect, NothingHappens, BindingsKept
  <2>6. CASE sel[s].invReady # "True" /\ o.invReady # "True"
    <3>1. Bound(s)' = Bound(s)
      BY <2>2, <2>6 DEF Bound
    <3> QED
      BY <3>1, <1>1, <2>3, <2>4 DEF StepEffect, NothingHappens, BindingsKept
  <2>7. CASE sel[s].invReady # "True" /\ o.invReady = "True"
    <3>1. Bound(s) = {} /\ sel'[s].invReady = "True" /\ BoundTo(s, sel'[s])
          /\ sel'[s].refUid \in 0..MaxUid
      BY <2>1, <2>2, <2>7 DEF Bound, SelectorObject
    <3>2. NewlyBound(s)
      BY <3>1, <1>1, <2>3, <2>4 DEF NewlyBound
    <3> QED
      BY <3>2, <2>1 DEF StepEffect
  <2> QED
    BY <2>5, <2>6, <2>7
<1> QED
  BY <1>1, <1>2, <1>3

\* Deleting a selector leaves the last status in its record.
LEMMA DeleteSelectorEffect ==
  ASSUME IInv, NEW s \in Selectors, DeleteSelector(s) PROVE StepEffect
<1>1. UNCHANGED <<inv, adopter>>
      /\ \E p \in {"deleting", "gone"} : sel' = [sel EXCEPT ![s].phase = p]
  BY DEF DeleteSelector
<1>2. \A t \in Selectors :
        /\ sel'[t].invReady = sel[t].invReady
        /\ sel'[t].ref = sel[t].ref
        /\ sel'[t].refUid = sel[t].refUid
  <2>1. PICK p \in {"deleting", "gone"} :
          sel' = [sel EXCEPT ![s] = [sel[s] EXCEPT !.phase = p]]
    BY <1>1
  <2>2. sel[s] \in SelectorObject
    BY DEF IInv, TypeOK, ClusterTypeOK
  <2> QED
    BY <2>1, <2>2 DEF IInv, TypeOK, ClusterTypeOK, SelectorObject
<1> QED
  BY <1>1, <1>2
  DEF StepEffect, NothingHappens, OwnershipKept, BindingsKept, Bound

\* The other writers of inventories: registration and deletion.
LEMMA StoreInventoryEffect ==
  ASSUME IInv, NEW i \in Inventories,
         \/ createMachineInventory(i)
         \/ updateMachineInventory(i)
         \/ Delete(i)
  PROVE  StepEffect
<1>1. inv[i] \in InventoryObject
  BY DEF IInv, TypeOK, ClusterTypeOK
<1>2. PICK o : inv' = [inv EXCEPT ![i] = o] /\ UNCHANGED <<sel, adopter>>
  BY DEF createMachineInventory, updateMachineInventory, Delete, StoreInventory
<1>3. inv'[i] = o /\ \A j \in Inventories : j # i => inv'[j] = inv[j]
  BY <1>2 DEF IInv, TypeOK, ClusterTypeOK
<1>4. CASE createMachineInventory(i)
  <2>1. inv'[i].uid = inv[i].uid + 1 /\ inv'[i].owner = None
        /\ inv'[i].adopted = "none"
    <3>1. inv' = [inv EXCEPT ![i] = [NoInventory EXCEPT
                                       !.exists = TRUE,
                                       !.uid = inv[i].uid + 1]]
      BY <1>4 DEF createMachineInventory, StoreInventory
    <3> QED
      BY <3>1 DEF NoInventory, IInv, TypeOK, ClusterTypeOK
  <2>2. Registered(i)
    BY <2>1, <1>2, <1>3, BindingsStay
    DEF Registered, OtherOwnershipsKept, OwnershipKept
  <2> QED
    BY <2>2 DEF StepEffect
<1>5. CASE updateMachineInventory(i) \/ Delete(i)
  <2>1. \/ inv' = [inv EXCEPT ![i] = inv[i]]
        \/ inv' = [inv EXCEPT ![i] = [inv[i] EXCEPT !.deleting = TRUE]]
        \/ inv' = [inv EXCEPT ![i] = Gone(inv[i])]
    BY <1>5 DEF updateMachineInventory, Delete, StoreInventory
  <2>2. \A p \in {inv[i], [inv[i] EXCEPT !.deleting = TRUE], Gone(inv[i])} :
          /\ p.uid = inv[i].uid
          /\ p.owner = inv[i].owner
          /\ p.adopted = inv[i].adopted
    BY <1>1 DEF Gone, NoInventory, InventoryObject
  <2>3. inv'[i] \in {inv[i], [inv[i] EXCEPT !.deleting = TRUE], Gone(inv[i])}
    BY <2>1 DEF IInv, TypeOK, ClusterTypeOK
  <2>4. \A j \in Inventories : OwnershipKept(j)
    BY <2>2, <2>3, <1>3 DEF OwnershipKept
  <2> QED
    BY <2>4, <1>2, BindingsStay DEF StepEffect, NothingHappens
<1> QED
  BY <1>4, <1>5

\* Every step has one of these effects.
LEMMA NextEffect == ASSUME IInv, [Next]_vars PROVE StepEffect
<1>1. CASE InvStep
  BY <1>1, InvReleaseEffect, InvPatchMetaEffect, InvPatchStatusEffect,
     QuietEffect
  DEF InvStep, CreatePlanSecret, ReconcileNetworkConfig, ReadIPAddressClaim,
      ReadIPAddress,
      UpdateInventoryWithPlanStatus, UpdateInventoryWithAdoptionStatus,
      ReconcileResetPlanSecret, ResetStatus, UpdatePlanSecretWithReset,
      InvConflict, InvNothingStored, noInventoryWritten, invOthersUnchanged
<1>2. CASE \E i \in Inventories : InvReconcile(i)
  BY <1>2, QuietEffect DEF InvReconcile, invOthersUnchanged
<1>3. CASE SelStep
  BY <1>3, FindAndAdoptInventoryEffect, SelPatchStatusEffect, QuietEffect
  DEF SelStep, UpdateAdoptionStatus, ReadBootstrap,
      UpdatePlanSecretWithBootstrap, SetInventorySelectorAddresses,
      SelConflict, noSelectorWritten, selOthersUnchanged
<1>4. CASE \E s \in Selectors : SelReconcile(s)
  BY <1>4, QuietEffect DEF SelReconcile, selOthersUnchanged
<1>5. ASSUME NEW i \in Inventories, InventoryEnvironment(i) PROVE StepEffect
  BY <1>5, StoreInventoryEffect, QuietEffect
  DEF InventoryEnvironment, DeleteInventory, CollectInventory, CollectSecret,
      CollectClaim, ServeClaim, AgentApplies, AgentFails, AgentAnswers
<1>6. ASSUME NEW s \in Selectors, SelectorEnvironment(s) PROVE StepEffect
  BY <1>6, DeleteSelectorEffect, QuietEffect
  DEF SelectorEnvironment, UpdateSelector, ProvideBootstrap
<1>7. ASSUME NEW x \in Objects, Sync(x) \/ DeadlinePasses(x) PROVE StepEffect
  BY <1>7, QuietEffect DEF Sync, DeadlinePasses
<1>8. CASE Restart \/ UNCHANGED vars
  BY <1>8, QuietEffect DEF Restart, vars
<1> QED
  BY <1>1, <1>2, <1>3, <1>4, <1>5, <1>6, <1>7, <1>8 DEF Next, InvNext, SelNext

\* An inventory that changes hands has been free in between, and was never
\* adopted before: a confirmed owner stays.
THEOREM OwnerIsKept == Spec => OwnerKept
<1> DEFINE A == \A i \in Inventories :
                  inv[i].exists /\ inv[i].owner # None
                  /\ inv'[i].uid = inv[i].uid =>
                    \/ inv'[i].owner = inv[i].owner
                    \/ inv'[i].owner = None /\ inv[i].adopted # "True"
<1>1. IInv /\ [Next]_vars => [A]_inv
  <2> SUFFICES ASSUME IInv, StepEffect, NEW i \in Inventories,
                      inv[i].owner # None, inv'[i].uid = inv[i].uid
               PROVE  \/ inv'[i].owner = inv[i].owner
                      \/ inv'[i].owner = None /\ inv[i].adopted # "True"
    BY NextEffect
  <2>1. CASE OwnershipKept(i)
    BY <2>1 DEF OwnershipKept
  <2>2. CASE Dropped(i)
    BY <2>2 DEF Dropped
  <2>3. CASE Registered(i)
    <3>1. inv[i].uid \in Nat
      BY BoundsAssumption DEF IInv, TypeOK, ClusterTypeOK, InventoryObject
    <3> QED
      BY <2>3, <3>1 DEF Registered
  <2>4. CASE Confirmed(i)
    BY <2>4 DEF Confirmed
  <2>5. CASE \E s \in Selectors : Claimed(s, i)
    BY <2>5 DEF Claimed
  <2> QED
    BY <2>1, <2>2, <2>3, <2>4, <2>5
    DEF StepEffect, NothingHappens, NewlyBound, Dropped, Registered, Confirmed,
        Claimed, OtherOwnershipsKept
<1> QED
  BY <1>1, InductiveInvariant, PTL DEF Spec, OwnerKept

----------------------------------------------------------------------------
(***************************************************************************)
(* The refinement: what each effect is in the handshake.                   *)
(***************************************************************************)
\* A machine whose inventory is not adopted is not confirmed.
LEMMA NotYetConfirmed ==
  ASSUME IInv, NEW i \in Inventories, inv[i].uid # 0, inv[i].adopted # "True"
  PROVE  /\ inv[i].uid \in 1..MaxUid
         /\ <<i, inv[i].uid>> \in Machines
         /\ adopter[i][inv[i].uid] = None
<1>1. inv[i].uid \in 1..MaxUid
  BY BoundsAssumption DEF IInv, TypeOK, ClusterTypeOK, InventoryObject
<1> QED
  BY <1>1 DEF IInv, HistoryInv, Machines

\* No machine changes its owner.
LEMMA OwnersStay ==
  ASSUME \A i \in Inventories : \A u \in 1..MaxUid :
           MachineOwner(i, u)' = MachineOwner(i, u)
  PROVE  MachineOwners' = MachineOwners
BY DEF MachineOwners, Machines

\* One machine changes its owner.
LEMMA OwnerChanges ==
  ASSUME NEW i \in Inventories, NEW u \in 1..MaxUid, NEW x,
         MachineOwner(i, u)' = x,
         \A j \in Inventories : \A w \in 1..MaxUid :
           <<j, w>> # <<i, u>> => MachineOwner(j, w)' = MachineOwner(j, w)
  PROVE  MachineOwners' = [MachineOwners EXCEPT ![<<i, u>>] = x]
<1> DEFINE after == [MachineOwners EXCEPT ![<<i, u>>] = x]
<1>1. <<i, u>> \in Machines /\ DOMAIN MachineOwners = Machines
      /\ MachineOwners = [m \in DOMAIN MachineOwners |-> MachineOwners[m]]
      /\ MachineOwners' = [m \in Machines |-> MachineOwner(m[1], m[2])']
  BY DEF MachineOwners, Machines
<1>2. after = [m \in Machines |-> IF m = <<i, u>> THEN x ELSE MachineOwners[m]]
  BY <1>1
<1>3. \A m \in Machines : MachineOwner(m[1], m[2])' =
        IF m = <<i, u>> THEN x ELSE MachineOwners[m]
  <2> SUFFICES ASSUME NEW j \in Inventories, NEW w \in 1..MaxUid
               PROVE  MachineOwner(j, w)' =
                        IF <<j, w>> = <<i, u>> THEN x ELSE MachineOwners[<<j, w>>]
    BY DEF Machines
  <2>1. MachineOwners[<<j, w>>] = MachineOwner(j, w)
    BY DEF MachineOwners, Machines
  <2> QED
    BY <2>1
<1> QED
  BY <1>1, <1>2, <1>3

\* As long as ownership and history are kept, so are the machine's owners.
LEMMA KeptOwners ==
  ASSUME NEW i \in Inventories, OwnershipKept(i), adopter' = adopter,
         NEW u \in 1..MaxUid
  PROVE  MachineOwner(i, u)' = MachineOwner(i, u)
BY DEF OwnershipKept, MachineOwner

\* Bindings kept, as the handshake sees them.
LEMMA KeptBindings == ASSUME BindingsKept PROVE Bindings' = Bindings
BY DEF BindingsKept, Bindings

\* An owner reference written is a claim.
LEMMA ClaimedIsClaim ==
  ASSUME IInv, NEW s \in Selectors, NEW i \in Inventories, Claimed(s, i)
  PROVE  Handshake!Next
<1>1. PICK u \in 1..MaxUid : u = inv[i].uid
  BY NotYetConfirmed DEF Claimed
<1>2. <<i, u>> \in Machines /\ MachineOwner(i, u) = None
      /\ MachineOwner(i, u)' = s
  BY <1>1 DEF Machines, Claimed, MachineOwner
<1>3. \A j \in Inventories : \A w \in 1..MaxUid :
        <<j, w>> # <<i, u>> => MachineOwner(j, w)' = MachineOwner(j, w)
  BY <1>1, KeptOwners DEF Claimed, OtherOwnershipsKept, MachineOwner
<1>4. MachineOwners' = [MachineOwners EXCEPT ![<<i, u>>] = s]
  BY <1>2, <1>3, OwnerChanges
<1>5. MachineOwners[<<i, u>>] = None
  BY <1>2 DEF MachineOwners
<1>6. ConfirmedMachines' = ConfirmedMachines /\ Bindings' = Bindings
  BY KeptBindings DEF Claimed, ConfirmedMachines
<1>7. Handshake!Claim(s, <<i, u>>)
  BY <1>4, <1>5, <1>6 DEF Handshake!Claim
<1> QED
  BY <1>2, <1>7 DEF Handshake!Next

\* An owner reference removed before the confirmation is a claim dropped.
LEMMA DroppedIsDrop ==
  ASSUME IInv, NEW i \in Inventories, Dropped(i) PROVE Handshake!Next
<1>1. PICK u \in 1..MaxUid : u = inv[i].uid
  BY NotYetConfirmed DEF Dropped
<1>2. <<i, u>> \in Machines /\ MachineOwner(i, u)' = None
      /\ adopter[i][u] = None
  BY <1>1, NotYetConfirmed DEF Dropped, MachineOwner
<1>3. \A j \in Inventories : \A w \in 1..MaxUid :
        <<j, w>> # <<i, u>> => MachineOwner(j, w)' = MachineOwner(j, w)
  BY <1>1, KeptOwners DEF Dropped, OtherOwnershipsKept, MachineOwner
<1>4. MachineOwners' = [MachineOwners EXCEPT ![<<i, u>>] = None]
  BY <1>2, <1>3, OwnerChanges
<1>5. <<i, u>> \notin ConfirmedMachines
  BY <1>2 DEF ConfirmedMachines
<1>6. ConfirmedMachines' = ConfirmedMachines /\ Bindings' = Bindings
  BY KeptBindings DEF Dropped, ConfirmedMachines
<1>7. Handshake!Drop(<<i, u>>)
  BY <1>4, <1>5, <1>6 DEF Handshake!Drop
<1> QED
  BY <1>2, <1>7 DEF Handshake!Next

\* A new incarnation drops the claim its predecessor had not confirmed.
LEMMA RegisteredIsDrop ==
  ASSUME IInv, NEW i \in Inventories, Registered(i)
  PROVE  [Handshake!Next]_(Handshake!handshakeVars)
<1>1. inv[i].uid \in 0..MaxUid /\ inv'[i].uid = inv[i].uid + 1
  BY DEF IInv, TypeOK, ClusterTypeOK, InventoryObject, Registered
<1>2. ConfirmedMachines' = ConfirmedMachines /\ Bindings' = Bindings
  BY KeptBindings DEF Registered, ConfirmedMachines
<1>3. \A w \in 1..MaxUid : w # inv[i].uid =>
        MachineOwner(i, w)' = MachineOwner(i, w)
  <2> SUFFICES ASSUME NEW w \in 1..MaxUid, w # inv[i].uid
               PROVE  MachineOwner(i, w)' = MachineOwner(i, w)
    OBVIOUS
  <2>1. w = inv[i].uid + 1 => adopter[i][w] = None
    BY <1>1 DEF IInv, HistoryInv
  <2> QED
    BY <2>1, <1>1 DEF Registered, MachineOwner
<1>4. \A j \in Inventories : \A w \in 1..MaxUid :
        j # i => MachineOwner(j, w)' = MachineOwner(j, w)
  BY KeptOwners DEF Registered, OtherOwnershipsKept
<1>5. CASE inv[i].uid = 0 \/ inv[i].adopted = "True"
  <2>1. inv[i].uid \in 1..MaxUid => inv[i].adopted = "True"
    BY <1>5, <1>1
  <2>2. \A w \in 1..MaxUid : MachineOwner(i, w)' = MachineOwner(i, w)
    <3> SUFFICES ASSUME NEW w \in 1..MaxUid, w = inv[i].uid
                 PROVE  MachineOwner(i, w)' = MachineOwner(i, w)
      BY <1>3
    <3> QED
      BY <2>1, <1>1 DEF Registered, MachineOwner
  <2>3. MachineOwners' = MachineOwners
    BY <1>4, <2>2, OwnersStay
  <2> QED
    BY <2>3, <1>2 DEF Handshake!handshakeVars
<1>6. CASE inv[i].uid # 0 /\ inv[i].adopted # "True"
  <2>1. PICK u \in 1..MaxUid : u = inv[i].uid
    BY <1>6, NotYetConfirmed
  <2>2. <<i, u>> \in Machines /\ adopter[i][u] = None
    BY <2>1, <1>6, NotYetConfirmed
  <2>3. MachineOwner(i, u)' = None
    BY <2>1, <2>2, <1>1 DEF Registered, MachineOwner
  <2>4. MachineOwners' = [MachineOwners EXCEPT ![<<i, u>>] = None]
    BY <2>1, <2>3, <1>3, <1>4, OwnerChanges
  <2>5. <<i, u>> \notin ConfirmedMachines
    BY <2>2 DEF ConfirmedMachines
  <2>6. Handshake!Drop(<<i, u>>)
    BY <2>4, <2>5, <1>2 DEF Handshake!Drop
  <2> QED
    BY <2>2, <2>6 DEF Handshake!Next
<1> QED
  BY <1>5, <1>6

\* AdoptionReady True, stored, confirms the claim of the owner it names.
LEMMA ConfirmedIsConfirm ==
  ASSUME IInv, NEW i \in Inventories, Confirmed(i) PROVE Handshake!Next
<1>1. PICK u \in 1..MaxUid : u = inv[i].uid
  BY NotYetConfirmed DEF Confirmed
<1>2. PICK s : s = inv[i].owner
  OBVIOUS
<1>3. <<i, u>> \in Machines /\ s # None
  BY <1>1, <1>2 DEF Confirmed, Machines
<1>4. /\ adopter'[i][u] = s
      /\ \A j \in Inventories : \A w \in 1..MaxUid :
           <<j, w>> # <<i, u>> => adopter'[j][w] = adopter[j][w]
  BY <1>1, <1>2 DEF Confirmed, IInv, TypeOK, ClusterTypeOK
<1>5. MachineOwners' = MachineOwners
  <2>1. \A w \in 1..MaxUid : MachineOwner(i, w)' = MachineOwner(i, w)
    BY <1>1, <1>2, <1>4 DEF Confirmed, MachineOwner
  <2>2. \A j \in Inventories : \A w \in 1..MaxUid :
          j # i => MachineOwner(j, w)' = MachineOwner(j, w)
    BY <1>4 DEF Confirmed, OtherOwnershipsKept, OwnershipKept, MachineOwner
  <2> QED
    BY <2>1, <2>2, OwnersStay
<1>6. MachineOwners[<<i, u>>] # None
  BY <1>1, <1>2, <1>3 DEF MachineOwners, MachineOwner, Confirmed
<1>7. ConfirmedMachines' = ConfirmedMachines \cup {<<i, u>>}
  BY <1>3, <1>4 DEF ConfirmedMachines, Machines
<1>8. Bindings' = Bindings
  BY KeptBindings DEF Confirmed
<1>9. Handshake!Confirm(<<i, u>>)
  BY <1>5, <1>6, <1>7, <1>8 DEF Handshake!Confirm
<1> QED
  BY <1>3, <1>9 DEF Handshake!Next

\* InventoryReady True, stored, binds a selector to a machine it adopted.
LEMMA NewlyBoundIsBind ==
  ASSUME IInv, NEW s \in Selectors, NewlyBound(s) PROVE Handshake!Next
<1>1. PICK i \in Inventories, u \in 1..MaxUid :
        i = sel'[s].ref /\ u = sel'[s].refUid /\ adopter[i][u] = s
  BY BoundsAssumption DEF NewlyBound, BoundTo
<1>2. <<i, u>> \in Machines /\ s # None
  BY <1>1, NamesAssumption DEF Machines, Objects
<1>3. <<i, u>> \in ConfirmedMachines
  BY <1>1, <1>2 DEF ConfirmedMachines
<1>4. MachineOwner(i, u) = s
  <2>1. u < inv[i].uid \/ (u = inv[i].uid /\ inv[i].adopted = "True")
    BY <1>1, <1>2 DEF IInv, HistoryInv
  <2>2. inv[i].uid \in Nat
    BY BoundsAssumption DEF IInv, TypeOK, ClusterTypeOK, InventoryObject
  <2> QED
    BY <2>1, <2>2, <1>1 DEF MachineOwner
<1>5. MachineOwners[<<i, u>>] = s
  BY <1>2, <1>4 DEF MachineOwners
<1>6. MachineOwners' = MachineOwners /\ ConfirmedMachines' = ConfirmedMachines
  <2>1. \A j \in Inventories : \A w \in 1..MaxUid :
          MachineOwner(j, w)' = MachineOwner(j, w)
    BY KeptOwners DEF NewlyBound
  <2> QED
    BY <2>1, OwnersStay DEF NewlyBound, ConfirmedMachines
<1>7. Bindings[s] = {}
  BY DEF Bindings, NewlyBound
<1>8. Bindings' = [Bindings EXCEPT ![s] = {<<i, u>>}]
  BY <1>1 DEF Bindings, NewlyBound, Bound
<1>9. Handshake!Bind(s, <<i, u>>)
  BY <1>3, <1>5, <1>6, <1>7, <1>8 DEF Handshake!Bind
<1> QED
  BY <1>2, <1>9 DEF Handshake!Next

\* Steps with no effect on adoption are stutters.
LEMMA NothingIsStutter ==
  ASSUME NothingHappens PROVE UNCHANGED Handshake!handshakeVars
<1>1. MachineOwners' = MachineOwners
  BY KeptOwners, OwnersStay DEF NothingHappens
<1>2. ConfirmedMachines' = ConfirmedMachines /\ Bindings' = Bindings
  BY KeptBindings DEF NothingHappens, ConfirmedMachines
<1> QED
  BY <1>1, <1>2 DEF Handshake!handshakeVars

\* The two controllers, with stale caches, conflicts, lost patches, crashes
\* and re-registrations, implement the handshake: claim, confirm, bind.
THEOREM HandshakeIsImplemented == Spec => ImplementsHandshake
<1>1. Init => Handshake!Init
  <2> SUFFICES ASSUME Init PROVE Handshake!Init
    OBVIOUS
  <2>1. MachineOwners = [m \in Machines |-> None]
    BY DEF Init, NoInventory, MachineOwners, MachineOwner, Machines
  <2>2. ConfirmedMachines = {}
    BY DEF Init, ConfirmedMachines, Machines
  <2>3. Bindings = [s \in Selectors |-> {}]
    BY DEF Init, NewSelector, Bindings, Bound
  <2> QED
    BY <2>1, <2>2, <2>3 DEF Handshake!Init
<1>2. IInv /\ [Next]_vars => [Handshake!Next]_(Handshake!handshakeVars)
  <2> SUFFICES ASSUME IInv, StepEffect
               PROVE  [Handshake!Next]_(Handshake!handshakeVars)
    BY NextEffect
  <2> QED
    BY NothingIsStutter, DroppedIsDrop, RegisteredIsDrop, ConfirmedIsConfirm,
       ClaimedIsClaim, NewlyBoundIsBind
    DEF StepEffect
<1> QED
  BY <1>1, <1>2, InductiveInvariant, PTL
  DEF Spec, ImplementsHandshake, Handshake!Spec

----------------------------------------------------------------------------
(***************************************************************************)
(* Mutual adoption.  An inventory confirms on the word of a cached         *)
(* selector, and a selector gives its reference up on the word of a cached *)
(* inventory, or because its own deadline passed.  But for the deadline    *)
(* neither is wrong: an inventory only goes to a selector whose cache      *)
(* shows that nobody has it, so no copy shows another owner than the last, *)
(* and no copy of a selector shows a reference to an inventory it owns     *)
(* that it has since given up.                                             *)
(***************************************************************************)
CacheOwners ==
  \A i \in Inventories :
    inv[i].owner # None => invCache[i].owner \in {None, inv[i].owner}

References ==
  \A i \in Inventories, s \in Selectors :
    inv[i].owner = s /\ selCache[s].ref = i => sel[s].ref = i

Mutual == \A i \in Inventories : inv[i].adopted = "True" => sel[inv[i].owner].ref = i

\* The copy of a selector keeps the reference to an inventory it owns.
SelKeepsReference ==
  sw.pc # "idle" =>
    /\ sw.pc = "adopt" => selCache[sw.key].ref \in {None, sel[sw.key].ref}
    /\ \A i \in Inventories :
         sw.key \notin outdated /\ sel[sw.key].ref = i /\ inv[i].owner = sw.key
           => sw.obj.ref = i

\* A confirmation about to be stored is mutual.
InvConfirms ==
  iw.pc # "idle" /\ iw.key \notin outdated /\ iw.obj.adopted = "True"
    => sel[inv[iw.key].owner].ref = iw.key

MutualInv == CacheOwners /\ References /\ Mutual /\ SelKeepsReference /\ InvConfirms

\* What every step finds.
LEMMA MutualFacts ==
  ASSUME IInv
  PROVE  /\ inv \in [Inventories -> InventoryObject]
         /\ sel \in [Selectors -> SelectorObject]
         /\ invCache \in [Inventories -> InventoryObject]
         /\ selCache \in [Selectors -> SelectorObject]
         /\ None \notin Selectors \cup Inventories /\ Inventories \cap Selectors = {}
         /\ \A i \in Inventories : inv[i].adopted = "True" => inv[i].owner \in Selectors
         /\ iw.pc # "idle" => /\ iw \in InvWorker /\ iw.key \in Inventories
                              /\ iw.key \notin outdated => SameAdoption(inv[iw.key], iw.obj)
         /\ sw.pc # "idle" => sw \in SelWorker /\ sw.key \in Selectors
BY InvWorkerTyped, SelWorkerTyped, NamesAssumption
   DEF IInv, TypeOK, ClusterTypeOK, ServerInv, Recorded, InvCopyInv, InventoryObject,
       Owners, Objects

\* A call of the inventory reconciler.
LEMMA InvCallMutual ==
  ASSUME IInv, MutualInv, noInventoryWritten, iw.pc # "idle", iw'.key = iw.key,
         iw'.obj.adopted = "True" /\ iw.key \notin outdated =>
           iw.obj.adopted = "True" \/ sel[inv[iw.key].owner].ref = iw.key
  PROVE  MutualInv'
BY DEF noInventoryWritten, invOthersUnchanged, MutualInv, CacheOwners, References, Mutual,
       SelKeepsReference, InvConfirms

LEMMA InvCallsMutual ==
  ASSUME IInv, MutualInv,
         \/ CreatePlanSecret \/ ReconcileNetworkConfig
         \/ ReadIPAddressClaim \/ ReadIPAddress
         \/ UpdateInventoryWithPlanStatus \/ ReconcileResetPlanSecret \/ ResetStatus
         \/ UpdatePlanSecretWithReset
  PROVE  MutualInv'
<1> DEFINE Unconfirmed(o) ==
             o \in InventoryObject /\ (o.adopted = "True" => iw.obj.adopted = "True")
<1>1. /\ iw.pc # "idle" /\ noInventoryWritten
  BY DEF CreatePlanSecret, ReconcileNetworkConfig, ReadIPAddressClaim, ReadIPAddress,
         UpdateInventoryWithPlanStatus, ReconcileResetPlanSecret, ResetStatus,
         UpdatePlanSecretWithReset
<1>2. iw \in InvWorker /\ Unconfirmed(iw.obj) /\ sec[iw.key] \in PlanSecret
  BY <1>1, InvWorkerTyped
<1>3. ASSUME NEW o, Unconfirmed(o), NEW pc, InvContinue(pc, o)
      PROVE  iw'.key = iw.key /\ iw'.obj = o
  BY <1>2, <1>3 DEF InvContinue, InvWorker
<1>4. ASSUME NEW o, Unconfirmed(o), NEW again, InvFinish(o, again)
      PROVE  iw'.key = iw.key /\ iw'.obj = o
  BY <1>2, <1>4 DEF InvFinish, InvWorker
<1>5. ASSUME NEW o, Unconfirmed(o)
      PROVE  /\ Unconfirmed(WithPlanStatus(o, sec[iw.key]))
             /\ Unconfirmed(WithNetworkReady(iw.key, o))
             /\ Unconfirmed([o EXCEPT !.ready = "False"])
             /\ Unconfirmed([o EXCEPT !.adopted = "False"])
             /\ Unconfirmed([o EXCEPT !.ready = "CreationFailure"])
             /\ Unconfirmed([o EXCEPT !.plan = "waiting", !.ready = "False"])
             /\ Unconfirmed([o EXCEPT !.net = "claimed"])
             /\ Unconfirmed([o EXCEPT !.netReady = "False"])
             /\ Unconfirmed([o EXCEPT !.net = "addressed"])
             /\ Unconfirmed([o EXCEPT !.plan = "waiting"])
             /\ Unconfirmed(ReleaseAfterReset(o))
  <2>1. /\ WithPlanStatus(o, sec[iw.key]) \in InventoryObject
        /\ WithNetworkReady(iw.key, o) \in InventoryObject
    BY <1>2, <1>5, StatusKeeps
  <2>2. /\ WithPlanStatus(o, sec[iw.key]).adopted = o.adopted
        /\ WithNetworkReady(iw.key, o).adopted = o.adopted
    BY <1>5 DEF WithPlanStatus, WithNetworkReady, InventoryObject
  <2>3. /\ Unconfirmed([o EXCEPT !.ready = "False"])
        /\ Unconfirmed([o EXCEPT !.adopted = "False"])
        /\ Unconfirmed([o EXCEPT !.ready = "CreationFailure"])
        /\ Unconfirmed([o EXCEPT !.plan = "waiting", !.ready = "False"])
    BY <1>5 DEF InventoryObject, PlanStates, Status
  <2>4. /\ Unconfirmed([o EXCEPT !.net = "claimed"])
        /\ Unconfirmed([o EXCEPT !.netReady = "False"])
        /\ Unconfirmed([o EXCEPT !.net = "addressed"])
        /\ Unconfirmed([o EXCEPT !.plan = "waiting"])
        /\ Unconfirmed([o EXCEPT !.finalizer = FALSE])
    BY <1>5 DEF InventoryObject, PlanStates, Status
  <2> QED
    BY <1>5, <2>1, <2>2, <2>3, <2>4 DEF ReleaseAfterReset
<1>6. \E o : /\ Unconfirmed(o) /\ iw'.key = iw.key /\ iw'.obj = o
  <2>1. CASE CreatePlanSecret
    BY <1>2, <1>3, <1>4, <1>5, <2>1 DEF CreatePlanSecret
  <2>2. CASE ReconcileNetworkConfig \/ ReadIPAddressClaim \/ ReadIPAddress
    BY <1>2, <1>3, <1>4, <1>5, <2>2
       DEF ReconcileNetworkConfig, ReadIPAddressClaim, ReadIPAddress, InvError
  <2>3. CASE UpdateInventoryWithPlanStatus
    BY <1>2, <1>3, <1>4, <1>5, <2>3 DEF UpdateInventoryWithPlanStatus, ToAdoption, InvError
  <2>4. CASE ReconcileResetPlanSecret
    BY <1>2, <1>3, <1>4, <1>5, <2>4 DEF ReconcileResetPlanSecret, InvError, InvWorker
  <2>5. CASE ResetStatus \/ UpdatePlanSecretWithReset
    BY <1>2, <1>3, <1>4, <1>5, <2>5 DEF ResetStatus, UpdatePlanSecretWithReset, InvError
  <2> QED
    BY <2>1, <2>2, <2>3, <2>4, <2>5
<1> QED
  BY <1>1, <1>6, InvCallMutual

\* The owner that is confirmed refers to the inventory: its cached copy does.
LEMMA AdoptionMutual ==
  ASSUME IInv, MutualInv, UpdateInventoryWithAdoptionStatus
  PROVE  MutualInv'
<1> DEFINE i == iw.key
           o == iw.obj
           passed == o.adopted = "Unknown" /\ i \in late
           checked == AdoptionOf(i, o, selCache[o.owner], passed)
<1>1. /\ iw.pc = "adoption" /\ noInventoryWritten
      /\ InvFinish(checked, checked.adopted # "True")
           \/ InvFinish([o EXCEPT !.adopted = "False"], TRUE)
  BY DEF UpdateInventoryWithAdoptionStatus
<1>2. /\ iw \in InvWorker /\ i \in Inventories /\ o \in InventoryObject
      /\ o.owner \in Selectors /\ o.adopted # "True"
      /\ i \notin outdated => o.owner = inv[i].owner
  BY <1>1, MutualFacts, InvWorkerTyped
     DEF IInv, InvCopyInv, SameAdoption, InventoryObject, Owners
<1>3. checked.adopted = "True" => selCache[o.owner].ref = i
  BY <1>2, NamesAssumption
     DEF AdoptionOf, removeSelectorOwnerShip, InventoryObject, Objects
<1>4. iw'.key = i /\ (iw'.obj = checked \/ iw'.obj = [o EXCEPT !.adopted = "False"])
  <2> HIDE DEF checked
  <2> QED
    BY <1>1, <1>2 DEF InvFinish, InvWorker
<1>5. iw'.obj.adopted = "True" => selCache[o.owner].ref = i
  BY <1>2, <1>3, <1>4 DEF InventoryObject
<1>6. iw'.obj.adopted = "True" /\ i \notin outdated => sel[inv[i].owner].ref = i
  BY <1>2, <1>5 DEF MutualInv, References
<1> QED
  BY <1>1, <1>4, <1>6, InvCallMutual

\* An inventory becomes o, with the owner it had or none.
LEMMA WriteMutual ==
  ASSUME IInv, MutualInv, NEW i \in Inventories, NEW o, inv' = [inv EXCEPT ![i] = o],
         UNCHANGED <<invCache, sel, selCache, sw>>, o.owner \in {None, inv[i].owner},
         o.adopted = "True" => sel[o.owner].ref = i,
         sw.pc # "idle" /\ sw.key \notin outdated' => sw.key \notin outdated
  PROVE  CacheOwners' /\ References' /\ Mutual' /\ SelKeepsReference'
<1>1. \A j \in Inventories : inv'[j] = IF j = i THEN o ELSE inv[j]
  BY MutualFacts
<1>2. CacheOwners' /\ References' /\ Mutual'
  BY <1>1, MutualFacts DEF MutualInv, CacheOwners, References, Mutual
<1>3. SelKeepsReference'
  BY <1>1, MutualFacts DEF MutualInv, SelKeepsReference
<1> QED
  BY <1>2, <1>3

\* No inventory and no selector is written.
LEMMA UntouchedMutual ==
  ASSUME IInv, MutualInv, UNCHANGED <<inv, invCache, sel, selCache, sw>>,
         sw.pc # "idle" /\ sw.key \notin outdated' => sw.key \notin outdated
  PROVE  CacheOwners' /\ References' /\ Mutual' /\ SelKeepsReference'
BY DEF MutualInv, CacheOwners, References, Mutual, SelKeepsReference

LEMMA InvPatchesMutual ==
  ASSUME IInv, MutualInv,
         \/ InvConflict \/ InvRelease \/ InvPatchMeta \/ InvPatchStatus
         \/ InvPatchStatusAlone
  PROVE  MutualInv'
<1> DEFINE i == iw.key
           v == inv[i]
<1>1. /\ iw.pc # "idle" /\ UNCHANGED <<invCache, sel, selCache, sw>>
      /\ iw' = IdleInvWorker
  BY DEF InvConflict, InvRelease, InvPatchMeta, InvPatchStatus, InvPatchStatusAlone,
         InvDone, invOthersUnchanged
<1>2. i \in Inventories /\ (sw.pc # "idle" => sw.key # i)
  BY <1>1, MutualFacts
<1>3. InvConfirms'
  BY <1>1 DEF InvConfirms, IdleInvWorker
<1>4. CASE InvNothingStored
  BY <1>1, <1>2, <1>3, <1>4, UntouchedMutual DEF InvNothingStored, MutualInv
<1>5. ASSUME NEW o, NEW keys, InvStore(i, o, keys), i \notin outdated,
             o \in {Gone(v), WithMeta(v, iw.obj), WithStatus(v, iw.obj)}
      PROVE  MutualInv'
  <2>1. /\ v \in InventoryObject /\ iw.obj \in InventoryObject /\ SameAdoption(v, iw.obj)
        /\ v.adopted = "True" \/ iw.obj.adopted = "True" => sel[v.owner].ref = i
    BY <1>1, <1>2, <1>5, CopyCurrent, InvWorkerTyped DEF MutualInv, Mutual, InvConfirms
  <2>2. /\ Gone(v).owner = v.owner /\ Gone(v).adopted = v.adopted
        /\ WithMeta(v, iw.obj).owner = iw.obj.owner
        /\ WithMeta(v, iw.obj).adopted = v.adopted
        /\ WithStatus(v, iw.obj).owner = v.owner
        /\ WithStatus(v, iw.obj).adopted = iw.obj.adopted
    BY <2>1 DEF Gone, NoInventory, WithMeta, WithStatus, InventoryObject
  <2>3. /\ o.owner \in {None, v.owner}
        /\ o.adopted = "True" => sel[o.owner].ref = i
    BY <1>5, <2>1, <2>2 DEF SameAdoption
  <2>4. /\ inv' = [inv EXCEPT ![i] = o]
        /\ sw.pc # "idle" /\ sw.key \notin outdated' => sw.key \notin outdated
    BY <1>5 DEF InvStore, Written
  <2> QED
    BY <1>1, <1>2, <1>3, <2>3, <2>4, WriteMutual DEF MutualInv
<1>6. CASE InvConflict
  BY <1>4, <1>6 DEF InvConflict
<1>7. CASE InvRelease
  BY <1>5, <1>7 DEF InvRelease
<1>8. CASE InvPatchMeta
  BY <1>5, <1>8 DEF InvPatchMeta
<1>9. CASE InvPatchStatus \/ InvPatchStatusAlone
  BY <1>4, <1>5, <1>9 DEF InvPatchStatus, InvPatchStatusAlone
<1> QED
  BY <1>6, <1>7, <1>8, <1>9

LEMMA InvReconcileMutual ==
  ASSUME IInv, MutualInv, NEW i \in Inventories, InvReconcile(i)
  PROVE  MutualInv'
<1>1. UNCHANGED <<inv, invCache, sel, selCache, sw>> /\ iw.pc = "idle"
  BY DEF InvReconcile, invOthersUnchanged
<1>2. \/ UNCHANGED <<iw, outdated>>
      \/ iw' = FirstInvStep(i, invCache[i]) /\ outdated' = outdated \cup ({i} \cap stale)
  BY DEF InvReconcile
<1>3. CacheOwners' /\ References' /\ Mutual' /\ SelKeepsReference'
  BY <1>1, <1>2, UntouchedMutual
<1>4. InvConfirms'
  <2>1. FirstInvStep(i, invCache[i]).key = i
    BY MutualFacts, FirstStepKeeps
  <2>2. FirstInvStep(i, invCache[i]).obj.adopted = invCache[i].adopted
    <3> DEFINE o == invCache[i]
    <3>1. o \in InventoryObject
      BY MutualFacts
    <3>2. /\ [o EXCEPT !.finalizer = TRUE].adopted = o.adopted
          /\ [o EXCEPT !.finalizer = FALSE].adopted = o.adopted
          /\ [o EXCEPT !.ready = "False"].adopted = o.adopted
          /\ WithNetworkReady(i, o).adopted = o.adopted
      BY <3>1 DEF InventoryObject, WithNetworkReady
    <3> HIDE DEF o
    <3> QED
      BY <3>2 DEF FirstInvStep, o
  <2>3. i \notin stale => invCache[i] = inv[i]
    BY DEF IInv, CacheInv
  <2> QED
    BY <1>1, <1>2, <2>1, <2>2, <2>3 DEF InvConfirms, MutualInv, Mutual
<1> QED
  BY <1>3, <1>4 DEF MutualInv

\* A call of the selector reconciler that keeps the reference of its copy.
LEMMA SelCallMutual ==
  ASSUME IInv, MutualInv, noSelectorWritten, sw.pc # "idle", sw'.key = sw.key,
         sw'.pc # "adopt",
         \/ sw'.obj.ref = sw.obj.ref
         \/ \A i \in Inventories :
              sel[sw.key].ref = i /\ inv[i].owner = sw.key => sw.obj.ref # i
  PROVE  MutualInv'
BY DEF noSelectorWritten, selOthersUnchanged, MutualInv, CacheOwners, References, Mutual,
       SelKeepsReference, InvConfirms

LEMMA SelCallsMutual ==
  ASSUME IInv, MutualInv,
         ReadBootstrap \/ UpdatePlanSecretWithBootstrap \/ SetInventorySelectorAddresses
  PROVE  MutualInv'
<1>1. /\ sw.pc # "idle" /\ noSelectorWritten
      /\ sw \in SelWorker /\ sw.obj \in SelectorObject
  BY SelWorkerTyped
     DEF ReadBootstrap, UpdatePlanSecretWithBootstrap, SetInventorySelectorAddresses
<1>2. [sw.obj EXCEPT !.boot = TRUE].ref = sw.obj.ref /\ WithAddresses(sw.obj).ref = sw.obj.ref
  BY <1>1 DEF SelectorObject, WithAddresses
<1>3. \E o : /\ o.ref = sw.obj.ref
             /\ \/ \E pc \in {"planWrite", "addresses"} : SelContinue(pc, o)
                \/ \E again : SelFinish(o, again)
  BY <1>2
     DEF ReadBootstrap, UpdatePlanSecretWithBootstrap, SetInventorySelectorAddresses, SelError
<1>4. sw'.key = sw.key /\ sw'.pc # "adopt" /\ sw'.obj.ref = sw.obj.ref
  BY <1>1, <1>3 DEF SelContinue, SelFinish, SelWorker
<1> QED
  BY <1>1, <1>4, SelCallMutual

\* Before its deadline a selector gives up an inventory of another owner only.
LEMMA UpdateAdoptionStatusMutual ==
  ASSUME IInv, MutualInv, late \cap Selectors = {}, UpdateAdoptionStatus
  PROVE  MutualInv'
<1> DEFINE s == sw.key
           o == sw.obj
           v == invCache[o.ref]
           passed == s \in late /\ o.ref = sel[s].ref
           checked == AdoptionStatus(s, o, v, passed)
           failed == [o EXCEPT !.invReady = "False"]
<1>1. /\ sw.pc = "check" /\ noSelectorWritten /\ sw \in SelWorker /\ s \in Selectors
      /\ o \in SelectorObject /\ ~passed
  BY SelWorkerTyped DEF UpdateAdoptionStatus
<1>2. failed.ref = o.ref
  BY <1>1 DEF SelectorObject
<1>3. \/ checked.ref = o.ref
      \/ o.ref \in Inventories => v.owner \notin {None, s}
  <2> HIDE DEF s, passed
  <2> QED
    BY <1>1 DEF AdoptionStatus, SelectorObject
<1>4. sw'.key = s /\ sw'.pc # "adopt" /\ sw'.obj \in {o, checked, failed}
  <2>1. \/ sw' = [sw EXCEPT !.pc = StepAfterAdoption(o), !.again = (o.ref = None)]
        \/ SelFinish(checked, TRUE)
        \/ sw' = [sw EXCEPT !.pc = StepAfterAdoption(checked), !.obj = checked,
                            !.again = (checked.invReady = "Unknown")]
        \/ SelFinish(failed, TRUE)
    BY DEF UpdateAdoptionStatus, AdoptionSettled, SelError
  <2>2. /\ StepAfterAdoption(o) # "adopt" /\ StepAfterAdoption(checked) # "adopt"
    BY StepAfterAdoptionTyped
  <2> HIDE DEF checked, failed
  <2> QED
    BY <1>1, <2>1, <2>2 DEF SelFinish, SelWorker
<1>5. \A i \in Inventories :
        sel[s].ref = i /\ inv[i].owner = s /\ o.ref = i => checked.ref = o.ref
  BY <1>1, <1>3, MutualFacts DEF MutualInv, CacheOwners
<1> HIDE DEF checked, failed
<1> QED
  BY <1>1, <1>2, <1>4, <1>5, SelCallMutual

\* The inventory reconciler holds the copy it held, or an older one.
LEMMA InvConfirmsStays ==
  ASSUME IInv, MutualInv, UNCHANGED <<iw, sel>>,
         iw.pc # "idle" /\ iw.key \notin outdated' =>
           iw.key \notin outdated /\ inv'[iw.key] = inv[iw.key]
  PROVE  InvConfirms'
BY DEF MutualInv, InvConfirms

\* The list of free inventories shows the latest version of the one taken.
LEMMA FindAndAdoptMutual ==
  ASSUME IInv, MutualInv, FindAndAdoptInventory
  PROVE  MutualInv'
<1> DEFINE s == sw.key
<1>1. /\ sw.pc = "adopt" /\ sw \in SelWorker /\ s \in Selectors /\ sw.obj \in SelectorObject
      /\ sw.obj.ref = None /\ UNCHANGED <<iw, invCache, sel, selCache>>
  BY SelWorkerTyped DEF FindAndAdoptInventory, selOthersUnchanged, IInv, SelCopyInv
<1>2. CASE UNCHANGED <<inv, outdated>>
           /\ \E o : SelContinue("check", sw.obj) \/ SelFinish(sw.obj, TRUE)
  <2>1. sw'.key = s /\ sw'.pc # "adopt" /\ sw'.obj = sw.obj
    BY <1>1, <1>2 DEF SelContinue, SelFinish, SelWorker
  <2> QED
    BY <1>1, <1>2, <2>1
       DEF MutualInv, CacheOwners, References, Mutual, SelKeepsReference, InvConfirms
<1>3. ASSUME NEW i \in Adoptable(s), Latest(i),
             inv' = [inv EXCEPT ![i] = [inv[i] EXCEPT !.owner = s]],
             outdated' = (outdated \cup {i}) \cap Held,
             SelContinue("check", Adopting(sw.obj, i))
      PROVE  MutualInv'
  <2>1. /\ i \in Inventories /\ invCache[i] = inv[i] /\ inv[i].owner = None
        /\ inv[i].adopted # "True"
    BY <1>3, MutualFacts DEF Adoptable, Latest, isAlreadyOwned, IInv, CacheInv
  <2>2. /\ \A j \in Inventories : j # i => inv'[j] = inv[j]
        /\ inv'[i].owner = s /\ inv'[i].adopted = inv[i].adopted
    BY <1>3, <2>1, MutualFacts DEF InventoryObject
  <2>3. sw'.key = s /\ sw'.pc = "check" /\ sw'.obj.ref = i
    BY <1>1, <1>3 DEF SelContinue, Adopting, SelWorker, SelectorObject
  <2>4. CacheOwners' /\ Mutual'
    BY <1>1, <2>1, <2>2, MutualFacts DEF MutualInv, CacheOwners, Mutual
  <2>5. References'
    BY <1>1, <2>1, <2>2, MutualFacts DEF MutualInv, References, SelKeepsReference
  <2>6. SelKeepsReference'
    BY <1>1, <1>3, <2>1, <2>2, <2>3, MutualFacts DEF MutualInv, SelKeepsReference, Held
  <2>7. InvConfirms'
    BY <1>1, <1>3, <2>1, <2>2, MutualFacts, InvConfirmsStays DEF Held
  <2> QED
    BY <2>4, <2>5, <2>6, <2>7 DEF MutualInv
<1> QED
  BY <1>2, <1>3 DEF FindAndAdoptInventory, SelError, Written

\* What is stored keeps the reference to an inventory the selector owns.
LEMMA SelPatchStatusMutual ==
  ASSUME IInv, MutualInv, SelPatchStatus \/ SelConflict
  PROVE  MutualInv'
<1> DEFINE s == sw.key
<1>1. /\ sw.pc # "idle" /\ s \in Selectors /\ sw' = IdleSelWorker
      /\ UNCHANGED <<iw, inv, invCache, selCache>>
      /\ iw.pc # "idle" => iw.key # s
  BY MutualFacts DEF SelPatchStatus, SelConflict, SelDone, selOthersUnchanged
<1>2. /\ sel' = sel \/ (s \notin outdated /\ sel' = [sel EXCEPT ![s] = sw.obj])
      /\ outdated' = outdated \ {s} \/ outdated' = (outdated \cup {s}) \cap {iw.key}
  BY DEF SelPatchStatus, SelConflict, Written
<1>3. \A i \in Inventories :
        inv[i].owner \in Selectors /\ sel[inv[i].owner].ref = i => sel'[inv[i].owner].ref = i
  BY <1>1, <1>2, MutualFacts DEF MutualInv, SelKeepsReference
<1>4. CacheOwners' /\ Mutual'
  BY <1>1, <1>3, MutualFacts DEF MutualInv, CacheOwners, Mutual
<1>5. References'
  BY <1>1, <1>3, MutualFacts DEF MutualInv, References
<1>6. SelKeepsReference'
  BY <1>1 DEF SelKeepsReference, IdleSelWorker
<1>7. InvConfirms'
  <2>1. iw.pc # "idle" /\ iw.key \notin outdated' => iw.key \notin outdated
    BY <1>1, <1>2
  <2>2. iw.pc # "idle" /\ iw.key \notin outdated /\ iw.obj.adopted = "True" =>
          inv[iw.key].owner \in Selectors
    BY MutualFacts, CopyCurrent DEF SameAdoption, InventoryObject, Owners
  <2> QED
    BY <1>1, <1>3, <2>1, <2>2, MutualFacts DEF MutualInv, InvConfirms
<1> QED
  BY <1>4, <1>5, <1>6, <1>7 DEF MutualInv

LEMMA SelReconcileMutual ==
  ASSUME IInv, MutualInv, NEW s \in Selectors, SelReconcile(s)
  PROVE  MutualInv'
<1>1. UNCHANGED <<iw, inv, invCache, sel, selCache>> /\ outdated \subseteq outdated'
  BY DEF SelReconcile, selOthersUnchanged
<1>2. CacheOwners' /\ References' /\ Mutual' /\ InvConfirms'
  BY <1>1, InvConfirmsStays DEF MutualInv, CacheOwners, References, Mutual
<1>3. SelKeepsReference'
  <2>1. CASE UNCHANGED <<sw, outdated>>
    BY <1>1, <2>1 DEF MutualInv, SelKeepsReference
  <2>2. ASSUME NEW first, first = "adopt" => selCache[s].ref = None,
               sw' = [pc |-> first, key |-> s, obj |-> selCache[s], again |-> FALSE],
               outdated' = outdated \cup ({s} \cap stale)
        PROVE  SelKeepsReference'
    <3>1. s \notin outdated' => selCache[s] = sel[s]
      BY <2>2 DEF IInv, CacheInv
    <3> QED
      BY <1>1, <2>2, <3>1 DEF SelKeepsReference
  <2> QED
    BY <2>1, <2>2 DEF SelReconcile
<1> QED
  BY <1>2, <1>3 DEF MutualInv

LEMMA InventoryEnvironmentMutual ==
  ASSUME IInv, MutualInv, NEW i \in Inventories, InventoryEnvironment(i)
  PROVE  MutualInv'
<1>1. inv[i] \in InventoryObject /\ (inv[i].adopted = "True" => sel[inv[i].owner].ref = i)
  BY MutualFacts DEF MutualInv, Mutual
<1>2. ASSUME NEW o, NEW keys, StoreInventory(i, o, keys),
             o.owner \in {None, inv[i].owner}, o.adopted = "True" => sel[o.owner].ref = i
      PROVE  MutualInv'
  <2>1. /\ inv' = [inv EXCEPT ![i] = o] /\ UNCHANGED <<invCache, sel, selCache, iw, sw>>
        /\ outdated' = (outdated \cup {i}) \cap Held
    BY <1>2 DEF StoreInventory, Written
  <2>2. InvConfirms'
    BY <2>1, MutualFacts, InvConfirmsStays DEF Held
  <2> QED
    BY <1>2, <2>1, <2>2, WriteMutual DEF MutualInv, Held
<1>3. CASE createMachineInventory(i)
  <2> DEFINE o == [NoInventory EXCEPT !.exists = TRUE, !.uid = inv[i].uid + 1]
  <2>1. o.owner = None /\ o.adopted = "none"
    BY DEF NoInventory
  <2> QED
    BY <1>2, <1>3, <2>1 DEF createMachineInventory
<1>4. CASE updateMachineInventory(i)
  BY <1>1, <1>2, <1>4 DEF updateMachineInventory
<1>5. CASE Delete(i)
  <2> DEFINE o == IF inv[i].finalizer THEN [inv[i] EXCEPT !.deleting = TRUE]
                                      ELSE Gone(inv[i])
  <2>1. o.owner = inv[i].owner /\ o.adopted = inv[i].adopted
    BY <1>1 DEF Gone, NoInventory, InventoryObject
  <2>2. StoreInventory(i, o, ObjectKeys(i, inv[i]))
    BY <1>5 DEF Delete
  <2> QED
    BY <1>1, <1>2, <2>1, <2>2
<1>6. CASE \/ CollectSecret(i) \/ CollectClaim(i) \/ ServeClaim(i)
           \/ AgentApplies(i) \/ AgentFails(i)
  <2>1. UNCHANGED <<inv, invCache, sel, selCache, outdated, iw, sw>>
    BY <1>6
       DEF CollectSecret, CollectClaim, ServeClaim, AgentApplies, AgentFails, AgentAnswers
  <2> QED
    BY <2>1, UntouchedMutual, InvConfirmsStays DEF MutualInv
<1> QED
  BY <1>3, <1>4, <1>5, <1>6 DEF InventoryEnvironment, DeleteInventory, CollectInventory

LEMMA SelectorEnvironmentMutual ==
  ASSUME IInv, MutualInv, NEW s \in Selectors, SelectorEnvironment(s)
  PROVE  MutualInv'
<1>1. CASE DeleteSelector(s) \/ UpdateSelector(s)
  <2>1. /\ UNCHANGED <<inv, invCache, selCache, iw, sw>>
        /\ outdated' = (outdated \cup {s}) \cap Held
        /\ \/ sel' = sel \/ sel' = [sel EXCEPT ![s].phase = "deleting"]
           \/ sel' = [sel EXCEPT ![s].phase = "gone"]
    BY <1>1 DEF DeleteSelector, UpdateSelector, Written
  <2>2. \A t \in Selectors : sel'[t].ref = sel[t].ref
    <3>1. \A t \in Selectors : sel[t] \in SelectorObject
      BY MutualFacts
    <3>2. /\ [sel[s] EXCEPT !.phase = "deleting"].ref = sel[s].ref
          /\ [sel[s] EXCEPT !.phase = "gone"].ref = sel[s].ref
      BY <3>1 DEF SelectorObject
    <3>3. \A t \in Selectors \ {s} : sel'[t] = sel[t]
      BY <2>1, MutualFacts
    <3>4. \/ sel'[s] = sel[s] \/ sel'[s] = [sel[s] EXCEPT !.phase = "deleting"]
          \/ sel'[s] = [sel[s] EXCEPT !.phase = "gone"]
      BY <2>1, MutualFacts
    <3> QED
      BY <3>2, <3>3, <3>4
  <2>3. CacheOwners' /\ References' /\ Mutual'
    BY <2>1, <2>2, MutualFacts DEF MutualInv, CacheOwners, References, Mutual
  <2>4. SelKeepsReference'
    BY <2>1, <2>2, MutualFacts DEF MutualInv, SelKeepsReference, Held
  <2>5. InvConfirms'
    <3>1. iw.pc # "idle" /\ iw.key \notin outdated' => iw.key \notin outdated
      BY <2>1 DEF Held
    <3>2. iw.pc # "idle" /\ iw.key \notin outdated /\ iw.obj.adopted = "True" =>
            inv[iw.key].owner \in Selectors
      BY MutualFacts, CopyCurrent DEF SameAdoption, InventoryObject, Owners
    <3> QED
      BY <2>1, <2>2, <3>1, <3>2 DEF MutualInv, InvConfirms
  <2> QED
    BY <2>3, <2>4, <2>5 DEF MutualInv
<1>2. CASE ProvideBootstrap(s)
  BY <1>2, UntouchedMutual, InvConfirmsStays DEF ProvideBootstrap, MutualInv
<1> QED
  BY <1>1, <1>2 DEF SelectorEnvironment

\* The caches catch up: what they show then is what the server has.
LEMMA SyncMutual ==
  ASSUME IInv, MutualInv, NEW x \in Objects, Sync(x)
  PROVE  MutualInv'
<1>1. /\ UNCHANGED <<inv, sel, outdated, iw, sw>>
      /\ \A i \in Inventories : invCache'[i] \in {invCache[i], inv[i]}
      /\ \A s \in Selectors : selCache'[s] \in {selCache[s], sel[s]}
  BY MutualFacts DEF Sync, Objects
<1>2. CacheOwners' /\ References' /\ Mutual'
  BY <1>1 DEF MutualInv, CacheOwners, References, Mutual
<1>3. SelKeepsReference' /\ InvConfirms'
  BY <1>1, MutualFacts DEF MutualInv, SelKeepsReference, InvConfirms
<1> QED
  BY <1>2, <1>3 DEF MutualInv

LEMMA NextMutual ==
  ASSUME IInv, MutualInv, late \cap Selectors = {}, [Next]_vars
  PROVE  MutualInv'
<1>1. CASE InvNext
  BY <1>1, InvCallsMutual, AdoptionMutual, InvPatchesMutual, InvReconcileMutual
     DEF InvNext, InvStep
<1>2. CASE SelNext
  BY <1>2, FindAndAdoptMutual, UpdateAdoptionStatusMutual, SelCallsMutual,
     SelPatchStatusMutual, SelReconcileMutual DEF SelNext, SelStep
<1>3. ASSUME NEW x \in Objects, DeadlinePasses(x) PROVE MutualInv'
  BY <1>3, UntouchedMutual, InvConfirmsStays DEF DeadlinePasses, MutualInv
<1>4. CASE Restart
  BY <1>4
     DEF Restart, IdleInvWorker, IdleSelWorker, MutualInv, CacheOwners, References,
         Mutual, SelKeepsReference, InvConfirms
<1>5. CASE UNCHANGED vars
  BY <1>5, UntouchedMutual, InvConfirmsStays DEF vars, MutualInv
<1> QED
  BY <1>1, <1>2, <1>3, <1>4, <1>5, InventoryEnvironmentMutual, SelectorEnvironmentMutual,
     SyncMutual DEF Next

\* As long as no selector sees its own deadline pass, an inventory that says
\* it is adopted is the one its selector refers to, whatever the deadlines of
\* inventories, lost patches, lagging caches and new registrations do.
THEOREM AdoptionIsMutual ==
  Spec /\ [](late \cap Selectors = {}) => []MutualAdoption
<1>1. Init => MutualInv
  BY NamesAssumption
     DEF Init, MutualInv, CacheOwners, References, Mutual, SelKeepsReference, InvConfirms,
         NoInventory, NewSelector, IdleInvWorker, IdleSelWorker, Objects
<1>2. IInv /\ MutualInv /\ late \cap Selectors = {} /\ [Next]_vars => MutualInv'
  BY NextMutual
<1>3. MutualInv => MutualAdoption
  BY DEF MutualInv, Mutual, MutualAdoption
<1> QED
  BY <1>1, <1>2, <1>3, InductiveInvariant, PTL DEF Spec
=============================================================================
