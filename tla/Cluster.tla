------------------------------ MODULE Cluster ------------------------------
(***************************************************************************)
(* The objects the two adoption controllers share, as the API server       *)
(* stores them and as the manager's informer cache shows them.             *)
(*                                                                         *)
(* Every Get or List of a MachineInventory or a MachineInventorySelector   *)
(* is answered by the cache, which lags behind the server; Secrets are     *)
(* read from the server.  Patches of the two kinds carry the               *)
(* resourceVersion of the copy they were computed from                     *)
(* (MergeFromWithOptimisticLock) and are refused when the object changed   *)
(* since.  No version number is kept: stale is the set of objects whose    *)
(* cached copy is not the latest version, and outdated the set of objects  *)
(* of which a reconcile in progress holds a copy that is not the latest.   *)
(***************************************************************************)
EXTENDS Naturals, FiniteSets

CONSTANTS
  Inventories,   \* names of MachineInventories (one per machine)
  Selectors,     \* names of MachineInventorySelectors
  None,          \* no owner, no reference, no key
  Matches,       \* <<s, i>>: the label selector of s matches inventory i
  Resettable,    \* inventories annotated elemental.cattle.io/resettable
  Pooled,        \* inventories with Spec.IPAddressPools
  Agents,        \* inventories whose machine runs its system agent
  Delayed,       \* selectors whose CAPI Machine gets its bootstrap data late
  Deletable,     \* objects a user may delete
  Deadlines,     \* objects whose adoption deadline of 5 seconds may pass
  MaxUid,        \* bound: times one inventory name is registered
  MaxFaults,     \* bound: crashes, API errors and foreign updates
  MaxAddresses   \* bound: Status.Addresses is counted up to this

Objects == Inventories \cup Selectors

ASSUME NamesAssumption ==
  /\ Inventories \cap Selectors = {}
  /\ None \notin Objects
ASSUME FeaturesAssumption ==
  /\ Matches \subseteq Selectors \X Inventories
  /\ Resettable \subseteq Inventories
  /\ Pooled \subseteq Inventories
  /\ Agents \subseteq Inventories
  /\ Delayed \subseteq Selectors
  /\ Deletable \subseteq Objects
  /\ Deadlines \subseteq Objects
ASSUME BoundsAssumption ==
  /\ MaxUid \in Nat \ {0}
  /\ MaxFaults \in Nat
  /\ MaxAddresses \in Nat \ {0}

VARIABLES
  inv,        \* inv[i]: the MachineInventory on the server
  invCache,   \* invCache[i]: the same object in the informer cache
  sel,        \* sel[s]: the MachineInventorySelector on the server
  selCache,   \* selCache[s]: the same object in the informer cache
  stale,      \* objects whose cached copy is not the latest version
  outdated,   \* objects whose copy held by a reconcile is not the latest
  note,       \* note[x]: keys the undelivered events of x will enqueue
  queue,      \* the work queues of the two controllers
  late,       \* objects whose adoption deadline has passed
  sec,        \* sec[i]: the plan Secret of inventory i
  ipam,       \* ipam[i]: the IPAddressClaim of a pooled inventory
  dataReady,  \* selectors whose CAPI Machine has its bootstrap data
  iw,         \* the worker of the MachineInventory controller
  sw,         \* the worker of the MachineInventorySelector controller
  faults,     \* faults so far
  adopter     \* history: adopter[i][u] is the selector that the u-th
              \* inventory named i was recorded as adopted by

(***************************************************************************)
(* A condition is reduced to its status ("none": not set).  Plan is        *)
(* Status.Plan: "nil", or its State; ready is the Ready condition, of      *)
(* which only the reason PlanCreationFailure is ever read back.            *)
(***************************************************************************)
Status     == {"none", "False", "Unknown", "True"}
PlanStates == {"nil", "waiting", "applied", "failed"}
PlanTypes  == {"empty", "bootstrap", "reset"}
Answers    == {"absent", "cleared", "applied", "failed"}
Owners     == Selectors \cup {None}

\* The record of a deleted inventory keeps uid, owner and adopted, as history.
InventoryObject ==
  [exists: BOOLEAN, uid: 0..MaxUid, deleting: BOOLEAN, finalizer: BOOLEAN,
   owner: Owners, net: {"none", "claimed", "addressed"}, plan: PlanStates,
   ready: {"none", "CreationFailure", "False", "True"},
   netReady: Status, adopted: Status]

NoInventory ==
  [exists |-> FALSE, uid |-> 0, deleting |-> FALSE, finalizer |-> FALSE,
   owner |-> None, net |-> "none", plan |-> "nil", ready |-> "none",
   netReady |-> "none", adopted |-> "none"]

\* refUid is history: the incarnation seen when InventoryReady became True.
SelectorObject ==
  [phase: {"live", "deleting", "gone"}, ref: Inventories \cup {None},
   refUid: 0..MaxUid, invReady: Status, boot: BOOLEAN, ready: BOOLEAN,
   addresses: 0..MaxAddresses]

NewSelector ==
  [phase |-> "live", ref |-> None, refUid |-> 0, invReady |-> "none",
   boot |-> FALSE, ready |-> FALSE, addresses |-> 0]

\* uid is the owner's (0: no Secret); answered is the plan an answer is for,
\* by the selector whose bootstrap plan was written last.
PlanSecret ==
  [uid: 0..MaxUid, plan: PlanTypes, by: Owners, answer: Answers,
   answered: PlanTypes]

NoSecret ==
  [uid |-> 0, plan |-> "empty", by |-> None, answer |-> "absent",
   answered |-> "empty"]

Claim == [uid: 0..MaxUid,
          stage: {"none", "created", "visible", "assigned", "deleting"}]
NoClaim == [uid |-> 0, stage |-> "none"]

InvWorker ==
  [pc: {"idle", "secret", "network", "claim", "address", "planStatus",
        "adoption", "reset", "resetStatus", "resetWrite", "commit"},
   key: Inventories \cup {None}, obj: InventoryObject, again: BOOLEAN,
   answer: Answers]
IdleInvWorker ==
  [pc |-> "idle", key |-> None, obj |-> NoInventory, again |-> FALSE,
   answer |-> "absent"]

SelWorker ==
  [pc: {"idle", "adopt", "check", "plan", "planWrite", "addresses", "commit"},
   key: Owners, obj: SelectorObject, again: BOOLEAN]
IdleSelWorker ==
  [pc |-> "idle", key |-> None, obj |-> NewSelector, again |-> FALSE]

ClusterTypeOK ==
  /\ inv \in [Inventories -> InventoryObject]
  /\ invCache \in [Inventories -> InventoryObject]
  /\ sel \in [Selectors -> SelectorObject]
  /\ selCache \in [Selectors -> SelectorObject]
  /\ stale \subseteq Objects
  /\ outdated \subseteq Objects
  /\ note \in [Objects -> SUBSET Objects]
  /\ queue \subseteq Objects
  /\ late \subseteq Objects
  /\ sec \in [Inventories -> PlanSecret]
  /\ ipam \in [Inventories -> Claim]
  /\ dataReady \subseteq Selectors
  /\ iw \in InvWorker
  /\ sw \in SelWorker
  /\ faults \in 0..MaxFaults
  /\ adopter \in [Inventories -> [1..MaxUid -> Owners]]

----------------------------------------------------------------------------
(***************************************************************************)
(* Faults share one budget.  A step that may fail has a disjunct with      *)
(* Fault and one with NoFault.                                             *)
(***************************************************************************)
Fault   == faults < MaxFaults /\ faults' = faults + 1
NoFault == UNCHANGED faults

\* What the keys of MachineInventoryToSelector are for one version of i.
MachineInventoryToSelector(i, o) ==
  IF o.owner # None THEN {o.owner} ELSE {s \in Selectors : <<s, i>> \in Matches}

\* The MachineInventory controller ignores updates of the status alone.
ignoreIncrementalStatusUpdate(old, new) ==
  \/ old.deleting # new.deleting
  \/ old.finalizer # new.finalizer
  \/ old.owner # new.owner
  \/ old.net # new.net

\* The selector controller ignores an update that adds an owner.
filterSelectorUpdateEvents(old, new) == ~(old.owner = None /\ new.owner # None)

\* Keys that an update of inventory i from old to new enqueues.
UpdateKeys(i, old, new) ==
  (IF ignoreIncrementalStatusUpdate(old, new) THEN {i} ELSE {})
  \cup (IF filterSelectorUpdateEvents(old, new)
        THEN MachineInventoryToSelector(i, old)
               \cup MachineInventoryToSelector(i, new)
        ELSE {})

\* Keys that the creation or the deletion of inventory i enqueues.
ObjectKeys(i, o) == {i} \cup MachineInventoryToSelector(i, o)

(***************************************************************************)
(* The server accepted a write of x: the cached copy and every copy held   *)
(* by a reconcile that goes on (held) are no longer the latest; when the   *)
(* cache catches up, the watch events enqueue keys.                        *)
(***************************************************************************)
Written(x, keys, held) ==
  /\ stale' = stale \cup {x}
  /\ outdated' = (outdated \cup {x}) \cap held
  /\ note' = [note EXCEPT ![x] = @ \cup keys]

Held == {iw.key, sw.key}

\* An inventory is removed: its record keeps what history needs.
Gone(o) == [NoInventory EXCEPT !.uid = o.uid, !.owner = o.owner,
                               !.adopted = o.adopted]
=============================================================================
