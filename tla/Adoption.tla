------------------------------ MODULE Adoption ------------------------------
(***************************************************************************)
(* The two controllers at work on the same objects, together with what     *)
(* else touches them: the registration server, users, the garbage          *)
(* collector, the machine's system agent, the IPAM and CAPI providers, the *)
(* informers, the clock, and restarts of the manager.                      *)
(***************************************************************************)
EXTENDS MachineInventory, MachineInventorySelector

vars == <<inv, invCache, sel, selCache, stale, outdated, note, queue, late,
          sec, ipam, dataReady, iw, sw, faults, adopter>>

Init ==
  /\ inv = [i \in Inventories |-> NoInventory]
  /\ invCache = inv
  /\ sel = [s \in Selectors |-> NewSelector]
  /\ selCache = sel
  /\ stale = {}
  /\ outdated = {}
  /\ note = [x \in Objects |-> {}]
  /\ queue = Selectors
  /\ late = {}
  /\ sec = [i \in Inventories |-> NoSecret]
  /\ ipam = [i \in Inventories |-> NoClaim]
  /\ dataReady = Selectors \ Delayed
  /\ iw = IdleInvWorker
  /\ sw = IdleSelWorker
  /\ faults = 0
  /\ adopter = [i \in Inventories |-> [u \in 1..MaxUid |-> None]]

----------------------------------------------------------------------------
(***************************************************************************)
(* The watch: the cache catches up with the server and the events seen on  *)
(* the way enqueue their keys.                                             *)
(***************************************************************************)
Sync(x) ==
  /\ x \in stale
  /\ stale' = stale \ {x}
  /\ queue' = queue \cup note[x]
  /\ note' = [note EXCEPT ![x] = {}]
  /\ IF x \in Inventories
     THEN invCache' = [invCache EXCEPT ![x] = inv[x]] /\ UNCHANGED selCache
     ELSE selCache' = [selCache EXCEPT ![x] = sel[x]] /\ UNCHANGED invCache
  /\ UNCHANGED <<inv, sel, outdated, late, sec, ipam, dataReady, iw, sw,
                 faults, adopter>>

\* An inventory becomes o by somebody else's hand.
StoreInventory(i, o, keys) ==
  /\ inv' = [inv EXCEPT ![i] = o]
  /\ Written(i, keys, Held)
  /\ UNCHANGED <<invCache, sel, selCache, queue, sec, ipam, dataReady, iw, sw,
                 adopter>>

(***************************************************************************)
(* The registration server creates the inventory of a machine that has     *)
(* none, neither in the cached list nor on the server.                     *)
(***************************************************************************)
createMachineInventory(i) ==
  LET o == [NoInventory EXCEPT !.exists = TRUE, !.uid = inv[i].uid + 1]
  IN /\ ~invCache[i].exists
     /\ ~inv[i].exists
     /\ inv[i].uid < MaxUid
     /\ StoreInventory(i, o, ObjectKeys(i, o))
     /\ UNCHANGED <<late, faults>>

\* A machine that registers again updates labels and annotations.
updateMachineInventory(i) ==
  /\ inv[i].exists
  /\ Fault
  /\ StoreInventory(i, inv[i], ObjectKeys(i, inv[i]))
  /\ UNCHANGED late

\* A delete request: the finalizer keeps the object until it is removed.
Delete(i) ==
  LET o == IF inv[i].finalizer THEN [inv[i] EXCEPT !.deleting = TRUE]
                               ELSE Gone(inv[i])
  IN /\ inv[i].exists
     /\ ~inv[i].deleting
     /\ StoreInventory(i, o, ObjectKeys(i, inv[i]))
     /\ late' = IF o.exists THEN late ELSE late \ {i}
     /\ UNCHANGED faults

\* By a user.
DeleteInventory(i) == i \in Deletable /\ Delete(i)

\* By the garbage collector, when the selector that owns it is deleted.
CollectInventory(i) ==
  /\ inv[i].owner # None
  /\ sel[inv[i].owner].phase # "live"
  /\ Delete(i)

\* A user, or CAPI, deletes a selector, with or without foreground finalizer.
DeleteSelector(s) ==
  /\ s \in Deletable
  /\ \/ sel[s].phase = "live" /\ sel' = [sel EXCEPT ![s].phase = "deleting"]
     \/ sel[s].phase # "gone" /\ sel' = [sel EXCEPT ![s].phase = "gone"]
  /\ Written(s, {s}, Held)
  /\ UNCHANGED <<inv, invCache, selCache, queue, late, sec, ipam, dataReady,
                 iw, sw, faults, adopter>>

\* CAPI sets the owner or the labels of a selector.
UpdateSelector(s) ==
  /\ sel[s].phase # "gone"
  /\ Fault
  /\ Written(s, {s}, Held)
  /\ UNCHANGED <<inv, invCache, sel, selCache, queue, late, sec, ipam,
                 dataReady, iw, sw, adopter>>

\* The plan Secret and the IPAddressClaim of an inventory that is no more.
ownerAlive(i, uid) == inv[i].exists /\ inv[i].uid = uid

CollectSecret(i) ==
  /\ sec[i].uid # 0 /\ ~ownerAlive(i, sec[i].uid)
  /\ sec' = [sec EXCEPT ![i] = NoSecret]
  /\ queue' = queue \cup {i}
  /\ UNCHANGED <<inv, invCache, sel, selCache, stale, outdated, note, late,
                 ipam, dataReady, iw, sw, faults, adopter>>

CollectClaim(i) ==
  /\ ipam[i].stage # "none" /\ ~ownerAlive(i, ipam[i].uid)
  /\ ipam' = [ipam EXCEPT ![i] = IF ipam[i].stage = "deleting" THEN NoClaim
                                 ELSE [@ EXCEPT !.stage = "deleting"]]
  /\ UNCHANGED <<inv, invCache, sel, selCache, stale, outdated, note, queue,
                 late, sec, dataReady, iw, sw, faults, adopter>>

\* The claim becomes visible in the cache, then the provider assigns it.
ServeClaim(i) ==
  /\ ipam[i].stage \in {"created", "visible"}
  /\ ipam' = [ipam EXCEPT ![i].stage = IF @ = "created" THEN "visible"
                                                        ELSE "assigned"]
  /\ UNCHANGED <<inv, invCache, sel, selCache, stale, outdated, note, queue,
                 late, sec, dataReady, iw, sw, faults, adopter>>

(***************************************************************************)
(* The system agent of the machine executes the plan of the Secret and     *)
(* answers with its checksum, in an update conditional on the version of   *)
(* the Secret it executed.  A failed plan is tried again.                  *)
(***************************************************************************)
Answered(i) == sec[i].answer = "applied" /\ sec[i].answered = sec[i].plan

AgentAnswers(i, answer) ==
  /\ i \in Agents
  /\ sec[i].uid # 0
  /\ ~Answered(i)
  /\ sec' = [sec EXCEPT ![i].answer = answer, ![i].answered = sec[i].plan]
  /\ queue' = queue \cup {i}
  /\ UNCHANGED <<inv, invCache, sel, selCache, stale, outdated, note, late,
                 ipam, dataReady, iw, sw, adopter>>

AgentApplies(i) == AgentAnswers(i, "applied") /\ NoFault
AgentFails(i)   == AgentAnswers(i, "failed") /\ Fault

\* The CAPI bootstrap provider delivers the data of the selector's Machine.
ProvideBootstrap(s) ==
  /\ s \notin dataReady
  /\ dataReady' = dataReady \cup {s}
  /\ UNCHANGED <<inv, invCache, sel, selCache, stale, outdated, note, queue,
                 late, sec, ipam, iw, sw, faults, adopter>>

(***************************************************************************)
(* Five seconds pass since the last transition of the condition that x's   *)
(* controller measures its adoption deadline by.                           *)
(***************************************************************************)
Validating(x) ==
  \/ x \in Inventories /\ inv[x].adopted = "Unknown"
  \/ x \in Selectors /\ sel[x].ref # None /\ sel[x].invReady # "True"

DeadlinePasses(x) ==
  /\ x \in Deadlines
  /\ Validating(x)
  /\ x \notin late
  /\ late' = late \cup {x}
  /\ UNCHANGED <<inv, invCache, sel, selCache, stale, outdated, note, queue,
                 sec, ipam, dataReady, iw, sw, faults, adopter>>

(***************************************************************************)
(* The manager restarts: what the workers held is lost, the caches are     *)
(* read anew and every object is enqueued.                                 *)
(***************************************************************************)
Restart ==
  /\ Fault
  /\ iw' = IdleInvWorker
  /\ sw' = IdleSelWorker
  /\ invCache' = inv
  /\ selCache' = sel
  /\ stale' = {}
  /\ outdated' = {}
  /\ note' = [x \in Objects |-> {}]
  /\ queue' = {i \in Inventories : inv[i].exists}
                \cup {s \in Selectors : sel[s].phase # "gone"}
  /\ UNCHANGED <<inv, sel, late, sec, ipam, dataReady, adopter>>

InventoryEnvironment(i) ==
  \/ createMachineInventory(i)
  \/ updateMachineInventory(i)
  \/ DeleteInventory(i)
  \/ CollectInventory(i)
  \/ CollectSecret(i)
  \/ CollectClaim(i)
  \/ ServeClaim(i)
  \/ AgentApplies(i)
  \/ AgentFails(i)

SelectorEnvironment(s) ==
  \/ DeleteSelector(s)
  \/ UpdateSelector(s)
  \/ ProvideBootstrap(s)

Next ==
  \/ InvNext
  \/ SelNext
  \/ \E i \in Inventories : InventoryEnvironment(i)
  \/ \E s \in Selectors : SelectorEnvironment(s)
  \/ \E x \in Objects : Sync(x) \/ DeadlinePasses(x)
  \/ Restart

Spec == Init /\ [][Next]_vars

(***************************************************************************)
(* Fairness: a worker finishes what it began (its calls return), a queued  *)
(* key is taken in turn (the work queue is first in, first out), watches   *)
(* deliver, the clock runs, the garbage collector, the agent and the       *)
(* providers do their work.  Registration, deletion and faults need not    *)
(* happen.                                                                 *)
(***************************************************************************)
Fairness ==
  /\ WF_vars(InvStep)
  /\ WF_vars(SelStep)
  /\ \A i \in Inventories : SF_vars(InvReconcile(i))
  /\ \A s \in Selectors : SF_vars(SelReconcile(s))
  /\ \A x \in Objects : WF_vars(Sync(x)) /\ WF_vars(DeadlinePasses(x))
  /\ \A i \in Inventories :
       /\ WF_vars(CollectInventory(i))
       /\ WF_vars(CollectSecret(i))
       /\ WF_vars(CollectClaim(i))
       /\ WF_vars(ServeClaim(i))
       /\ WF_vars(AgentApplies(i))
  /\ \A s \in Selectors : WF_vars(ProvideBootstrap(s))

FairSpec == Spec /\ Fairness

----------------------------------------------------------------------------
(***************************************************************************)
(* Safety.                                                                 *)
(***************************************************************************)

\* Every variable of the two controllers and of the objects they share holds
\* what its declaration says.
TypeOK == ClusterTypeOK

\* The machine a selector was told it may bootstrap, as a set: one incarnation
\* of one inventory, from the moment InventoryReady is True on (a deleted
\* selector keeps what it had).
Bound(s) == IF sel[s].invReady = "True" THEN {<<sel[s].ref, sel[s].refUid>>}
                                        ELSE {}

\* No machine is handed to two selectors: InventoryReady is never True on two
\* selectors for the same incarnation of an inventory, whatever their caches
\* showed when they decided (updateAdoptionStatus).
ExclusiveAdoption ==
  \A s, t \in Selectors : s # t => Bound(s) \cap Bound(t) = {}

\* A selector is only ever bound to a machine that confirmed it: the
\* incarnation it refers to is owned by it and has AdoptionReady True, or it
\* is no longer the current one.
ConfirmedByInventory ==
  \A s \in Selectors :
    sel[s].invReady = "True" =>
      LET v == inv[sel[s].ref]
      IN  \/ v.uid > sel[s].refUid
          \/ v.uid = sel[s].refUid /\ v.owner = s /\ v.adopted = "True"

\* Adoption is mutual: an inventory that says it is adopted by a selector is
\* the one this selector refers to.
MutualAdoption ==
  \A i \in Inventories :
    inv[i].exists /\ inv[i].adopted = "True" =>
      sel[inv[i].owner].ref = i

\* The bootstrap plan in a Secret was written by the selector that owns the
\* inventory the Secret belongs to (updatePlanSecretWithBootstrap patches by
\* name, with no precondition).
BootstrapByOwner ==
  \A i \in Inventories :
    sec[i].uid # 0 /\ sec[i].plan = "bootstrap" /\ ownerAlive(i, sec[i].uid)
      => sec[i].by = inv[i].owner

\* updateInventoryWithPlanStatus dereferences Status.Plan with no test: it is
\* only reached with a plan recorded, though the patches that record it can
\* be refused, lost or computed from a stale copy.
PlanRecordedWhenRead ==
  iw.pc \in {"planStatus", "adoption", "reset", "resetStatus", "resetWrite"}
    => iw.obj.plan # "nil"

(***************************************************************************)
(* What a step may never do.                                               *)
(***************************************************************************)

\* An inventory changes hands only through a state in which nobody owns it,
\* and once its adoption is confirmed it keeps its owner until it is gone
\* (the patch of findAndAdoptInventory carries the version it listed).
OwnerKept ==
  [][\A i \in Inventories :
       inv[i].exists /\ inv[i].owner # None /\ inv'[i].uid = inv[i].uid =>
         \/ inv'[i].owner = inv[i].owner
         \/ inv'[i].owner = None /\ inv[i].adopted # "True"]_inv

\* A reset is never answered for before it was asked for: a resettable
\* inventory loses its finalizer only after its Secret held the reset plan
\* and the agent's answer to it.
ReleasedAfterReset ==
  [][\A i \in Resettable :
       inv[i].finalizer /\ ~inv'[i].finalizer =>
         sec[i].answer = "applied" /\ sec[i].answered = "reset"]_inv

(***************************************************************************)
(* Liveness, under FairSpec.                                               *)
(***************************************************************************)

\* Validation ends on both sides: no selector stays InventoryReady Unknown,
\* no inventory stays owned but unconfirmed.
SelectorDecides ==
  \A s \in Selectors :
    sel[s].invReady = "Unknown" ~>
      sel[s].invReady # "Unknown" \/ sel[s].phase # "live"
InventoryDecides ==
  \A i \in Inventories :
    inv[i].exists /\ inv[i].owner # None /\ inv[i].adopted # "True" ~>
      \/ ~inv[i].exists
      \/ inv[i].deleting
      \/ inv[i].owner = None
      \/ inv[i].adopted = "True"

\* A selector bound to an inventory gets its bootstrap plan written, unless
\* the inventory or the selector goes first: no event filter loses the wake-up
\* that a late plan reference or late bootstrap data needs.
BootstrapDelivered ==
  \A s \in Selectors, i \in Inventories :
    sel[s].invReady = "True" /\ sel[s].ref = i ~>
      sel[s].boot \/ sel[s].phase # "live" \/ ~inv[i].exists

\* A deleted inventory whose plan was recorded goes away, reset when needed.
DeletionCompletes ==
  \A i \in Inventories :
    inv[i].deleting /\ inv[i].plan # "nil" ~> ~inv[i].deleting

(***************************************************************************)
(* The controllers implement the handshake of AdoptionHandshake, a machine *)
(* being one incarnation of one inventory.  The claim on the current       *)
(* incarnation is the owner reference on the server; a machine confirmed   *)
(* once the AdoptionReady condition stored was True.                       *)
(***************************************************************************)
Machines == Inventories \X (1..MaxUid)

MachineOwner(i, u) ==
  IF u = inv[i].uid /\ inv[i].adopted # "True" THEN inv[i].owner
                                              ELSE adopter[i][u]

MachineOwners == [m \in Machines |-> MachineOwner(m[1], m[2])]

ConfirmedMachines == {m \in Machines : adopter[m[1]][m[2]] # None}

Bindings == [s \in Selectors |-> Bound(s)]

Handshake == INSTANCE AdoptionHandshake WITH
  owner <- MachineOwners, confirmed <- ConfirmedMachines, bound <- Bindings

\* Every step of the controllers and of their environment is a step of the
\* handshake or none: stale caches, refused patches, lost status patches,
\* crashes and re-registrations never break it.
ImplementsHandshake == Handshake!Spec
=============================================================================
