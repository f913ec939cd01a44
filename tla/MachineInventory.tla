-------------------------- MODULE MachineInventory --------------------------
(***************************************************************************)
(* The MachineInventory controller: one worker that takes an inventory     *)
(* name from its queue, computes on a copy of the cached object and, last, *)
(* patches the object.  Each action is one call of the reconciler; between *)
(* two of them any other actor may take steps.                             *)
(***************************************************************************)
EXTENDS Cluster

invOthersUnchanged == UNCHANGED <<invCache, sel, selCache, dataReady, sw>>

\* What a step that writes no inventory leaves alone.
noInventoryWritten ==
  /\ invOthersUnchanged
  /\ UNCHANGED <<inv, stale, outdated, note, late, adopter>>

\* The reconcile goes on at pc with the object o.
InvContinue(pc, o) == iw' = [iw EXCEPT !.pc = pc, !.obj = o]

\* The reconcile ends with the object o; again: an error or a RequeueAfter.
InvFinish(o, again) ==
  iw' = [iw EXCEPT !.pc = "commit", !.obj = o, !.again = again]

\* An error below, reported as the Ready condition False.
InvError(o) == InvFinish([o EXCEPT !.ready = "False"], TRUE)

----------------------------------------------------------------------------
(***************************************************************************)
(* createPlanSecret is skipped once the Ready condition is set for another *)
(* reason than a creation failure; the network is ready when no address of *)
(* a pool is missing.  Neither test reads anything but the object.         *)
(***************************************************************************)
\* Mutant: a creation that failed once is not tried again.
NeedsPlanSecretOnce(o) == o.ready = "none"

NeedsPlanSecret(o) == o.ready \in {"none", "CreationFailure"}

networkNeedsReconcile(i, o) == i \in Pooled /\ o.net # "addressed"

StepAfterSecret(i, o) ==
  IF networkNeedsReconcile(i, o) THEN "network" ELSE "planStatus"

WithNetworkReady(i, o) ==
  IF networkNeedsReconcile(i, o) THEN [o EXCEPT !.ready = "False"]
                                 ELSE [o EXCEPT !.netReady = "True"]

\* Where reconcile starts for the object o, and what it has done to it.
FirstInvStep(i, o) ==
  LET step(pc, obj, again) == [pc |-> pc, key |-> i, obj |-> obj,
                               again |-> again, answer |-> "absent"]
  IN  CASE ~o.deleting /\ ~o.finalizer ->
             step("commit", [o EXCEPT !.finalizer = TRUE], TRUE)
        [] ~o.deleting /\ o.finalizer /\ NeedsPlanSecret(o) ->
             step("secret", o, FALSE)
        [] ~o.deleting /\ o.finalizer /\ ~NeedsPlanSecret(o) ->
             step(StepAfterSecret(i, o), WithNetworkReady(i, o), FALSE)
        [] o.deleting /\ ~o.finalizer -> step("commit", o, FALSE)
        [] o.deleting /\ o.finalizer /\ i \notin Resettable ->
             step("commit", [o EXCEPT !.finalizer = FALSE], FALSE)
        [] o.deleting /\ o.finalizer /\ i \in Resettable /\ o.plan = "nil" ->
             step("commit", [o EXCEPT !.ready = "False"], TRUE)
        [] OTHER -> step("reset", o, FALSE)

\* Reconcile reads the cached object and branches on deletion and finalizer.
InvReconcile(i) ==
  /\ iw.pc = "idle"
  /\ i \in queue
  /\ queue' = queue \ {i}
  /\ IF invCache[i].exists
     THEN /\ iw' = FirstInvStep(i, invCache[i])
          /\ outdated' = outdated \cup ({i} \cap stale)
     ELSE UNCHANGED <<iw, outdated>>
  /\ invOthersUnchanged
  /\ UNCHANGED <<inv, stale, note, late, sec, ipam, faults, adopter>>

(***************************************************************************)
(* createPlanSecret.  A Secret of that name that exists already is taken   *)
(* for the plan, whoever owns it.                                          *)
(***************************************************************************)
CreatePlanSecret ==
  LET i == iw.key
      o == iw.obj
      created == [NoSecret EXCEPT !.uid = o.uid]
      planned == [o EXCEPT !.plan = "waiting", !.ready = "False"]
  IN /\ iw.pc = "secret"
     /\ \/ /\ InvContinue(StepAfterSecret(i, o), WithNetworkReady(i, planned))
           /\ NoFault
           /\ IF sec[i].uid = 0
              THEN /\ sec' = [sec EXCEPT ![i] = created]
                   /\ queue' = queue \cup {i}
              ELSE UNCHANGED <<sec, queue>>
        \/ /\ InvFinish([o EXCEPT !.ready = "CreationFailure"], TRUE)
           /\ Fault
           /\ UNCHANGED <<sec, queue>>
     /\ noInventoryWritten
     /\ UNCHANGED ipam

(***************************************************************************)
(* reconcileNetworkConfig, for an inventory with one address pool: create  *)
(* the IPAddressClaim, read it back through the cache, then its address.   *)
(***************************************************************************)
ReconcileNetworkConfig ==
  LET i == iw.key
  IN /\ iw.pc = "network"
     /\ \/ /\ InvContinue("claim", iw.obj)
           /\ NoFault
           /\ ipam' = IF ipam[i].stage = "none"
                      THEN [ipam EXCEPT ![i] = [uid |-> iw.obj.uid,
                                                stage |-> "created"]]
                      ELSE ipam
        \/ InvError(iw.obj) /\ Fault /\ UNCHANGED ipam
     /\ noInventoryWritten
     /\ UNCHANGED <<sec, queue>>

\* A claim the cache does not show yet is an error, and so is one going away.
ReadIPAddressClaim ==
  LET visible == ipam[iw.key].stage \in {"visible", "assigned"}
  IN /\ iw.pc = "claim"
     /\ \/ visible /\ InvContinue("address", [iw.obj EXCEPT !.net = "claimed"])
             /\ NoFault
        \/ ~visible /\ InvError(iw.obj) /\ NoFault
        \/ InvError(iw.obj) /\ Fault
     /\ noInventoryWritten
     /\ UNCHANGED <<sec, ipam, queue>>

\* The address may outlive a claim that goes away after it was read.
ReadIPAddress ==
  LET stage == ipam[iw.key].stage
  IN /\ iw.pc = "address"
     /\ \/ /\ stage \in {"assigned", "deleting"}
           /\ InvFinish([iw.obj EXCEPT !.net = "addressed"], FALSE)
           /\ NoFault
        \/ /\ stage # "assigned"
           /\ InvFinish([iw.obj EXCEPT !.netReady = "False"], TRUE)
           /\ NoFault
        \/ InvError(iw.obj) /\ Fault
     /\ noInventoryWritten
     /\ UNCHANGED <<sec, ipam, queue>>

\* updateInventoryWithAdoptionStatus is done when nobody owns the inventory
\* or the adoption is confirmed; otherwise it reads the selector.
ToAdoption(o) ==
  CASE o.owner = None -> InvFinish([o EXCEPT !.adopted = "False"], FALSE)
    [] o.owner # None /\ o.adopted = "True" -> InvFinish(o, FALSE)
    [] OTHER -> InvContinue("adoption", o)

(***************************************************************************)
(* updateInventoryWithPlanStatus: what it makes of the object, given the   *)
(* Secret, and when it returns an error.                                   *)
(***************************************************************************)
planStatusFails(s) == s.uid = 0 \/ s.answer = "failed"

\* Mutant: an applied plan makes the inventory ready, its state is not kept.
WithPlanStatusReadyOnly(o, s) ==
  CASE s.uid = 0 -> o
    [] s.uid # 0 /\ s.answer = "applied" -> [o EXCEPT !.ready = "True"]
    [] s.uid # 0 /\ s.answer = "failed" -> [o EXCEPT !.plan = "failed"]
    [] OTHER -> [o EXCEPT !.ready = "False"]

WithPlanStatus(o, s) ==
  CASE s.uid = 0 -> o
    [] s.uid # 0 /\ s.answer = "applied" ->
         [o EXCEPT !.plan = "applied", !.ready = "True"]
    [] s.uid # 0 /\ s.answer = "failed" -> [o EXCEPT !.plan = "failed"]
    [] OTHER -> [o EXCEPT !.ready = "False"]

UpdateInventoryWithPlanStatus ==
  LET s == sec[iw.key]
      o == WithPlanStatus(iw.obj, s)
  IN /\ iw.pc = "planStatus"
     /\ \/ planStatusFails(s) /\ InvError(o) /\ NoFault
        \/ ~planStatusFails(s) /\ ToAdoption(o) /\ NoFault
        \/ InvError(iw.obj) /\ Fault
     /\ noInventoryWritten
     /\ UNCHANGED <<sec, ipam, queue>>

(***************************************************************************)
(* updateInventoryWithAdoptionStatus, against the cached selector.  The    *)
(* deadline runs from the last transition to Unknown: it cannot have       *)
(* passed when this very call made that transition.                        *)
(***************************************************************************)
removeSelectorOwnerShip(o) == [o EXCEPT !.owner = None, !.adopted = "False"]

\* Mutant: the inventory is never freed by its deadline.
AdoptionOfForever(i, o, s, passed) ==
  CASE s.phase # "gone" /\ s.ref = None -> [o EXCEPT !.adopted = "Unknown"]
    [] s.phase # "gone" /\ s.ref \notin {None, i} -> removeSelectorOwnerShip(o)
    [] s.phase # "gone" /\ s.ref = i -> [o EXCEPT !.adopted = "True"]
    [] OTHER -> [o EXCEPT !.adopted = "False"]

\* Mutant: any reference of the owner is taken for one to this inventory.
AdoptionOfAny(i, o, s, passed) ==
  CASE s.phase # "gone" /\ s.ref = None /\ ~passed ->
         [o EXCEPT !.adopted = "Unknown"]
    [] s.phase # "gone" /\ s.ref = None /\ passed -> removeSelectorOwnerShip(o)
    [] s.phase # "gone" /\ s.ref # None -> [o EXCEPT !.adopted = "True"]
    [] OTHER -> [o EXCEPT !.adopted = "False"]

AdoptionOf(i, o, s, passed) ==
  CASE s.phase # "gone" /\ s.ref = None /\ ~passed ->
         [o EXCEPT !.adopted = "Unknown"]
    [] s.phase # "gone" /\ s.ref = None /\ passed -> removeSelectorOwnerShip(o)
    [] s.phase # "gone" /\ s.ref \notin {None, i} -> removeSelectorOwnerShip(o)
    [] s.phase # "gone" /\ s.ref = i -> [o EXCEPT !.adopted = "True"]
    [] OTHER -> [o EXCEPT !.adopted = "False"]

UpdateInventoryWithAdoptionStatus ==
  LET i == iw.key
      o == iw.obj
      passed == o.adopted = "Unknown" /\ i \in late
      checked == AdoptionOf(i, o, selCache[o.owner], passed)
  IN /\ iw.pc = "adoption"
     /\ \/ InvFinish(checked, checked.adopted # "True") /\ NoFault
        \/ InvFinish([o EXCEPT !.adopted = "False"], TRUE) /\ Fault
     /\ noInventoryWritten
     /\ UNCHANGED <<sec, ipam, queue>>

----------------------------------------------------------------------------
(***************************************************************************)
(* reconcileResetPlanSecret: the Secret must be the object's own; another  *)
(* plan is replaced by the reset plan, and the reset plan is waited for.   *)
(***************************************************************************)
ReconcileResetPlanSecret ==
  LET s == sec[iw.key]
      owned == s.uid = iw.obj.uid
  IN /\ iw.pc = "reset"
     /\ \/ ~owned /\ InvError(iw.obj) /\ NoFault
        \/ /\ owned /\ s.plan # "reset"
           /\ iw' = [iw EXCEPT !.pc = "resetWrite", !.answer = s.answer]
           /\ NoFault
        \/ owned /\ s.plan = "reset" /\ InvContinue("resetStatus", iw.obj) /\ NoFault
        \/ InvError(iw.obj) /\ Fault
     /\ noInventoryWritten
     /\ UNCHANGED <<sec, ipam, queue>>

\* The finalizer goes when the object, so updated, says Applied.
ReleaseAfterReset(o) ==
  IF o.plan = "applied" THEN [o EXCEPT !.finalizer = FALSE] ELSE o

ResetStatus ==
  LET s == sec[iw.key]
      o == WithPlanStatus(iw.obj, s)
  IN /\ iw.pc = "resetStatus"
     /\ \/ planStatusFails(s) /\ InvError(o) /\ NoFault
        \/ ~planStatusFails(s) /\ InvFinish(ReleaseAfterReset(o), FALSE) /\ NoFault
        \/ InvError(iw.obj) /\ Fault
     /\ noInventoryWritten
     /\ UNCHANGED <<sec, ipam, queue>>

(***************************************************************************)
(* updatePlanSecretWithReset: a merge patch of what differs from the       *)
(* Secret read before, so an answer already cleared then is not cleared    *)
(* again.  The plan status is cleared in the object only.                  *)
(***************************************************************************)
\* The reset plan of a managed or an unmanaged system: its type alone counts.
newResetPlan == "reset"

ResetSecret(s) ==
  [s EXCEPT !.plan = newResetPlan, !.by = None,
            !.answer = IF iw.answer = "cleared" THEN @ ELSE "cleared"]

UpdatePlanSecretWithReset ==
  LET i == iw.key
  IN /\ iw.pc = "resetWrite"
     /\ \/ /\ sec[i].uid # 0
           /\ sec' = [sec EXCEPT ![i] = ResetSecret(@)]
           /\ queue' = queue \cup {i}
           /\ InvFinish([iw.obj EXCEPT !.plan = "waiting"], FALSE)
           /\ NoFault
        \/ sec[i].uid = 0 /\ InvError(iw.obj) /\ NoFault /\ UNCHANGED <<sec, queue>>
        \/ InvError(iw.obj) /\ Fault /\ UNCHANGED <<sec, queue>>
     /\ noInventoryWritten
     /\ UNCHANGED ipam

----------------------------------------------------------------------------
(***************************************************************************)
(* The two patches that end Reconcile.  Both carry the resourceVersion     *)
(* read at the start, so when the first one changes the object the second, *)
(* of the status, is refused: the status is lost and the key requeued.     *)
(***************************************************************************)
WithMeta(old, o) ==
  [old EXCEPT !.finalizer = o.finalizer, !.owner = o.owner, !.net = o.net]
WithStatus(old, o) ==
  [old EXCEPT !.plan = o.plan, !.ready = o.ready, !.netReady = o.netReady,
              !.adopted = o.adopted]

\* Mutant: the key is requeued after the worker has forgotten it.
InvDoneForgotten(again) ==
  /\ iw' = IdleInvWorker
  /\ queue' = IF again THEN queue \cup {IdleInvWorker.key} ELSE queue

\* The key is free again and, if again, back in the queue.
InvDone(again) ==
  /\ iw' = IdleInvWorker
  /\ queue' = IF again THEN queue \cup {iw.key} ELSE queue

\* The object on the server becomes o.
InvStore(i, o, keys) ==
  /\ inv' = [inv EXCEPT ![i] = o]
  /\ Written(i, keys, {sw.key})
  /\ late' = IF o.adopted # inv[i].adopted THEN late \ {i} ELSE late
  /\ adopter' = IF o.adopted = "True" /\ inv[i].adopted # "True"
                THEN [adopter EXCEPT ![i][o.uid] = o.owner]
                ELSE adopter

InvNothingStored ==
  /\ UNCHANGED <<inv, stale, note, late, adopter>>
  /\ outdated' = outdated \ {iw.key}

\* The copy was not the latest version, or the API server did not answer.
InvConflict ==
  /\ iw.pc = "commit"
  /\ \/ iw.key \in outdated /\ NoFault
     \/ Fault
  /\ InvNothingStored
  /\ InvDone(TRUE)
  /\ invOthersUnchanged
  /\ UNCHANGED <<sec, ipam>>

\* Removing the finalizer of an object up for deletion removes the object.
InvRelease ==
  LET i == iw.key
  IN /\ iw.pc = "commit" /\ i \notin outdated
     /\ iw.obj.deleting /\ inv[i].finalizer /\ ~iw.obj.finalizer
     /\ InvStore(i, Gone(inv[i]), ObjectKeys(i, inv[i]))
     /\ InvDone(iw.again)
     /\ invOthersUnchanged
     /\ UNCHANGED <<sec, ipam, faults>>

\* The first patch changes metadata or spec: the status patch conflicts.
InvPatchMeta ==
  LET i == iw.key
      o == WithMeta(inv[i], iw.obj)
  IN /\ iw.pc = "commit" /\ i \notin outdated
     /\ o # inv[i] /\ ~(o.deleting /\ ~o.finalizer)
     /\ InvStore(i, o, UpdateKeys(i, inv[i], o))
     /\ InvDone(TRUE)
     /\ invOthersUnchanged
     /\ UNCHANGED <<sec, ipam, faults>>

\* Only the status changes.
InvPatchStatus ==
  LET i == iw.key
      o == WithStatus(inv[i], iw.obj)
  IN /\ iw.pc = "commit" /\ i \notin outdated
     /\ WithMeta(inv[i], iw.obj) = inv[i]
     /\ IF o # inv[i]
        THEN InvStore(i, o, UpdateKeys(i, inv[i], o))
        ELSE InvNothingStored
     /\ InvDone(iw.again)
     /\ invOthersUnchanged
     /\ UNCHANGED <<sec, ipam, faults>>

\* The first patch fails on the way, the status patch is still sent.
InvPatchStatusAlone ==
  LET i == iw.key
      o == WithStatus(inv[i], iw.obj)
  IN /\ iw.pc = "commit" /\ i \notin outdated
     /\ Fault
     /\ WithMeta(inv[i], iw.obj) # inv[i] /\ o # inv[i]
     /\ InvStore(i, o, UpdateKeys(i, inv[i], o))
     /\ InvDone(TRUE)
     /\ invOthersUnchanged
     /\ UNCHANGED <<sec, ipam>>

InvStep ==
  \/ CreatePlanSecret
  \/ ReconcileNetworkConfig
  \/ ReadIPAddressClaim
  \/ ReadIPAddress
  \/ UpdateInventoryWithPlanStatus
  \/ UpdateInventoryWithAdoptionStatus
  \/ ReconcileResetPlanSecret
  \/ ResetStatus
  \/ UpdatePlanSecretWithReset
  \/ InvConflict
  \/ InvRelease
  \/ InvPatchMeta
  \/ InvPatchStatus
  \/ InvPatchStatusAlone

InvNext == InvStep \/ \E i \in Inventories : InvReconcile(i)
=============================================================================
