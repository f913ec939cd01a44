---------------------- MODULE MachineInventorySelector ----------------------
(***************************************************************************)
(* The MachineInventorySelector controller: one worker that looks for a    *)
(* free inventory matching its selector, makes itself the owner, waits for *)
(* the inventory to confirm, writes the bootstrap plan and patches the     *)
(* status of the selector.                                                 *)
(***************************************************************************)
EXTENDS Cluster

selOthersUnchanged ==
  UNCHANGED <<invCache, selCache, ipam, dataReady, iw, adopter>>

\* What a step that writes no object leaves alone.
noSelectorWritten ==
  /\ selOthersUnchanged
  /\ UNCHANGED <<inv, sel, stale, outdated, note, late>>

SelContinue(pc, o) == sw' = [sw EXCEPT !.pc = pc, !.obj = o]

\* The reconcile ends with the object o; again: an error or a RequeueAfter.
SelFinish(o, again) ==
  sw' = [sw EXCEPT !.pc = "commit", !.obj = o, !.again = again]

\* Mutant: an error ends the reconcile and is not retried.
SelErrorDropped(o) == SelFinish(o, FALSE)

SelError(o) == SelFinish(o, TRUE)

----------------------------------------------------------------------------
\* Reconcile reads the cached selector; one up for deletion is left alone.
SelReconcile(s) ==
  LET o == selCache[s]
      first == CASE o.phase = "deleting" -> "commit"
                 [] o.phase # "deleting" /\ o.ref = None -> "adopt"
                 [] OTHER -> "check"
  IN /\ sw.pc = "idle"
     /\ s \in queue
     /\ queue' = queue \ {s}
     /\ IF o.phase # "gone"
        THEN /\ sw' = [pc |-> first, key |-> s, obj |-> o, again |-> FALSE]
             /\ outdated' = outdated \cup ({s} \cap stale)
        ELSE UNCHANGED <<sw, outdated>>
     /\ selOthersUnchanged
     /\ UNCHANGED <<inv, sel, stale, note, late, sec, faults>>

(***************************************************************************)
(* findAndAdoptInventory: the first free inventory of the cached list, in  *)
(* any order, is patched with the selector as owner.  The patch is refused *)
(* when the listed copy is not the latest version.                         *)
(***************************************************************************)
\* Mutant: an inventory that somebody owns is taken as well.
NeverOwned(o) == FALSE

isAlreadyOwned(o) == o.owner # None

Adoptable(s) ==
  {i \in Inventories : /\ <<s, i>> \in Matches
                       /\ invCache[i].exists
                       /\ ~invCache[i].deleting
                       /\ ~isAlreadyOwned(invCache[i])}

\* Mutant: a patch without the listed version is accepted on any version.
LatestUnlocked(i) == TRUE

\* The listed copy of i is the latest version: its patch is accepted.
Latest(i) == i \notin stale

Adopting(o, i) == [o EXCEPT !.ref = i, !.invReady = "Unknown"]

FindAndAdoptInventory ==
  LET s == sw.key
  IN /\ sw.pc = "adopt"
     /\ \/ /\ Adoptable(s) = {}
           /\ SelContinue("check", sw.obj)
           /\ UNCHANGED <<inv, stale, outdated, note>>
           /\ NoFault
        \/ \E i \in Adoptable(s) :
             LET owned == [inv[i] EXCEPT !.owner = s]
             IN /\ Latest(i)
                /\ inv' = [inv EXCEPT ![i] = owned]
                /\ Written(i, UpdateKeys(i, inv[i], owned), Held)
                /\ SelContinue("check", Adopting(sw.obj, i))
                /\ NoFault
        \/ /\ Adoptable(s) # {}
           /\ SelError(sw.obj)
           /\ UNCHANGED <<inv, stale, outdated, note>>
           /\ \/ Adoptable(s) \cap stale # {} /\ NoFault
              \/ Fault
     /\ selOthersUnchanged
     /\ UNCHANGED <<sel, late, sec, queue>>

(***************************************************************************)
(* updateAdoptionStatus, against the cached inventory.  The deadline runs  *)
(* from the last transition of InventoryReady: it cannot have passed when  *)
(* this very reconcile set the reference.                                  *)
(***************************************************************************)
\* Mutant: the owner reference alone is taken for the confirmation.
OrphanUnowned(v) == v.owner = None

OrphanInventory(v) == v.owner = None \/ v.adopted # "True"

RestartAdoption(o) == [o EXCEPT !.ref = None, !.invReady = "False"]

\* Mutant: a selector that is adopting waits without a deadline.
AdoptionStatusForever(s, o, v, passed) ==
  CASE ~v.exists -> [o EXCEPT !.invReady = "False"]
    [] v.exists /\ v.owner \notin {None, s} -> RestartAdoption(o)
    [] v.exists /\ v.owner \in {None, s} /\ OrphanInventory(v) ->
         [o EXCEPT !.invReady = "Unknown"]
    [] OTHER -> [o EXCEPT !.invReady = "True", !.refUid = v.uid]

AdoptionStatus(s, o, v, passed) ==
  CASE ~v.exists -> [o EXCEPT !.invReady = "False"]
    [] v.exists /\ v.owner \notin {None, s} -> RestartAdoption(o)
    [] v.exists /\ v.owner \in {None, s} /\ OrphanInventory(v) /\ passed ->
         RestartAdoption(o)
    [] v.exists /\ v.owner \in {None, s} /\ OrphanInventory(v) /\ ~passed ->
         [o EXCEPT !.invReady = "Unknown"]
    [] OTHER -> [o EXCEPT !.invReady = "True", !.refUid = v.uid]

\* Mutant: the plan is written before the adoption is validated.
StepBeforeAdoption(o) ==
  CASE o.invReady # "False" /\ ~o.boot /\ o.ref # None -> "plan"
    [] o.boot /\ o.ref # None -> "addresses"
    [] OTHER -> "commit"

\* The calls that follow return at once unless their conditions are set.
StepAfterAdoption(o) ==
  CASE o.invReady = "True" /\ ~o.boot -> "plan"
    [] o.boot /\ o.ref # None -> "addresses"
    [] OTHER -> "commit"

\* Mutant: a finished adoption is validated over and over.
AdoptionSearching(o) == o.ref = None

\* Nothing to validate: no inventory yet, or one that is adopted already.
AdoptionSettled(o) == o.ref = None \/ o.invReady = "True"

UpdateAdoptionStatus ==
  LET s == sw.key
      o == sw.obj
      settled == AdoptionSettled(o)
      passed == s \in late /\ o.ref = sel[s].ref
      checked == AdoptionStatus(s, o, invCache[o.ref], passed)
  IN /\ sw.pc = "check"
     /\ \/ /\ settled
           /\ sw' = [sw EXCEPT !.pc = StepAfterAdoption(o),
                               !.again = (o.ref = None)]
           /\ NoFault
        \/ /\ ~settled /\ checked.invReady = "False"
           /\ SelError(checked)
           /\ NoFault
        \/ /\ ~settled /\ checked.invReady # "False"
           /\ sw' = [sw EXCEPT !.pc = StepAfterAdoption(checked),
                               !.obj = checked,
                               !.again = (checked.invReady = "Unknown")]
           /\ NoFault
        \/ ~settled /\ SelError([o EXCEPT !.invReady = "False"]) /\ Fault
     /\ noSelectorWritten
     /\ UNCHANGED <<sec, queue>>

(***************************************************************************)
(* updatePlanSecretWithBootstrap: the inventory is read from the cache by  *)
(* name, the bootstrap data of the CAPI Machine and the Secret from the    *)
(* server; then the Secret is patched, with no precondition.               *)
(***************************************************************************)
\* newBootstrapPlan needs the owner Machine and its bootstrap data; of the plan
\* it makes of them, only the type is told apart.
newBootstrapPlanFails(s) == s \notin dataReady

ReadBootstrap ==
  LET s == sw.key
      v == invCache[sw.obj.ref]
      missing == ~v.exists \/ (v.plan # "nil" /\ newBootstrapPlanFails(s))
                 \/ (v.plan # "nil" /\ sec[sw.obj.ref].uid = 0)
  IN /\ sw.pc = "plan"
     /\ \/ v.exists /\ v.plan = "nil" /\ SelFinish(sw.obj, sw.again) /\ NoFault
        \/ missing /\ SelError(sw.obj) /\ NoFault
        \/ /\ v.plan # "nil" /\ ~missing
           /\ SelContinue("planWrite", sw.obj)
           /\ NoFault
        \/ SelError(sw.obj) /\ Fault
     /\ noSelectorWritten
     /\ UNCHANGED <<sec, queue>>

BootstrapSecret(s, secret) == [secret EXCEPT !.plan = "bootstrap", !.by = s]

UpdatePlanSecretWithBootstrap ==
  LET i == sw.obj.ref
  IN /\ sw.pc = "planWrite"
     /\ \/ /\ sec[i].uid # 0
           /\ sec' = [sec EXCEPT ![i] = BootstrapSecret(sw.key, @)]
           /\ queue' = queue \cup {i}
           /\ SelContinue("addresses", [sw.obj EXCEPT !.boot = TRUE])
           /\ NoFault
        \/ sec[i].uid = 0 /\ SelError(sw.obj) /\ NoFault /\ UNCHANGED <<sec, queue>>
        \/ SelError(sw.obj) /\ Fault /\ UNCHANGED <<sec, queue>>
     /\ noSelectorWritten

(***************************************************************************)
(* setInvetorySelectorAddresses: appends the addresses of the inventory to *)
(* those already there, on every reconcile, and reports the selector ready.*)
(***************************************************************************)
WithAddresses(o) ==
  [o EXCEPT !.ready = TRUE,
            !.addresses = IF @ < MaxAddresses THEN @ + 1 ELSE @]

SetInventorySelectorAddresses ==
  LET found == invCache[sw.obj.ref].exists
  IN /\ sw.pc = "addresses"
     /\ \/ found /\ SelFinish(WithAddresses(sw.obj), sw.again) /\ NoFault
        \/ ~found /\ SelError(sw.obj) /\ NoFault
        \/ SelError(sw.obj) /\ Fault
     /\ noSelectorWritten
     /\ UNCHANGED <<sec, queue>>

----------------------------------------------------------------------------
(***************************************************************************)
(* The status patch that ends Reconcile: refused when the copy was not the *)
(* latest version, or lost.  An update of the status alone wakes no one.   *)
(***************************************************************************)
SelDone(again) ==
  /\ sw' = IdleSelWorker
  /\ queue' = IF again THEN queue \cup {sw.key} ELSE queue

SelConflict ==
  /\ sw.pc = "commit"
  /\ \/ sw.key \in outdated /\ NoFault
     \/ Fault
  /\ outdated' = outdated \ {sw.key}
  /\ SelDone(TRUE)
  /\ selOthersUnchanged
  /\ UNCHANGED <<inv, sel, stale, note, late, sec>>

SelPatchStatus ==
  LET s == sw.key
      o == sw.obj
  IN /\ sw.pc = "commit" /\ s \notin outdated
     /\ IF o # sel[s]
        THEN /\ sel' = [sel EXCEPT ![s] = o]
             /\ Written(s, {}, {iw.key})
             /\ late' = IF o.invReady # sel[s].invReady THEN late \ {s} ELSE late
        ELSE /\ UNCHANGED <<sel, stale, note, late>>
             /\ outdated' = outdated \ {s}
     /\ SelDone(sw.again)
     /\ selOthersUnchanged
     /\ UNCHANGED <<inv, sec, faults>>

SelStep ==
  \/ FindAndAdoptInventory
  \/ UpdateAdoptionStatus
  \/ ReadBootstrap
  \/ UpdatePlanSecretWithBootstrap
  \/ SetInventorySelectorAddresses
  \/ SelConflict
  \/ SelPatchStatus

SelNext == SelStep \/ \E s \in Selectors : SelReconcile(s)
=============================================================================
