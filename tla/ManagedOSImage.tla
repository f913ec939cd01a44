--------------------------- MODULE ManagedOSImage ---------------------------
(***************************************************************************)
(* The ManagedOSVersion and the ManagedOSImage controllers.  A version     *)
(* that is being deleted is held by its finalizer as long as an image      *)
(* carries its label; an image is turned into a Fleet Bundle.  Both take   *)
(* what they reconcile from their work queue; a reconcile that fails stays *)
(* queued.                                                                 *)
(***************************************************************************)
EXTENDS OSCluster

\* The channel and its Pod.
ChannelSideUnchanged ==
  UNCHANGED <<chVars, podVars, queued, waits, listed, blind, moves>>

----------------------------------------------------------------------------
(***************************************************************************)
(* ManagedOSVersion: the version is read from the server, the images that  *)
(* carry its label from the cache.                                         *)
(***************************************************************************)
\* Mutant: an image of any version holds it.
UsersOfAny(v) == {m \in Images : imgCache[m].phase = "live"
                                   /\ imgCache[m].label # None}

Users(v) == {m \in Images : imgCache[m].phase = "live"
                              /\ imgCache[m].label = v}

\* The version after its reconcile: while it is used, it is as before.
Reconciled(v) ==
  LET o == vers[v]
  IN  IF o.exists /\ ~o.deleting THEN [o EXCEPT !.finalizer = TRUE]
      ELSE IF o.deleting /\ Users(v) = {} THEN NoVersion
      ELSE o

\* Nothing is requeued: the event of its own patch queues the version again,
\* and one that is held waits for an event of an image that names it.
ReconcileVersion(v) ==
  /\ v \in versQueue
  /\ vers' = [vers EXCEPT ![v] = Reconciled(v)]
  /\ versQueue' = IF Reconciled(v) = vers[v] THEN versQueue \ {v} ELSE versQueue
  /\ NoFault
  /\ UNCHANGED imgVars
  /\ ChannelSideUnchanged

----------------------------------------------------------------------------
(***************************************************************************)
(* ManagedOSImage: newFleetBundleResources reads the version, labels the   *)
(* image and picks the upgrade image; the Bundle is created, or updated    *)
(* once FleetBundleCreation is True.                                       *)
(***************************************************************************)
VersionMissing(c) == c.want # None /\ ~vers[c.want].exists

Labelled(c) == IF c.want = None THEN c ELSE [c EXCEPT !.label = c.want]

\* Spec.UpgradeContainer is completed in place, and patched with the rest.
Pinned(c) ==
  IF c.custom /\ c.pin = None THEN [c EXCEPT !.pin = c.want] ELSE c

\* The upgrade image of the Bundle.
UpgradeImage(c) == IF c.custom THEN Pinned(c).pin ELSE c.want

\* Mutant: a Bundle that exists is not updated.
BundleKept(m, c) ==
  IF bundle[m] = "absent" THEN UpgradeImage(c) ELSE bundle[m]

\* createFleetBundle accepts a Bundle that exists already, as it is.
BundleFor(m, c) ==
  IF c.created \/ bundle[m] = "absent" THEN UpgradeImage(c) ELSE bundle[m]

(***************************************************************************)
(* The closing patches of image m, refused when the cached copy is stale.  *)
(* Both have the resourceVersion of that copy: the status is refused when  *)
(* the first patch changes the label or the spec.                          *)
(***************************************************************************)
MetaOf(m, c) == [c EXCEPT !.created = imgCache[m].created]

Refused(m, c) == imgCache[m] # img[m] \/ MetaOf(m, c) # imgCache[m]

Stored(m, c) ==
  IF imgCache[m] # img[m] THEN img[m]
  ELSE IF Refused(m, c) THEN MetaOf(m, c) ELSE c

FinishImage(m, c) ==
  /\ ImageEvent(m, Stored(m, c))
  /\ UNCHANGED <<imgCache, versVars>>
  /\ ChannelSideUnchanged

\* The cached image exists, and is not removed while it is reconciled.
Live(m) == imgCache[m].phase = "live" /\ img[m].phase = "live"

\* Nothing is changed when the version is gone or the Bundle is not found:
\* the image stays queued.  It does so after a refused patch, too, and the
\* event of a Bundle that changes queues it again.
ReconcileImage(m) ==
  LET c == imgCache[m]
      done == [Pinned(Labelled(c)) EXCEPT !.created = TRUE]
  IN  /\ m \in imgQueue /\ Live(m)
      /\ ~VersionMissing(c)
      /\ c.created => bundle[m] # "absent"
      /\ bundle' = [bundle EXCEPT ![m] = BundleFor(m, c)]
      /\ FinishImage(m, done)
      /\ imgQueue' = IF Refused(m, done) \/ bundle' # bundle THEN imgQueue
                     ELSE imgQueue \ {m}
      /\ NoFault

\* The Bundle cannot be written; the label is stored all the same.
BundleFails(m) ==
  LET c == imgCache[m]
  IN  /\ m \in imgQueue /\ Live(m)
      /\ ~VersionMissing(c)
      /\ FinishImage(m, Pinned(Labelled(c)))
      /\ Fault
      /\ UNCHANGED <<imgQueue, bundle>>

\* The Bundle is written and nothing else.
ImageNotPatched(m) ==
  LET c == imgCache[m]
  IN  /\ m \in imgQueue /\ Live(m)
      /\ ~VersionMissing(c)
      /\ c.created => bundle[m] # "absent"
      /\ bundle' = [bundle EXCEPT ![m] = BundleFor(m, c)]
      /\ Fault
      /\ UNCHANGED <<img, imgCache, imgNote, imgQueue, versVars>>
      /\ ChannelSideUnchanged

ImageNext ==
  \/ \E v \in Versions : ReconcileVersion(v)
  \/ \E m \in Images : ReconcileImage(m) \/ BundleFails(m) \/ ImageNotPatched(m)
=============================================================================
