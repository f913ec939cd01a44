---------------------- MODULE ManagedOSVersionChannel ----------------------
(***************************************************************************)
(* The ManagedOSVersionChannel controller.  One action per path through    *)
(* its Reconcile; each takes the channel from the queue, reads the cached  *)
(* copy c of it and, but for a crash, patches the status at the end.       *)
(***************************************************************************)
EXTENDS OSCluster

(***************************************************************************)
(* The closing patch stores c unless the copy the reconcile started from   *)
(* is not the latest any more.  result is what Reconcile returns: an error *)
(* (the rate limiter queues the channel again), a RequeueAfter, or none; a *)
(* refused patch is an error as well.  A delay of the queue is as long as  *)
(* the worker takes; only the interval is told apart.                      *)
(***************************************************************************)
FinishChannel(c, result) ==
  \E stored \in {chCache = ch, FALSE} :
    /\ ch' = IF stored THEN c ELSE ch
    /\ queued' = (result \in {"error", "poll"} \/ ~stored)
    /\ waits' = (waits \/ result = "interval")
    /\ (chCache = ch /\ ~stored) => faults < MaxFaults
    /\ faults' = IF chCache = ch /\ ~stored THEN faults + 1 ELSE faults

\* The Pod after a Delete: at once if it has ended, after its grace period
\* otherwise.
PodDeletions(p) ==
  CASE p.phase = "absent" -> {NoPod}
    [] p.phase \in {"Succeeded", "Failed"} -> {NoPod}
    [] OTHER -> {NoPod, [p EXCEPT !.deleting = TRUE]}

Valid(c)   == c.spec.valid
Enabled(c) == Valid(c) /\ c.spec.enabled

\* First reconcile, a new generation, or the interval has been reached.
StartsSync(c) == c.ready = "none" \/ c.synced # c.gen \/ c.due

\* Ready is True with these two reasons.
ReadyTrue(c) == c.ready \in {"Synced", "ChannelDisabled"}

\* Mutant: the attempts are not limited.
GaveUpNever(c) == FALSE

GaveUp(c) == c.attempts > MaxFailures

\* Mutant: a new generation gives one attempt back.
FreshRetry(c) == [c EXCEPT !.attempts = @ - 1, !.synced = c.gen]

Fresh(c) == [c EXCEPT !.attempts = 0, !.synced = c.gen]

\* LastSyncedTime becomes now.
SyncedNow(c) == [c EXCEPT !.last = TRUE, !.due = FALSE]

Failed(c, reason) == [c EXCEPT !.ready = reason, !.attempts = @ + 1]

(***************************************************************************)
(* createSyncerPod, the Pod on the server being p.  Any failure, that of a *)
(* name already taken included, deletes what has the name.                 *)
(***************************************************************************)
PodStarted(c) == FinishChannel([SyncedNow(c) EXCEPT !.ready = "Syncing"], "none")

\* Mutant: the time is noted once the Pod exists.
createSyncerPodLate(c, p) ==
  \/ p.phase = "absent" /\ pod' = NewPod /\ PodStarted(c)
  \/ /\ pod' \in PodDeletions(p)
     /\ FinishChannel(Failed(c, "FailedToCreatePod"), "error")


createSyncerPod(c, p) ==
  \/ p.phase = "absent" /\ pod' = NewPod /\ PodStarted(c)
  \/ /\ pod' \in PodDeletions(p)
     /\ FinishChannel(Failed(SyncedNow(c), "FailedToCreatePod"), "error")

\* What the reconciles that touch no version leave alone.
noVersionTouched == UNCHANGED <<versVars, listed, blind>>

\* What every reconcile of the channel leaves alone.
ChannelOthersUnchanged ==
  UNCHANGED <<chCache, chNote, podCache, podNote, imgVars, moves>>

----------------------------------------------------------------------------
(***************************************************************************)
(* Channels that are not synced.                                           *)
(***************************************************************************)
ReconcileInvalid ==
  /\ queued /\ ~Valid(chCache)
  /\ FinishChannel([chCache EXCEPT !.ready = "InvalidConfiguration"], "none")
  /\ noVersionTouched
  /\ UNCHANGED pod
  /\ ChannelOthersUnchanged

\* Versions labelled with the channel's name.
Owned == {v \in Versions : vers[v].exists /\ vers[v].own}

\* deprecateVersion for each version of D; those of kept are flagged and
\* cannot be deleted.
Deprecated(D, kept, prune) ==
  [v \in Versions |->
    IF v \notin D THEN vers[v]
    ELSE LET flagged == [vers[v] EXCEPT !.flag = TRUE]
         IN  IF prune /\ v \notin kept THEN Deleted(flagged) ELSE flagged]

\* What may be kept when deprecateVersion breaks off: one version at most,
\* and only where versions are deleted.
KeptOf(D, prune) == {{}} \cup IF prune THEN {{v} : v \in D} ELSE {}

(***************************************************************************)
(* deleteSyncerPod looks for the Pod in the cache and deletes what has its *)
(* name on the server.                                                     *)
(***************************************************************************)
\* Mutant: the Pod is left to end by itself.
deleteSyncerPodNever(c) ==
  /\ UNCHANGED pod
  /\ FinishChannel([c EXCEPT !.ready = "ChannelDisabled"], "none")

deleteSyncerPod(c) ==
  LET disabled == [c EXCEPT !.ready = "ChannelDisabled"]
  IN  IF podCache.phase = "absent"
      THEN UNCHANGED pod /\ FinishChannel(disabled, "none")
      ELSE IF pod.phase = "absent"
           THEN UNCHANGED pod /\ FinishChannel(c, "error")
           ELSE pod' \in PodDeletions(pod) /\ FinishChannel(disabled, "none")

\* An unreadable list of versions counts as an empty one.
ReconcileDisabled ==
  /\ queued /\ Valid(chCache) /\ ~chCache.spec.enabled
  /\ WriteVersions(Deprecated(Owned, {}, chCache.spec.prune))
  /\ deleteSyncerPod(chCache)
  /\ UNCHANGED <<listed, blind>>
  /\ ChannelOthersUnchanged

\* The first deprecateVersion that fails ends the reconcile.
DeprecationFails ==
  /\ queued /\ Valid(chCache) /\ ~chCache.spec.enabled
  /\ \E D \in SUBSET Owned :
     \E kept \in KeptOf(D, chCache.spec.prune) :
       WriteVersions(Deprecated(D, kept, chCache.spec.prune))
  /\ queued' = TRUE
  /\ Fault
  /\ UNCHANGED <<ch, pod, waits, listed, blind>>
  /\ ChannelOthersUnchanged

----------------------------------------------------------------------------
(***************************************************************************)
(* Synchronizations.                                                       *)
(***************************************************************************)
StartSync ==
  /\ queued /\ Enabled(chCache) /\ StartsSync(chCache)
  /\ createSyncerPod(Fresh(chCache), pod)
  /\ noVersionTouched
  /\ ChannelOthersUnchanged

\* Nothing to do until the interval has passed: RequeueAfter is computed
\* from LastSyncedTime.
WaitForInterval ==
  /\ queued /\ Enabled(chCache) /\ ~StartsSync(chCache)
  /\ ReadyTrue(chCache) \/ GaveUp(chCache)
  /\ FinishChannel(chCache, "interval")
  /\ noVersionTouched
  /\ UNCHANGED pod
  /\ ChannelOthersUnchanged

Watches(c) == Enabled(c) /\ ~StartsSync(c) /\ ~ReadyTrue(c) /\ ~GaveUp(c)

\* The Pod is not in the cache, and no synchronization is known to be
\* ongoing.
PodNotFound ==
  /\ queued /\ Watches(chCache)
  /\ podCache.phase = "absent" /\ chCache.ready # "Syncing"
  /\ createSyncerPod(chCache, pod)
  /\ noVersionTouched
  /\ ChannelOthersUnchanged

\* The Pod of an ongoing synchronization is not in the cache, or its Get
\* fails in another way, whatever is there.
PodUnreadable ==
  /\ queued /\ Watches(chCache)
  /\ FinishChannel(Failed(chCache, "FailedToSync"), "error")
  /\ noVersionTouched
  /\ UNCHANGED pod
  /\ ChannelOthersUnchanged

\* A Pod with another image is deleted and its successor created at once.
PodOutdated ==
  /\ queued /\ Watches(chCache) /\ podCache.phase # "absent" /\ podCache.old
  /\ \E p \in PodDeletions(pod) : createSyncerPod(chCache, p)
  /\ noVersionTouched
  /\ ChannelOthersUnchanged

PodAt(phases) ==
  /\ queued /\ Watches(chCache)
  /\ podCache.phase \in phases /\ ~podCache.old

\* handleSyncPod: pending or running.
PodOngoing ==
  /\ PodAt({"Ongoing"})
  /\ FinishChannel([chCache EXCEPT !.ready = "Syncing"], "poll")
  /\ noVersionTouched
  /\ UNCHANGED pod
  /\ ChannelOthersUnchanged

handleFailedSync ==
  /\ pod' \in PodDeletions(pod)
  /\ FinishChannel(Failed(SyncedNow(chCache), "FailedToSync"), "error")

PodFailed ==
  /\ PodAt({"Failed"})
  /\ handleFailedSync
  /\ noVersionTouched
  /\ ChannelOthersUnchanged

(***************************************************************************)
(* createManagedOSVersions.  seen are the versions the List returned;      *)
(* those of lost could not be written.  A version that exists unseen, of   *)
(* the channel or of somebody else, cannot be created.                     *)
(***************************************************************************)
Unwritten(listing, seen, lost) ==
  lost \cup {v \in listing \ seen : vers[v].exists}

\* Mutant: a version that is listed again keeps its annotations.
WrittenKeepingFlag(v) == IF vers[v].exists THEN vers[v] ELSE NewVersion

WrittenVersion(v) ==
  IF vers[v].exists THEN [vers[v] EXCEPT !.flag = FALSE] ELSE NewVersion

\* The versions once W are written and D deprecated but for what is kept.
VersionsAfter(W, D, kept) ==
  [v \in Versions |->
    IF v \in W THEN WrittenVersion(v)
               ELSE Deprecated(D, kept, chCache.spec.prune)[v]]

\* ReadPodLogs needs the Pod of that name to have ended; its logs may be
\* unreadable, or not the JSON of a list of versions.
LogsUnreadable ==
  /\ PodAt({"Succeeded"})
  /\ handleFailedSync
  /\ noVersionTouched
  /\ ChannelOthersUnchanged

VersionsNotWritten ==
  /\ PodAt({"Succeeded"}) /\ pod.phase = "Succeeded"
  /\ \E listing \in Listings, seen \in {Owned, {}} :
     \E lost \in SUBSET listing :
       LET unwritten == Unwritten(listing, seen, lost)
           W == listing \ unwritten
       IN  /\ unwritten # {}
           /\ WriteVersions(VersionsAfter(W, {}, {}))
           /\ listed' = listed \cup W
  /\ handleFailedSync
  /\ UNCHANGED blind
  /\ ChannelOthersUnchanged

OrphansNotFlagged ==
  /\ PodAt({"Succeeded"}) /\ pod.phase = "Succeeded"
  /\ \E listing \in Listings :
     \E D \in SUBSET (Owned \ listing) :
     \E kept \in KeptOf(D, chCache.spec.prune) :
       /\ D # Owned \ listing \/ kept # {}
       /\ Unwritten(listing, Owned, {}) = {}
       /\ WriteVersions(VersionsAfter(listing, D, kept))
       /\ listed' = (listed \cup listing) \ D
  /\ handleFailedSync
  /\ UNCHANGED blind
  /\ ChannelOthersUnchanged

\* All listed versions are written; the others get flagged, and deleted
\* when the channel says so.
VersionsWritten ==
  /\ PodAt({"Succeeded"}) /\ pod.phase = "Succeeded"
  /\ \E listing \in Listings, seen \in {Owned, {}} :
       LET orphans == seen \ listing
           synced == [SyncedNow(chCache) EXCEPT !.ready = "Synced",
                                                !.attempts = 0]
       IN  /\ Unwritten(listing, seen, {}) = {}
           /\ WriteVersions(VersionsAfter(listing, orphans, {}))
           /\ listed' = listing
           /\ blind' = (seen # Owned)
           /\ FinishChannel(synced, "interval")
  /\ pod' \in PodDeletions(pod)
  /\ ChannelOthersUnchanged

ChannelNext ==
  \/ ReconcileInvalid \/ ReconcileDisabled \/ DeprecationFails
  \/ StartSync \/ WaitForInterval \/ PodNotFound \/ PodUnreadable \/ PodOutdated
  \/ PodOngoing \/ PodFailed \/ LogsUnreadable
  \/ VersionsNotWritten \/ OrphansNotFlagged \/ VersionsWritten
=============================================================================
