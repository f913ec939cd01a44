----------------------------- MODULE OSVersions -----------------------------
(***************************************************************************)
(* The OS version controllers together, with the user, the kubelet and the *)
(* caches: from a channel to the upgrade its versions are used for.        *)
(***************************************************************************)
EXTENDS ManagedOSVersionChannel, ManagedOSImage

Init ==
  /\ \E start \in Starts :
       /\ ch = NewChannel(start.spec)
       /\ pod = start.pod
       /\ vers = [v \in Versions |-> IF v \in start.versions THEN NewVersion
                                     ELSE IF v \in start.foreign THEN ForeignVersion
                                     ELSE NoVersion]
       /\ moves = start.moves
  /\ chCache = ch
  /\ chNote = FALSE
  /\ podCache = pod
  /\ podNote = FALSE
  /\ queued = TRUE
  /\ waits = FALSE
  /\ versQueue = {v \in Versions : vers[v].exists}
  /\ img = [m \in Images |-> NoImage]
  /\ imgCache = img
  /\ imgNote = [m \in Images |-> {}]
  /\ imgQueue = {}
  /\ bundle = [m \in Images |-> "absent"]
  /\ listed = {}
  /\ blind = FALSE
  /\ faults = 0

versionsUnchanged == UNCHANGED <<versVars, listed, blind>>

----------------------------------------------------------------------------
(***************************************************************************)
(* The user.                                                               *)
(***************************************************************************)
EditChannel ==
  /\ Move("edit")
  /\ \E spec \in Specs \ {ch.spec} :
       ch' = [ch EXCEPT !.spec = spec, !.gen = @ + 1]
  /\ chNote' = TRUE
  /\ versionsUnchanged
  /\ UNCHANGED <<chCache, podVars, queued, waits, imgVars, faults>>

DeleteVersion(v) ==
  /\ Move("delete")
  /\ vers[v].exists /\ ~vers[v].deleting
  /\ WriteVersions([vers EXCEPT ![v] = Deleted(@)])
  /\ UNCHANGED <<chVars, podVars, queued, waits, imgVars, listed, blind, faults>>

\* An image is created, changed or deleted; its Bundle goes with it.
WriteImage(m, o) ==
  /\ Move("image")
  /\ ImageEvent(m, o)
  /\ bundle' = IF o.phase = "gone" THEN [bundle EXCEPT ![m] = "absent"]
                                   ELSE bundle
  /\ versionsUnchanged
  /\ UNCHANGED <<chVars, podVars, queued, waits, imgCache, imgQueue, faults>>

CreateImage(m) ==
  /\ img[m].phase = "none"
  /\ \E v \in Targets, custom \in BOOLEAN :
       WriteImage(m, [NoImage EXCEPT !.phase = "live", !.want = v,
                                     !.custom = custom])

EditImage(m) ==
  /\ img[m].phase = "live"
  /\ \E v \in Targets \ {img[m].want} :
       WriteImage(m, [img[m] EXCEPT !.want = v])

DeleteImage(m) ==
  /\ img[m].phase = "live"
  /\ WriteImage(m, [img[m] EXCEPT !.phase = "gone"])

----------------------------------------------------------------------------
(***************************************************************************)
(* Kubernetes: the Pod's life, time, the caches and their events.          *)
(***************************************************************************)
\* The phase changes to Running, which the controller treats like Pending.
PodRuns ==
  /\ pod.phase = "Ongoing" /\ ~podNote
  /\ podNote' = TRUE
  /\ versionsUnchanged
  /\ UNCHANGED <<chVars, pod, podCache, queued, waits, imgVars, moves, faults>>

PodEnds ==
  /\ pod.phase = "Ongoing" /\ ~pod.deleting
  /\ \E phase \in {"Succeeded", "Failed"} : pod' = [pod EXCEPT !.phase = phase]
  /\ podNote' = TRUE
  /\ versionsUnchanged
  /\ UNCHANGED <<chVars, podCache, queued, waits, imgVars, moves, faults>>

\* The grace period of a deleted Pod ends.
PodGone ==
  /\ pod.deleting
  /\ pod' = NoPod
  /\ versionsUnchanged
  /\ UNCHANGED <<chVars, podCache, podNote, queued, waits, imgVars, moves,
                 faults>>

\* Somebody else removes the Pod: a drained node, a user.
PodEvicted ==
  /\ Move("evict")
  /\ pod.phase # "absent"
  /\ pod' = NoPod
  /\ versionsUnchanged
  /\ UNCHANGED <<chVars, podCache, podNote, queued, waits, imgVars, faults>>

\* The interval since the last synchronization has passed.
IntervalPasses ==
  /\ Move("interval")
  /\ ch.last /\ ~ch.due
  /\ ch' = [ch EXCEPT !.due = TRUE]
  /\ chCache' = [chCache EXCEPT !.due = chCache.last]
  /\ queued' = (queued \/ waits)
  /\ waits' = FALSE
  /\ versionsUnchanged
  /\ UNCHANGED <<chNote, podVars, imgVars, faults>>

SeeChannel ==
  /\ chCache # ch
  /\ chCache' = ch
  /\ queued' = (queued \/ chNote)
  /\ chNote' = FALSE
  /\ versionsUnchanged
  /\ UNCHANGED <<ch, podVars, waits, imgVars, moves, faults>>

SeePod ==
  /\ podCache # pod \/ podNote
  /\ podCache' = pod
  /\ queued' = (queued \/ podNote)
  /\ podNote' = FALSE
  /\ versionsUnchanged
  /\ UNCHANGED <<chVars, pod, waits, imgVars, moves, faults>>

\* The events of an image reach both controllers.
SeeImage(m) ==
  /\ imgCache[m] # img[m] \/ imgNote[m] # {}
  /\ imgCache' = [imgCache EXCEPT ![m] = img[m]]
  /\ imgQueue' = imgQueue \cup {m}
  /\ versQueue' = versQueue \cup imgNote[m]
  /\ imgNote' = [imgNote EXCEPT ![m] = {}]
  /\ UNCHANGED <<chVars, podVars, queued, waits, vers, img, bundle, listed,
                 blind, moves, faults>>

\* A new manager lists everything and queues all of it.
Restart ==
  /\ Fault
  /\ chCache' = ch /\ chNote' = FALSE
  /\ podCache' = pod /\ podNote' = FALSE
  /\ imgCache' = img
  /\ imgNote' = [m \in Images |-> {}]
  /\ imgQueue' = Images
  /\ versQueue' = {v \in Versions : vers[v].exists}
  /\ queued' = TRUE
  /\ waits' = FALSE
  /\ UNCHANGED <<ch, pod, vers, img, bundle, listed, blind, moves>>

UserNext ==
  \/ EditChannel
  \/ \E v \in Versions : DeleteVersion(v)
  \/ \E m \in Images : CreateImage(m) \/ EditImage(m) \/ DeleteImage(m)

EnvironmentNext ==
  \/ PodRuns \/ PodEnds \/ PodGone \/ PodEvicted \/ IntervalPasses
  \/ SeeChannel \/ SeePod \/ Restart
  \/ \E m \in Images : SeeImage(m)

Next == ChannelNext \/ ImageNext \/ UserNext \/ EnvironmentNext

(***************************************************************************)
(* The controllers take what is queued, the kubelet runs its Pods, delays  *)
(* expire and events arrive.  Nothing makes the user act, an interval pass *)
(* or a fault occur.                                                       *)
(***************************************************************************)
Fairness ==
  /\ WF_vars(ChannelNext)
  /\ WF_vars(PodEnds) /\ WF_vars(PodGone)
  /\ WF_vars(SeeChannel) /\ WF_vars(SeePod)
  /\ \A v \in Versions : WF_vars(ReconcileVersion(v))
  /\ \A m \in Images :
       /\ WF_vars(SeeImage(m))
       /\ WF_vars(ReconcileImage(m))

Spec == Init /\ [][Next]_vars /\ Fairness

----------------------------------------------------------------------------
\* Every variable has its type (OSCluster).
TypeOK == OSTypeOK

(***************************************************************************)
(* reconcile dereferences Status.LastSyncedTime when it waits for the next *)
(* interval; whatever copy it reads, the time has been set by then, also   *)
(* after a channel was disabled, invalid, or failed to create its Pod.     *)
(***************************************************************************)
MayWait(c) ==
  Enabled(c) /\ ~StartsSync(c) /\ (ReadyTrue(c) \/ GaveUp(c))

LastSyncKnown == \A c \in {ch, chCache} : MayWait(c) => c.last

(***************************************************************************)
(* FailedSynchronizationAttempts counts one failure more than              *)
(* maxConscutiveFailures at most, whatever fails and however often the     *)
(* channel is reconciled from a stale copy.                                *)
(***************************************************************************)
AttemptsBounded == ch.attempts <= MaxFailures + 1

(***************************************************************************)
(* While the channel is Synced for its generation, what the last sync had  *)
(* listed is not flagged as no longer synced, and everything else the      *)
(* channel owns is, unless the list of owned versions could not be read:   *)
(* getAllOwnedManagedOSVersions then answers with an empty one.            *)
(***************************************************************************)
VersionsFollowChannel ==
  ch.ready = "Synced" /\ ch.synced = ch.gen =>
    \A v \in Owned :
      /\ v \in listed => ~vers[v].flag
      /\ v \notin listed => vers[v].flag \/ blind

(***************************************************************************)
(* An enabled channel is synced in the end, or has used up its attempts,   *)
(* or is changed: no lost event, stale copy or failed call leaves it       *)
(* Syncing for ever.                                                       *)
(***************************************************************************)
Settled == ch.synced = ch.gen /\ (ch.ready = "Synced" \/ GaveUp(ch))


\* A channel that stays disabled has no syncer Pod in the end, whatever the
\* cache showed when deleteSyncerPod looked for it.
DisabledChannelStops ==
  <>[](Valid(ch) /\ ~ch.spec.enabled) => <>[](pod.phase = "absent")

(***************************************************************************)
(* The Bundle of an image ends up deploying the version the image names,   *)
(* also when it was created or updated from an older copy of the image;    *)
(* one with an UpgradeContainer of its own keeps deploying the version its *)
(* first reconcile wrote into it.                                          *)
(***************************************************************************)
BundleFollowsImage ==
  \A m \in Images, v \in Versions :
    <>[](img[m].phase = "live" /\ img[m].want = v /\ vers[v].exists)
      => <>[](bundle[m] = IF img[m].custom THEN img[m].pin ELSE v)

(***************************************************************************)
(* A version that is being deleted goes, once no image is labelled with it *)
(* any more: whatever copies of the images the hold was decided on, if the *)
(* images that carry its label meanwhile still name it.                    *)
(***************************************************************************)
Released(v) ==
  \/ ~vers[v].exists \/ ~vers[v].deleting
  \/ \E m \in Images : img[m].phase = "live" /\ img[m].label = v

\* An image that names another version still carries the label of v.
LeftBehind(v) ==
  \E m \in Images : \E o \in {img[m], imgCache[m]} :
    o.phase = "live" /\ o.label = v /\ o.want # v

DeletedVersionReleased ==
  \A v \in Versions :
    [](vers[v].deleting => ~LeftBehind(v)) => []<>Released(v)

(***************************************************************************)
(* reconcileDelete: "If there are ManagedOSImages referencing this         *)
(* ManagedOSVersion, hold on deletion."  It is held only then.             *)
(***************************************************************************)
HeldOnlyIfReferenced == \A v \in Versions : []<>Released(v)
=============================================================================
