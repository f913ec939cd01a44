-------------------------- MODULE OSVersionsProofs --------------------------
(***************************************************************************)
(* What a reconcile of a ManagedOSVersionChannel may rely on, in whatever  *)
(* copy of the channel it reads: the time of the last synchronization is   *)
(* known when it is dereferenced, and the attempts are limited.  And what  *)
(* the versions of a channel in sync say: they were listed, or are flagged.*)
(***************************************************************************)
EXTENDS OSVersions, TLAPS

\* A generation is only noted by Fresh, and then together with the time; an
\* attempt is only counted before the channel has been given up.
Sound(c) ==
  /\ c \in Channel
  /\ c.gen >= 1
  /\ c.synced # 0 => c.last
  /\ c.attempts <= MaxFailures + 1

IInv == Sound(ch) /\ Sound(chCache)

----------------------------------------------------------------------------
\* The updates the controller makes to a copy of the channel.
LEMMA ReasonSound ==
  ASSUME NEW c, Sound(c), NEW reason \in Reasons
  PROVE  Sound([c EXCEPT !.ready = reason])
BY DEF Sound, Channel

LEMMA SyncedNowSound ==
  ASSUME NEW c, Sound(c)
  PROVE  Sound(SyncedNow(c)) /\ SyncedNow(c).attempts = c.attempts /\ SyncedNow(c).last
BY DEF Sound, Channel, SyncedNow

LEMMA FailedSound ==
  ASSUME NEW c, Sound(c), c.attempts <= MaxFailures, NEW reason \in Reasons
  PROVE  Sound(Failed(c, reason))
<1> DEFINE d == [c EXCEPT !.ready = reason]
<1>1. d \in Channel /\ Sound(d) /\ d.attempts = c.attempts
  BY DEF Sound, Channel
<1>2. Failed(c, reason) = [d EXCEPT !.attempts = @ + 1]
  BY DEF Failed
<1> HIDE DEF d
<1> QED
  BY <1>1, <1>2, OSBoundsAssumption DEF Sound, Channel

LEMMA SyncedSound ==
  ASSUME NEW c, Sound(c)
  PROVE  Sound([SyncedNow(c) EXCEPT !.ready = "Synced", !.attempts = 0])
<1> DEFINE d == SyncedNow(c)
<1>1. Sound(d)
  BY SyncedNowSound
<1> HIDE DEF d
<1> DEFINE e == [d EXCEPT !.ready = "Synced"]
<1>2. Sound(e)
  BY <1>1, ReasonSound DEF Reasons
<1> HIDE DEF e
<1>3. Sound([e EXCEPT !.attempts = 0])
  BY <1>2, OSBoundsAssumption DEF Sound, Channel
<1> QED
  BY <1>3 DEF d, e

\* Fresh forgets the time of a generation it has not synced yet: it is sound
\* as soon as the time is set, as createSyncerPod does first.
LEMMA FreshSyncedSound ==
  ASSUME NEW c, Sound(c)
  PROVE  Sound(SyncedNow(Fresh(c))) /\ SyncedNow(Fresh(c)).attempts = 0
<1> DEFINE d == [c EXCEPT !.attempts = 0]
           e == [d EXCEPT !.synced = d.gen]
<1>1. d \in Channel /\ d.gen >= 1 /\ d.attempts = 0
  BY DEF Sound, Channel
<1>2. Fresh(c) = e
  BY DEF Fresh, Sound, Channel
<1> HIDE DEF d
<1>3. e \in Channel /\ e.gen >= 1 /\ e.attempts = 0
  BY <1>1 DEF Channel
<1> HIDE DEF e
<1>4. /\ SyncedNow(e) \in Channel /\ SyncedNow(e).gen >= 1
      /\ SyncedNow(e).attempts = 0 /\ SyncedNow(e).last
  BY <1>3 DEF Channel, SyncedNow
<1>5. Sound(SyncedNow(e))
  BY <1>4, OSBoundsAssumption DEF Sound
<1> QED
  BY <1>2, <1>4, <1>5

\* The closing patch.
LEMMA FinishSound ==
  ASSUME IInv, NEW c, Sound(c), NEW result, FinishChannel(c, result),
         UNCHANGED chCache
  PROVE  IInv'
BY DEF FinishChannel, IInv, Sound

\* createSyncerPod of a copy d that is sound once the time is set.
LEMMA CreateSound ==
  ASSUME IInv, NEW d, NEW p, Sound(SyncedNow(d)),
         SyncedNow(d).attempts <= MaxFailures,
         createSyncerPod(d, p), UNCHANGED chCache
  PROVE  IInv'
<1>1. /\ "Syncing" \in Reasons /\ "FailedToCreatePod" \in Reasons
  BY DEF Reasons
<1>2. CASE PodStarted(d)
  BY <1>1, <1>2, ReasonSound, FinishSound DEF PodStarted
<1>3. CASE FinishChannel(Failed(SyncedNow(d), "FailedToCreatePod"), "error")
  BY <1>1, <1>3, FailedSound, FinishSound
<1> QED
  BY <1>2, <1>3 DEF createSyncerPod

\* What is watched has attempts left.
LEMMA WatchedHasAttempts ==
  ASSUME Sound(chCache), ~GaveUp(chCache)
  PROVE  chCache.attempts <= MaxFailures
BY OSBoundsAssumption DEF Sound, Channel, GaveUp

LEMMA FailedSyncSound ==
  ASSUME IInv, ~GaveUp(chCache), handleFailedSync, UNCHANGED chCache
  PROVE  IInv'
<1>1. Sound(SyncedNow(chCache)) /\ SyncedNow(chCache).attempts <= MaxFailures
  BY SyncedNowSound, WatchedHasAttempts DEF IInv
<1>2. Sound(Failed(SyncedNow(chCache), "FailedToSync"))
  BY <1>1, FailedSound DEF Reasons
<1> QED
  BY <1>2, FinishSound DEF handleFailedSync

----------------------------------------------------------------------------
LEMMA ChannelNextSound ==
  ASSUME IInv, ChannelNext
  PROVE  IInv'
<1>1. Sound(chCache)
  BY DEF IInv
<1>2. CASE ReconcileInvalid
  <2>1. Sound([chCache EXCEPT !.ready = "InvalidConfiguration"])
    BY <1>1, ReasonSound DEF Reasons
  <2> QED
    BY <1>2, <2>1, FinishSound
       DEF ReconcileInvalid, ChannelOthersUnchanged
<1>3. CASE ReconcileDisabled
  <2>1. Sound([chCache EXCEPT !.ready = "ChannelDisabled"])
    BY <1>1, ReasonSound DEF Reasons
  <2>2. UNCHANGED chCache
    BY <1>3 DEF ReconcileDisabled, ChannelOthersUnchanged
  <2>3. \E result \in {"none", "error"} :
          \/ FinishChannel([chCache EXCEPT !.ready = "ChannelDisabled"], result)
          \/ FinishChannel(chCache, result)
    BY <1>3 DEF ReconcileDisabled, deleteSyncerPod
  <2> QED
    BY <1>1, <2>1, <2>2, <2>3, FinishSound
<1>4. CASE DeprecationFails
  BY <1>4 DEF DeprecationFails, ChannelOthersUnchanged, IInv
<1>5. CASE StartSync
  BY <1>1, <1>5, FreshSyncedSound, CreateSound, OSBoundsAssumption
     DEF StartSync, ChannelOthersUnchanged
<1>6. CASE WaitForInterval
  BY <1>1, <1>6, FinishSound DEF WaitForInterval, ChannelOthersUnchanged
<1>7. CASE PodNotFound
  <2>1. ~GaveUp(chCache) /\ UNCHANGED chCache
    BY <1>7 DEF PodNotFound, Watches, ChannelOthersUnchanged
  <2> QED
    BY <1>1, <1>7, <2>1, SyncedNowSound, WatchedHasAttempts, CreateSound
       DEF PodNotFound
<1>12. CASE PodUnreadable
  <2>1. ~GaveUp(chCache) /\ UNCHANGED chCache
    BY <1>12 DEF PodUnreadable, Watches, ChannelOthersUnchanged
  <2>2. Sound(Failed(chCache, "FailedToSync"))
    BY <1>1, <2>1, WatchedHasAttempts, FailedSound DEF Reasons
  <2> QED
    BY <1>12, <2>1, <2>2, FinishSound DEF PodUnreadable
<1>8. CASE PodOutdated
  <2>1. ~GaveUp(chCache) /\ UNCHANGED chCache
    BY <1>8 DEF PodOutdated, Watches, ChannelOthersUnchanged
  <2> QED
    BY <1>1, <1>8, <2>1, SyncedNowSound, WatchedHasAttempts, CreateSound
       DEF PodOutdated
<1>9. CASE PodOngoing
  <2>1. Sound([chCache EXCEPT !.ready = "Syncing"])
    BY <1>1, ReasonSound DEF Reasons
  <2> QED
    BY <1>9, <2>1, FinishSound DEF PodOngoing, ChannelOthersUnchanged
<1>10. CASE PodFailed \/ LogsUnreadable \/ VersionsNotWritten \/ OrphansNotFlagged
  <2>1. /\ \E phases : PodAt(phases)
        /\ handleFailedSync /\ UNCHANGED chCache
    BY <1>10 DEF PodFailed, LogsUnreadable, VersionsNotWritten,
                 OrphansNotFlagged, ChannelOthersUnchanged
  <2> QED
    BY <2>1, FailedSyncSound DEF PodAt, Watches
<1>11. CASE VersionsWritten
  <2>1. /\ FinishChannel([SyncedNow(chCache) EXCEPT !.ready = "Synced",
                                                    !.attempts = 0], "interval")
        /\ UNCHANGED chCache
    BY <1>11 DEF VersionsWritten, ChannelOthersUnchanged
  <2> QED
    BY <1>1, <2>1, SyncedSound, FinishSound
<1> QED
  BY <1>2, <1>3, <1>4, <1>5, <1>6, <1>7, <1>8, <1>9, <1>10, <1>11, <1>12 DEF ChannelNext

LEMMA OthersSound ==
  ASSUME IInv, ImageNext \/ UserNext \/ EnvironmentNext
  PROVE  IInv'
<1>1. ASSUME UNCHANGED <<ch, chCache>> PROVE IInv'
  BY <1>1 DEF IInv
<1>2. CASE ImageNext
  <2>1. ASSUME NEW v \in Versions, ReconcileVersion(v) PROVE IInv'
    BY <1>1, <2>1 DEF ReconcileVersion, ChannelSideUnchanged, chVars
  <2>2. ASSUME NEW m \in Images, ReconcileImage(m) \/ BundleFails(m) \/ ImageNotPatched(m)
        PROVE IInv'
    <3>1. ChannelSideUnchanged
      BY <2>2 DEF ReconcileImage, BundleFails, ImageNotPatched, FinishImage
    <3> QED
      BY <1>1, <3>1 DEF ChannelSideUnchanged, chVars
  <2> QED
    BY <1>2, <2>1, <2>2 DEF ImageNext
<1>3. CASE EditChannel
  <2>1. PICK spec \in Specs : ch' = [ch EXCEPT !.spec = spec, !.gen = @ + 1]
    BY <1>3 DEF EditChannel
  <2> DEFINE d == [ch EXCEPT !.spec = spec]
  <2>2. Sound(d)
    BY DEF IInv, Sound, Channel
  <2>3. ch' = [d EXCEPT !.gen = @ + 1]
    BY <2>1 DEF IInv, Sound, Channel
  <2> HIDE DEF d
  <2>4. Sound(ch')
    BY <2>2, <2>3 DEF Sound, Channel
  <2>5. Sound(chCache')
    BY <1>3 DEF EditChannel, IInv
  <2> QED
    BY <2>4, <2>5 DEF IInv, Sound
<1>4. ASSUME NEW v \in Versions, DeleteVersion(v) PROVE IInv'
  BY <1>1, <1>4 DEF DeleteVersion, chVars
<1>5. ASSUME NEW m \in Images, CreateImage(m) \/ EditImage(m) \/ DeleteImage(m)
      PROVE  IInv'
  <2>1. \E o : WriteImage(m, o)
    BY <1>5 DEF CreateImage, EditImage, DeleteImage
  <2> QED
    BY <1>1, <2>1 DEF WriteImage, chVars
<1>6. CASE PodRuns \/ PodEnds \/ PodGone \/ PodEvicted \/ SeePod
  BY <1>1, <1>6 DEF PodRuns, PodEnds, PodGone, PodEvicted, SeePod, chVars
<1>7. CASE IntervalPasses
  BY <1>7 DEF IntervalPasses, IInv, Sound, Channel
<1>8. CASE SeeChannel
  BY <1>8 DEF SeeChannel, IInv, Sound
<1>9. CASE Restart
  BY <1>9 DEF Restart, IInv, Sound
<1>10. ASSUME NEW m \in Images, SeeImage(m) PROVE IInv'
  BY <1>1, <1>10 DEF SeeImage, chVars
<1> QED
  BY <1>2, <1>3, <1>4, <1>5, <1>6, <1>7, <1>8, <1>9, <1>10
     DEF UserNext, EnvironmentNext

LEMMA SoundInductive == Spec => []IInv
<1>1. Init => IInv
  BY OSStartsAssumption, OSBoundsAssumption
     DEF Init, NewChannel, IInv, Sound, Channel, Reasons
<1>2. IInv /\ [Next]_vars => IInv'
  <2> SUFFICES ASSUME IInv, [Next]_vars PROVE IInv'
    OBVIOUS
  <2>1. CASE UNCHANGED vars
    BY <2>1 DEF vars, chVars, IInv, Sound
  <2> QED
    BY <2>1, ChannelNextSound, OthersSound DEF Next
<1> QED
  BY <1>1, <1>2, PTL DEF Spec

----------------------------------------------------------------------------
\* reconcile never dereferences a LastSyncedTime that is not set, in
\* whichever copy of the channel it reads.
THEOREM LastSyncIsKnown == Spec => []LastSyncKnown
<1>1. IInv => LastSyncKnown
  BY DEF IInv, Sound, LastSyncKnown, MayWait, StartsSync, Channel
<1> QED
  BY <1>1, SoundInductive, PTL

\* FailedSynchronizationAttempts never passes the limit by more than one.
THEOREM AttemptsAreBounded == Spec => []AttemptsBounded
<1>1. IInv => AttemptsBounded
  BY DEF IInv, Sound, AttemptsBounded
<1> QED
  BY <1>1, SoundInductive, PTL
----------------------------------------------------------------------------
(***************************************************************************)
(* The versions and the channel.  What a reconcile stores is the copy it   *)
(* read, in the same generation, and only while that copy is the latest;   *)
(* so a generation is noted as synced by an enabled channel only, and no   *)
(* copy from before that generation is left when it is.                    *)
(***************************************************************************)
Noted(c) == c.synced <= c.gen /\ (c.synced = c.gen => Enabled(c))

CopyBehind ==
  /\ chCache.gen <= ch.gen
  /\ chCache.gen = ch.gen => chCache.spec = ch.spec
  /\ ch.synced = ch.gen => chCache.gen = ch.gen

\* The flags say what the last synchronization had listed.
FlagsFollow ==
  \A v \in Owned :
    /\ v \in listed => ~vers[v].flag
    /\ v \notin listed => vers[v].flag \/ blind

VersionsInv ==
  /\ OSTypeOK
  /\ Noted(ch) /\ Noted(chCache) /\ CopyBehind
  /\ VersionsFollowChannel

\* d is c, later in the same reconcile.
Keeps(c, d) ==
  d \in Channel /\ d.gen = c.gen /\ d.spec = c.spec /\ d.synced = c.synced

LEMMA ReasonKeeps ==
  ASSUME NEW c \in Channel, NEW reason \in Reasons
  PROVE  Keeps(c, [c EXCEPT !.ready = reason]) /\ [c EXCEPT !.ready = reason].ready = reason
BY DEF Keeps, Channel

LEMMA SyncedNowKeeps ==
  ASSUME NEW c \in Channel
  PROVE  Keeps(c, SyncedNow(c))
BY DEF Keeps, Channel, SyncedNow

LEMMA FailedKeeps ==
  ASSUME NEW c \in Channel, NEW reason \in Reasons
  PROVE  Keeps(c, Failed(c, reason)) /\ Failed(c, reason).ready = reason
<1> DEFINE d == [c EXCEPT !.ready = reason]
<1>1. Keeps(c, d) /\ d.ready = reason
  BY ReasonKeeps
<1>2. Failed(c, reason) = [d EXCEPT !.attempts = @ + 1]
  BY DEF Failed
<1> HIDE DEF d
<1> QED
  BY <1>1, <1>2 DEF Keeps, Channel

LEMMA SyncedKeeps ==
  ASSUME NEW c \in Channel
  PROVE  Keeps(c, [SyncedNow(c) EXCEPT !.ready = "Synced", !.attempts = 0])
<1> DEFINE d == SyncedNow(c)
<1>1. Keeps(c, d)
  BY SyncedNowKeeps
<1> HIDE DEF d
<1> DEFINE e == [d EXCEPT !.ready = "Synced"]
<1>2. Keeps(d, e)
  BY <1>1, ReasonKeeps DEF Keeps, Reasons
<1> HIDE DEF e
<1>3. Keeps(e, [e EXCEPT !.attempts = 0])
  BY <1>2 DEF Keeps, Channel
<1> QED
  BY <1>1, <1>2, <1>3 DEF Keeps, d, e

LEMMA FreshKeeps ==
  ASSUME NEW c \in Channel
  PROVE  /\ Fresh(c) \in Channel /\ Fresh(c).gen = c.gen /\ Fresh(c).spec = c.spec
         /\ Fresh(c).synced = c.gen
<1> DEFINE d == [c EXCEPT !.attempts = 0]
<1>1. Keeps(c, d)
  BY DEF Keeps, Channel
<1>2. Fresh(c) = [d EXCEPT !.synced = d.gen]
  BY DEF Fresh, Channel
<1> HIDE DEF d
<1> QED
  BY <1>1, <1>2 DEF Keeps, Channel

----------------------------------------------------------------------------
\* What the closing patch does.
LEMMA FinishTypes ==
  ASSUME OSTypeOK, NEW c, NEW result, FinishChannel(c, result)
  PROVE  /\ ch' = ch \/ (chCache = ch /\ ch' = c)
         /\ queued' \in BOOLEAN /\ waits' \in BOOLEAN /\ faults' \in 0..MaxFaults
<1> PICK stored \in {chCache = ch, FALSE} :
      /\ ch' = IF stored THEN c ELSE ch
      /\ queued' = (result \in {"error", "poll"} \/ ~stored)
      /\ waits' = (waits \/ result = "interval")
      /\ (chCache = ch /\ ~stored) => faults < MaxFaults
      /\ faults' = IF chCache = ch /\ ~stored THEN faults + 1 ELSE faults
  BY DEF FinishChannel
<1>1. waits \in BOOLEAN /\ faults \in 0..MaxFaults
  BY DEF OSTypeOK
<1>2. stored => chCache = ch
  OBVIOUS
<1>3. faults' \in 0..MaxFaults
  BY <1>1, OSBoundsAssumption
<1> QED
  BY <1>1, <1>2, <1>3

LEMMA PodDeletionTypes ==
  ASSUME NEW p \in Pod, NEW q \in PodDeletions(p)
  PROVE  q \in Pod
<1> DEFINE t == [p EXCEPT !.deleting = TRUE]
<1>1. t \in Pod /\ NoPod \in Pod
  BY DEF Pod, NoPod
<1>2. q = NoPod \/ q = t
  BY DEF PodDeletions
<1> HIDE DEF t
<1> QED
  BY <1>1, <1>2

\* A reconcile stores d, if anything; Synced only once the versions are written.
Saves(d) ==
  /\ d \in Channel /\ d.gen = chCache.gen /\ d.spec = chCache.spec
  /\ d.synced = chCache.synced \/ (d.synced = chCache.gen /\ Enabled(chCache))

Closed(synced) ==
  /\ \/ ch' = ch
     \/ chCache = ch /\ Saves(ch') /\ (ch'.ready = "Synced" => synced)
  /\ queued' \in BOOLEAN /\ waits' \in BOOLEAN /\ faults' \in 0..MaxFaults

LEMMA FinishCloses ==
  ASSUME OSTypeOK, NEW c, NEW result, NEW synced \in BOOLEAN,
         Saves(c), c.ready = "Synced" => synced, FinishChannel(c, result)
  PROVE  Closed(synced)
BY FinishTypes DEF Closed

LEMMA CreateCloses ==
  ASSUME OSTypeOK, NEW d, Saves(d), NEW p \in Pod, createSyncerPod(d, p)
  PROVE  Closed(FALSE) /\ pod' \in Pod
<1> DEFINE e == SyncedNow(d)
           k == [e EXCEPT !.ready = "Syncing"]
           f == Failed(e, "FailedToCreatePod")
<1>1. d \in Channel /\ Keeps(d, e) /\ e \in Channel
  BY SyncedNowKeeps DEF Saves, Keeps
<1>2. Keeps(e, k) /\ k.ready = "Syncing" /\ Keeps(e, f) /\ f.ready = "FailedToCreatePod"
  <2> HIDE DEF e
  <2> QED
    BY <1>1, ReasonKeeps, FailedKeeps DEF Reasons
<1>3. \/ pod' = NewPod /\ FinishChannel(k, "none")
      \/ pod' \in PodDeletions(p) /\ FinishChannel(f, "error")
  BY DEF createSyncerPod, PodStarted
<1> HIDE DEF e, k, f
<1>4. Saves(k) /\ Saves(f)
  BY <1>1, <1>2 DEF Saves, Keeps
<1>5. NewPod \in Pod
  BY DEF NewPod, Pod
<1> QED
  BY <1>2, <1>3, <1>4, <1>5, FinishCloses, PodDeletionTypes

LEMMA FailedCloses ==
  ASSUME OSTypeOK, handleFailedSync
  PROVE  Closed(FALSE) /\ pod' \in Pod
<1> DEFINE d == SyncedNow(chCache)
           f == Failed(d, "FailedToSync")
<1>1. chCache \in Channel /\ pod \in Pod
  BY DEF OSTypeOK
<1>2. Keeps(chCache, d) /\ d \in Channel
  BY <1>1, SyncedNowKeeps DEF Keeps
<1>3. Keeps(d, f) /\ f.ready = "FailedToSync"
  <2> HIDE DEF d
  <2> QED
    BY <1>2, FailedKeeps DEF Reasons
<1>4. pod' \in PodDeletions(pod) /\ FinishChannel(f, "error")
  BY DEF handleFailedSync
<1> HIDE DEF d, f
<1> QED
  BY <1>1, <1>2, <1>3, <1>4, FinishCloses, PodDeletionTypes DEF Saves, Keeps
----------------------------------------------------------------------------
\* The versions a reconcile writes and flags.
LEMMA DeletedTypes ==
  ASSUME NEW o \in Version
  PROVE  /\ Deleted(o) \in Version
         /\ Deleted(o).exists => Deleted(o).flag = o.flag /\ Deleted(o).own = o.own /\ o.exists
BY DEF Deleted, Version, NoVersion

LEMMA DeprecatedTypes ==
  ASSUME OSTypeOK, NEW D, NEW kept, NEW prune \in BOOLEAN, NEW v \in Versions
  PROVE  /\ Deprecated(D, kept, prune)[v] \in Version
         /\ v \notin D => Deprecated(D, kept, prune)[v] = vers[v]
         /\ v \in D /\ Deprecated(D, kept, prune)[v].exists => Deprecated(D, kept, prune)[v].flag
<1> DEFINE o == vers[v]
           flagged == [o EXCEPT !.flag = TRUE]
<1>1. o \in Version /\ flagged \in Version /\ flagged.flag
  BY DEF OSTypeOK, Version
<1>2. Deprecated(D, kept, prune)[v] = IF v \notin D THEN o
                                      ELSE IF prune /\ v \notin kept
                                           THEN Deleted(flagged) ELSE flagged
  BY DEF Deprecated
<1> HIDE DEF o, flagged
<1>3. /\ Deleted(flagged) \in Version
      /\ Deleted(flagged).exists => Deleted(flagged).flag
  BY <1>1, DeletedTypes
<1> QED
  BY <1>1, <1>2, <1>3 DEF o

LEMMA WrittenTypes ==
  ASSUME OSTypeOK, NEW v \in Versions
  PROVE  WrittenVersion(v) \in Version /\ ~WrittenVersion(v).flag
<1>1. vers[v] \in Version
  BY DEF OSTypeOK
<1>2. NewVersion \in Version /\ ~NewVersion.flag
  BY DEF NewVersion, NoVersion, Version
<1> QED
  BY <1>1, <1>2 DEF WrittenVersion, Version

\* The versions once W are written and D flagged: the flags follow.
LEMMA VersionsAfterTypes ==
  ASSUME OSTypeOK, NEW W, NEW D, NEW kept, vers' = VersionsAfter(W, D, kept)
  PROVE  /\ vers' \in [Versions -> Version]
         /\ \A v \in Versions :
              /\ v \in W => ~vers'[v].flag
              /\ v \notin W /\ v \notin D => vers'[v] = vers[v]
              /\ v \notin W /\ v \in D /\ vers'[v].exists => vers'[v].flag
<1>1. chCache.spec.prune \in BOOLEAN
  BY OSNamesAssumption DEF OSTypeOK, Channel, Spec0
<1>2. \A v \in Versions : vers'[v] = IF v \in W THEN WrittenVersion(v)
                                     ELSE Deprecated(D, kept, chCache.spec.prune)[v]
  BY DEF VersionsAfter
<1>3. ASSUME NEW v \in Versions
      PROVE  /\ vers'[v] \in Version
             /\ v \in W => ~vers'[v].flag
             /\ v \notin W /\ v \notin D => vers'[v] = vers[v]
             /\ v \notin W /\ v \in D /\ vers'[v].exists => vers'[v].flag
  BY <1>1, <1>2, WrittenTypes, DeprecatedTypes
<1>4. vers' = [v \in Versions |-> vers'[v]]
  BY DEF VersionsAfter
<1> QED
  BY <1>3, <1>4

LEMMA ListingWritten ==
  ASSUME OSTypeOK, NEW listing \in Listings, NEW seen \in {Owned, {}},
         NEW lost, Unwritten(listing, seen, lost) = {}
  PROVE  /\ listing \subseteq Versions
         /\ \A v \in listing : vers[v].exists => v \in seen
BY OSNamesAssumption DEF Unwritten

----------------------------------------------------------------------------
\* What the actions of the channel do.  VersionsWritten alone makes it Synced.
LEMMA UnsyncedCloses ==
  ASSUME OSTypeOK, ChannelNext, ~VersionsWritten, ~DeprecationFails
  PROVE  Closed(FALSE) /\ pod' \in Pod
<1>1. chCache \in Channel /\ ch \in Channel /\ pod \in Pod
  BY DEF OSTypeOK
<1>2. ASSUME NEW c, Keeps(chCache, c), c.ready # "Synced", NEW result,
             FinishChannel(c, result)
      PROVE  Closed(FALSE)
  BY <1>2, FinishCloses DEF Saves, Keeps
<1>3. ASSUME NEW result, FinishChannel(chCache, result)
      PROVE  Closed(FALSE)
  BY <1>3, FinishTypes DEF Closed
<1>4. ASSUME NEW reason \in Reasons \ {"Synced"}, NEW result,
             FinishChannel([chCache EXCEPT !.ready = reason], result)
      PROVE  Closed(FALSE)
  BY <1>1, <1>2, <1>4, ReasonKeeps
<1>5. Saves(chCache)
  BY <1>1 DEF Saves
<1>6. CASE ReconcileInvalid
  BY <1>1, <1>4, <1>6 DEF ReconcileInvalid, Reasons
<1>7. CASE ReconcileDisabled
  BY <1>1, <1>3, <1>4, <1>7, PodDeletionTypes DEF ReconcileDisabled, deleteSyncerPod, Reasons
<1>8. CASE StartSync
  <2>1. Saves(Fresh(chCache))
    BY <1>1, <1>8, FreshKeeps DEF Saves, StartSync
  <2> QED
    BY <1>1, <1>8, <2>1, CreateCloses DEF StartSync
<1>9. CASE WaitForInterval
  BY <1>1, <1>3, <1>9 DEF WaitForInterval
<1>10. CASE PodNotFound
  BY <1>1, <1>5, <1>10, CreateCloses DEF PodNotFound
<1>14. CASE PodUnreadable
  <2>1. Keeps(chCache, Failed(chCache, "FailedToSync"))
        /\ Failed(chCache, "FailedToSync").ready = "FailedToSync"
    BY <1>1, FailedKeeps DEF Reasons
  <2> QED
    BY <1>1, <1>2, <1>14, <2>1 DEF PodUnreadable
<1>11. CASE PodOutdated
  BY <1>1, <1>5, <1>11, CreateCloses, PodDeletionTypes DEF PodOutdated
<1>12. CASE PodOngoing
  BY <1>1, <1>4, <1>12 DEF PodOngoing, Reasons
<1>13. CASE PodFailed \/ LogsUnreadable \/ VersionsNotWritten \/ OrphansNotFlagged
  BY <1>13, FailedCloses
     DEF PodFailed, LogsUnreadable, VersionsNotWritten, OrphansNotFlagged
<1> QED
  BY <1>6, <1>7, <1>8, <1>9, <1>10, <1>11, <1>12, <1>13, <1>14 DEF ChannelNext

LEMMA SyncedCloses ==
  ASSUME OSTypeOK, VersionsWritten
  PROVE  Closed(TRUE) /\ pod' \in Pod
<1> DEFINE synced == [SyncedNow(chCache) EXCEPT !.ready = "Synced", !.attempts = 0]
<1>1. chCache \in Channel /\ pod \in Pod
  BY DEF OSTypeOK
<1>2. Keeps(chCache, synced)
  BY <1>1, SyncedKeeps
<1>3. FinishChannel(synced, "interval") /\ pod' \in PodDeletions(pod)
  BY DEF VersionsWritten
<1> HIDE DEF synced
<1> QED
  BY <1>1, <1>2, <1>3, FinishCloses, PodDeletionTypes DEF Saves, Keeps
\* A synchronization that fails half-way keeps the flags in step.
LEMMA FlagsKept ==
  ASSUME OSTypeOK, FlagsFollow, VersionsNotWritten \/ OrphansNotFlagged
  PROVE  FlagsFollow'
<1> SUFFICES ASSUME NEW v \in Versions, vers'[v].exists, vers'[v].own
             PROVE  /\ v \in listed' => ~vers'[v].flag
                    /\ v \notin listed' => vers'[v].flag \/ blind'
  BY DEF FlagsFollow, Owned
<1>1. vers[v].exists /\ vers[v].own =>
        /\ v \in listed => ~vers[v].flag
        /\ v \notin listed => vers[v].flag \/ blind
  BY DEF FlagsFollow, Owned
<1>2. CASE VersionsNotWritten
  <2>1. PICK W : vers' = VersionsAfter(W, {}, {}) /\ listed' = listed \cup W
    BY <1>2 DEF VersionsNotWritten, WriteVersions
  <2>2. /\ v \in W => ~vers'[v].flag
        /\ v \notin W => vers'[v] = vers[v]
    BY <2>1, VersionsAfterTypes
  <2>3. blind' = blind
    BY <1>2 DEF VersionsNotWritten
  <2> QED
    BY <1>1, <2>1, <2>2, <2>3
<1>3. CASE OrphansNotFlagged
  <2>1. PICK listing \in Listings : \E D \in SUBSET (Owned \ listing) : \E kept :
          /\ vers' = VersionsAfter(listing, D, kept)
          /\ listed' = (listed \cup listing) \ D
    BY <1>3 DEF OrphansNotFlagged, WriteVersions
  <2>2. PICK D \in SUBSET (Owned \ listing) : \E kept :
          /\ vers' = VersionsAfter(listing, D, kept)
          /\ listed' = (listed \cup listing) \ D
    BY <2>1
  <2>3. /\ v \in listing => ~vers'[v].flag
        /\ v \notin listing /\ v \notin D => vers'[v] = vers[v]
        /\ v \notin listing /\ v \in D => vers'[v].flag
    BY <2>2, VersionsAfterTypes
  <2>4. blind' = blind
    BY <1>3 DEF OrphansNotFlagged
  <2> QED
    BY <1>1, <2>2, <2>3, <2>4
<1> QED
  BY <1>2, <1>3

\* One that succeeds puts them in step, unless it saw no version.
LEMMA FlagsWritten ==
  ASSUME OSTypeOK, VersionsWritten
  PROVE  FlagsFollow'
<1> SUFFICES ASSUME NEW v \in Versions, vers'[v].exists, vers'[v].own
             PROVE  /\ v \in listed' => ~vers'[v].flag
                    /\ v \notin listed' => vers'[v].flag \/ blind'
  BY DEF FlagsFollow, Owned
<1>1. PICK listing \in Listings, seen \in {Owned, {}} :
        /\ vers' = VersionsAfter(listing, seen \ listing, {})
        /\ listed' = listing
        /\ blind' = (seen # Owned)
  BY DEF VersionsWritten, WriteVersions
<1> DEFINE D == seen \ listing
<1>2. vers' = VersionsAfter(listing, D, {})
  BY <1>1
<1>3. v \notin listing => (v \in D <=> v \in seen)
  OBVIOUS
<1> HIDE DEF D
<1>4. /\ v \in listing => ~vers'[v].flag
      /\ v \notin listing /\ v \notin D => vers'[v] = vers[v]
      /\ v \notin listing /\ v \in D => vers'[v].flag
  BY <1>2, VersionsAfterTypes
<1>5. v \notin listing /\ v \notin seen => v \in Owned
  BY <1>3, <1>4 DEF Owned
<1>6. v \notin listing /\ v \notin seen => seen # Owned
  BY <1>5
<1> QED
  BY <1>1, <1>3, <1>4, <1>6

\* The versions after a reconcile of the channel.
LEMMA ChannelVersionTypes ==
  ASSUME OSTypeOK, ChannelNext
  PROVE  /\ vers' \in [Versions -> Version] /\ versQueue' \subseteq Versions
         /\ listed' \subseteq Versions /\ blind' \in BOOLEAN
<1>1. /\ versQueue \subseteq Versions
      /\ vers \in [Versions -> Version] /\ listed \subseteq Versions /\ blind \in BOOLEAN
      /\ chCache.spec.prune \in BOOLEAN
  BY OSNamesAssumption DEF OSTypeOK, Channel, Spec0
<1>2. \A D, kept : Deprecated(D, kept, chCache.spec.prune) \in [Versions -> Version]
  <2> TAKE D, kept
  <2>1. \A v \in Versions : Deprecated(D, kept, chCache.spec.prune)[v] \in Version
    BY <1>1, DeprecatedTypes
  <2>2. Deprecated(D, kept, chCache.spec.prune)
          = [v \in Versions |-> Deprecated(D, kept, chCache.spec.prune)[v]]
    BY DEF Deprecated
  <2> QED
    BY <2>1, <2>2
<1>3. \A listing \in Listings : listing \subseteq Versions
  BY OSNamesAssumption
<1>4. CASE noVersionTouched
  BY <1>1, <1>4 DEF noVersionTouched, versVars
<1>9. ASSUME NEW new, WriteVersions(new)
      PROVE  vers' = new /\ versQueue' \subseteq Versions
  BY <1>1, <1>9 DEF WriteVersions
<1>5. CASE ReconcileDisabled \/ DeprecationFails
  BY <1>1, <1>2, <1>5, <1>9 DEF ReconcileDisabled, DeprecationFails
<1>6. CASE VersionsNotWritten
  <2>1. PICK W \in SUBSET Versions :
          WriteVersions(VersionsAfter(W, {}, {})) /\ listed' = listed \cup W
    BY <1>3, <1>6 DEF VersionsNotWritten
  <2> QED
    BY <1>1, <1>6, <1>9, <2>1, VersionsAfterTypes DEF VersionsNotWritten
<1>7. CASE OrphansNotFlagged
  <2>1. PICK listing \in Listings : \E D, kept :
          /\ WriteVersions(VersionsAfter(listing, D, kept))
          /\ listed' = (listed \cup listing) \ D
    BY <1>7 DEF OrphansNotFlagged
  <2> QED
    BY <1>1, <1>3, <1>7, <1>9, <2>1, VersionsAfterTypes DEF OrphansNotFlagged
<1>8. CASE VersionsWritten
  <2>1. PICK listing \in Listings : \E D :
          /\ WriteVersions(VersionsAfter(listing, D, {}))
          /\ listed' = listing /\ blind' \in BOOLEAN
    BY <1>8 DEF VersionsWritten
  <2> QED
    BY <1>3, <1>9, <2>1, VersionsAfterTypes
<1> QED
  BY <1>4, <1>5, <1>6, <1>7, <1>8
     DEF ChannelNext, ReconcileInvalid, StartSync, WaitForInterval, PodNotFound,
         PodUnreadable, PodOutdated, PodOngoing, PodFailed, LogsUnreadable

LEMMA ChannelUnchanged ==
  ASSUME ChannelNext
  PROVE  ChannelOthersUnchanged
BY DEF ChannelNext, ReconcileInvalid, ReconcileDisabled, DeprecationFails, StartSync,
       WaitForInterval, PodNotFound, PodUnreadable, PodOutdated, PodOngoing, PodFailed,
       LogsUnreadable,
       VersionsNotWritten, OrphansNotFlagged, VersionsWritten

LEMMA ChannelTypes ==
  ASSUME OSTypeOK, ChannelNext
  PROVE  OSTypeOK'
<1>1. ChannelOthersUnchanged
  BY ChannelUnchanged
<1>2. /\ vers' \in [Versions -> Version] /\ versQueue' \subseteq Versions
      /\ listed' \subseteq Versions /\ blind' \in BOOLEAN
  BY ChannelVersionTypes
<1>3. /\ ch' \in Channel /\ pod' \in Pod /\ queued' \in BOOLEAN /\ waits' \in BOOLEAN
      /\ faults' \in 0..MaxFaults
  <2>1. CASE DeprecationFails
    BY <2>1, OSBoundsAssumption DEF DeprecationFails, Fault, OSTypeOK
  <2>2. CASE ~DeprecationFails
    <3>1. (Closed(FALSE) \/ Closed(TRUE)) /\ pod' \in Pod
      BY <2>2, UnsyncedCloses, SyncedCloses
    <3> QED
      BY <3>1 DEF Closed, Saves, OSTypeOK
  <2> QED
    BY <2>1, <2>2
<1> QED
  BY <1>1, <1>2, <1>3 DEF OSTypeOK, ChannelOthersUnchanged, imgVars
----------------------------------------------------------------------------
\* The images.
LEMMA ImageTypes ==
  ASSUME NEW c \in Image
  PROVE  /\ Labelled(c) \in Image /\ Pinned(Labelled(c)) \in Image
         /\ [Pinned(Labelled(c)) EXCEPT !.created = TRUE] \in Image
         /\ UpgradeImage(c) \in Targets
<1>1. \A e \in Image : Labelled(e) \in Image /\ Pinned(e) \in Image
  BY DEF Labelled, Pinned, Image
<1>2. \A e \in Image : [e EXCEPT !.created = TRUE] \in Image
  BY DEF Image
<1>3. UpgradeImage(c) \in Targets
  <2>1. Pinned(c).pin \in Targets /\ c.want \in Targets
    BY <1>1 DEF Image
  <2> QED
    BY <2>1 DEF UpgradeImage
<1> QED
  BY <1>1, <1>2, <1>3

LEMMA StoredTypes ==
  ASSUME OSTypeOK, NEW m \in Images, NEW c \in Image
  PROVE  Stored(m, c) \in Image
<1>1. imgCache[m] \in Image /\ img[m] \in Image /\ imgCache[m].created \in BOOLEAN
  BY DEF OSTypeOK, Image
<1>2. MetaOf(m, c) \in Image
  BY <1>1 DEF MetaOf, Image
<1> QED
  BY <1>1, <1>2 DEF Stored

LEMMA ImageEventTypes ==
  ASSUME OSTypeOK, NEW m \in Images, NEW o \in Image, ImageEvent(m, o)
  PROVE  img' \in [Images -> Image] /\ imgNote' \in [Images -> SUBSET Versions]
<1>1. img[m] \in Image /\ imgNote[m] \in SUBSET Versions
  BY DEF OSTypeOK
<1>2. imgNote[m] \cup ({img[m].want, o.want} \ {None}) \in SUBSET Versions
  BY <1>1, OSNamesAssumption DEF Image, Targets
<1> QED
  BY <1>2 DEF ImageEvent, OSTypeOK

\* A step of the version and image controllers.
LEMMA ImageStepTypes ==
  ASSUME OSTypeOK, ChannelSideUnchanged,
         vers' \in [Versions -> Version], versQueue' \subseteq Versions,
         img' \in [Images -> Image], imgCache' \in [Images -> Image],
         imgNote' \in [Images -> SUBSET Versions], imgQueue' \subseteq Images,
         bundle' \in [Images -> Targets \cup {"absent"}], faults' \in 0..MaxFaults
  PROVE  OSTypeOK'
BY DEF OSTypeOK, ChannelSideUnchanged, chVars, podVars

LEMMA ImageNextTypes ==
  ASSUME OSTypeOK, ImageNext
  PROVE  OSTypeOK'
<1>1. /\ vers \in [Versions -> Version] /\ img \in [Images -> Image]
      /\ imgCache \in [Images -> Image]
      /\ bundle \in [Images -> Targets \cup {"absent"}] /\ faults \in 0..MaxFaults
      /\ versQueue \subseteq Versions /\ imgQueue \subseteq Images
      /\ imgNote \in [Images -> SUBSET Versions]
  BY DEF OSTypeOK
<1>2. ASSUME NEW v \in Versions, ReconcileVersion(v) PROVE OSTypeOK'
  <2>1. vers' \in [Versions -> Version]
    <3>1. vers[v] \in Version /\ NoVersion \in Version
      BY <1>1 DEF NoVersion, Version
    <3>2. [vers[v] EXCEPT !.finalizer = TRUE] \in Version
      BY <3>1 DEF Version
    <3>3. Reconciled(v) \in Version
      BY <3>1, <3>2 DEF Reconciled
    <3> QED
      BY <1>1, <1>2, <3>3 DEF ReconcileVersion
  <2>2. versQueue' \subseteq Versions
    BY <1>1, <1>2 DEF ReconcileVersion
  <2> QED
    BY <1>1, <1>2, <2>1, <2>2, ImageStepTypes DEF ReconcileVersion, imgVars, NoFault
<1>3. ASSUME NEW m \in Images, ReconcileImage(m) \/ BundleFails(m) \/ ImageNotPatched(m)
      PROVE  OSTypeOK'
  <2>1. imgCache[m] \in Image
    BY <1>1
  <2>2. UpgradeImage(imgCache[m]) \in Targets
    BY <2>1, ImageTypes
  <2>3. BundleFor(m, imgCache[m]) \in Targets \cup {"absent"}
    BY <1>1, <2>2 DEF BundleFor
  <2>4. bundle' \in [Images -> Targets \cup {"absent"}]
    BY <1>1, <1>3, <2>3 DEF ReconcileImage, BundleFails, ImageNotPatched
  <2>5. faults' \in 0..MaxFaults
    BY <1>1, <1>3, OSBoundsAssumption
       DEF ReconcileImage, BundleFails, ImageNotPatched, Fault, NoFault
  <2>6. ASSUME NEW c \in Image, FinishImage(m, c)
        PROVE  /\ img' \in [Images -> Image] /\ imgNote' \in [Images -> SUBSET Versions]
               /\ UNCHANGED <<imgCache, vers, versQueue>> /\ ChannelSideUnchanged
    BY <2>6, StoredTypes, ImageEventTypes DEF FinishImage, versVars
  <2>10. imgQueue' \subseteq Images
    BY <1>1, <1>3 DEF ReconcileImage, BundleFails, ImageNotPatched
  <2>7. CASE ReconcileImage(m)
    <3>1. /\ img' \in [Images -> Image] /\ imgNote' \in [Images -> SUBSET Versions]
          /\ UNCHANGED <<imgCache, vers, versQueue>> /\ ChannelSideUnchanged
      BY <2>1, <2>6, <2>7, ImageTypes DEF ReconcileImage
    <3> QED
      BY <1>1, <2>4, <2>5, <2>10, <3>1, ImageStepTypes
  <2>8. CASE BundleFails(m)
    <3>1. /\ img' \in [Images -> Image] /\ imgNote' \in [Images -> SUBSET Versions]
          /\ UNCHANGED <<imgCache, vers, versQueue>> /\ ChannelSideUnchanged
      BY <2>1, <2>6, <2>8, ImageTypes DEF BundleFails
    <3> QED
      BY <1>1, <2>4, <2>5, <2>10, <3>1, ImageStepTypes
  <2>9. CASE ImageNotPatched(m)
    BY <1>1, <2>4, <2>5, <2>9, ImageStepTypes DEF ImageNotPatched, versVars
  <2> QED
    BY <1>3, <2>7, <2>8, <2>9
<1> QED
  BY <1>2, <1>3 DEF ImageNext

LEMMA OSMoveTypes ==
  ASSUME OSTypeOK, NEW kind \in Kinds, Move(kind)
  PROVE  moves' \in [Kinds -> Nat]
BY DEF OSTypeOK, Move

LEMMA UserNextTypes ==
  ASSUME OSTypeOK, UserNext
  PROVE  OSTypeOK'
<1>1. ASSUME NEW m \in Images, NEW o \in Image, WriteImage(m, o) PROVE OSTypeOK'
  <2>1. /\ img' \in [Images -> Image] /\ imgNote' \in [Images -> SUBSET Versions]
        /\ bundle' \in [Images -> Targets \cup {"absent"}]
    BY <1>1, ImageEventTypes DEF WriteImage, OSTypeOK
  <2>2. moves' \in [Kinds -> Nat]
    BY <1>1, OSMoveTypes DEF WriteImage, Kinds
  <2> QED
    BY <1>1, <2>1, <2>2
       DEF WriteImage, OSTypeOK, versionsUnchanged, versVars, chVars, podVars
<1>2. CASE EditChannel
  <2>1. ch' \in Channel
    <3>1. PICK spec \in Specs : ch' = [ch EXCEPT !.spec = spec, !.gen = @ + 1]
      BY <1>2 DEF EditChannel
    <3> DEFINE d == [ch EXCEPT !.spec = spec]
    <3>2. d \in Channel /\ ch' = [d EXCEPT !.gen = @ + 1]
      BY <3>1 DEF OSTypeOK, Channel
    <3> HIDE DEF d
    <3> QED
      BY <3>2 DEF Channel
  <2>2. moves' \in [Kinds -> Nat]
    BY <1>2, OSMoveTypes DEF EditChannel, Kinds
  <2> QED
    BY <1>2, <2>1, <2>2
       DEF EditChannel, OSTypeOK, versionsUnchanged, versVars, podVars, imgVars
<1>3. ASSUME NEW v \in Versions, DeleteVersion(v) PROVE OSTypeOK'
  <2>1. vers' \in [Versions -> Version] /\ versQueue' \subseteq Versions
    BY <1>3, DeletedTypes DEF DeleteVersion, WriteVersions, OSTypeOK
  <2>2. moves' \in [Kinds -> Nat]
    BY <1>3, OSMoveTypes DEF DeleteVersion, Kinds
  <2> QED
    BY <1>3, <2>1, <2>2 DEF DeleteVersion, OSTypeOK, chVars, podVars, imgVars
<1>4. ASSUME NEW m \in Images, CreateImage(m) PROVE OSTypeOK'
  <2>1. PICK v \in Targets, custom \in BOOLEAN :
          WriteImage(m, [NoImage EXCEPT !.phase = "live", !.want = v, !.custom = custom])
    BY <1>4 DEF CreateImage
  <2>2. [NoImage EXCEPT !.phase = "live", !.want = v, !.custom = custom] \in Image
    BY DEF NoImage, Image, Targets
  <2> QED
    BY <1>1, <2>1, <2>2
<1>5. ASSUME NEW m \in Images, EditImage(m) \/ DeleteImage(m) PROVE OSTypeOK'
  <2>1. img[m] \in Image
    BY DEF OSTypeOK
  <2>2. \A v \in Targets : [img[m] EXCEPT !.want = v] \in Image
    BY <2>1 DEF Image
  <2>3. [img[m] EXCEPT !.phase = "gone"] \in Image
    BY <2>1 DEF Image
  <2> QED
    BY <1>1, <1>5, <2>2, <2>3 DEF EditImage, DeleteImage
<1> QED
  BY <1>2, <1>3, <1>4, <1>5 DEF UserNext

LEMMA EnvironmentNextTypes ==
  ASSUME OSTypeOK, EnvironmentNext
  PROVE  OSTypeOK'
<1> USE DEF versionsUnchanged, versVars, chVars, podVars, imgVars
<1>1. NoPod \in Pod
  BY DEF NoPod, Pod
<1>2. CASE PodRuns
  BY <1>2 DEF PodRuns, OSTypeOK
<1>3. CASE PodEnds
  <2>1. pod' \in Pod
    BY <1>3 DEF PodEnds, OSTypeOK, Pod
  <2> QED
    BY <1>3, <2>1 DEF PodEnds, OSTypeOK
<1>4. CASE PodGone
  BY <1>1, <1>4 DEF PodGone, OSTypeOK
<1>5. CASE PodEvicted
  <2>1. moves' \in [Kinds -> Nat]
    BY <1>5, OSMoveTypes DEF PodEvicted, Kinds
  <2> QED
    BY <1>1, <1>5, <2>1 DEF PodEvicted, OSTypeOK
<1>6. CASE IntervalPasses
  <2>1. moves' \in [Kinds -> Nat]
    BY <1>6, OSMoveTypes DEF IntervalPasses, Kinds
  <2>2. ch' \in Channel /\ chCache' \in Channel
    BY <1>6 DEF IntervalPasses, OSTypeOK, Channel
  <2> QED
    BY <1>6, <2>1, <2>2 DEF IntervalPasses, OSTypeOK
<1>7. CASE SeeChannel
  BY <1>7 DEF SeeChannel, OSTypeOK
<1>8. CASE SeePod
  BY <1>8 DEF SeePod, OSTypeOK
<1>9. CASE Restart
  <2>1. faults' \in 0..MaxFaults
    BY <1>9, OSBoundsAssumption DEF Restart, Fault, OSTypeOK
  <2> QED
    BY <1>9, <2>1 DEF Restart, OSTypeOK
<1>10. ASSUME NEW m \in Images, SeeImage(m) PROVE OSTypeOK'
  BY <1>10 DEF SeeImage, OSTypeOK
<1> QED
  BY <1>2, <1>3, <1>4, <1>5, <1>6, <1>7, <1>8, <1>9, <1>10 DEF EnvironmentNext
----------------------------------------------------------------------------
\* The flags of versions that are held, deleted or released.
LEMMA FlagsSame ==
  ASSUME FlagsFollow, UNCHANGED <<listed, blind>>,
         \A v \in Versions : vers'[v].exists /\ vers'[v].own =>
           vers[v].exists /\ vers[v].own /\ vers'[v].flag = vers[v].flag
  PROVE  FlagsFollow'
BY DEF FlagsFollow, Owned

LEMMA VersionsChannelNext ==
  ASSUME VersionsInv, ChannelNext
  PROVE  VersionsInv'
<1>1. OSTypeOK /\ OSTypeOK' /\ ChannelOthersUnchanged /\ chCache' = chCache
  BY ChannelTypes, ChannelUnchanged DEF VersionsInv, ChannelOthersUnchanged
<1>2. \/ ch' = ch
      \/ chCache = ch /\ Saves(ch') /\ (ch'.ready = "Synced" => VersionsWritten)
  BY <1>1, UnsyncedCloses, SyncedCloses DEF Closed, DeprecationFails
<1>3. ch \in Channel /\ ch.gen \in Nat /\ ch.synced \in Nat
  BY <1>1 DEF OSTypeOK, Channel
<1>4. Noted(ch') /\ Noted(chCache') /\ CopyBehind'
  <2>1. CASE ch' = ch
    BY <1>1, <2>1 DEF VersionsInv, Noted, CopyBehind
  <2>2. CASE chCache = ch /\ Saves(ch')
    BY <1>1, <1>3, <2>2 DEF VersionsInv, Noted, CopyBehind, Saves, Enabled, Valid
  <2> QED
    BY <1>2, <2>1, <2>2
<1>5. ASSUME ch'.ready = "Synced", ch'.synced = ch'.gen PROVE FlagsFollow'
  <2>1. CASE VersionsWritten
    BY <1>1, <2>1, FlagsWritten
  <2>2. CASE ~VersionsWritten
    <3>1. /\ ch' = ch /\ FlagsFollow
      BY <1>2, <1>5, <2>2 DEF VersionsInv, VersionsFollowChannel, FlagsFollow
    <3>2. chCache.spec.enabled
      BY <1>5, <3>1 DEF VersionsInv, Noted, CopyBehind, Enabled
    <3>3. CASE VersionsNotWritten \/ OrphansNotFlagged
      BY <1>1, <3>1, <3>3, FlagsKept
    <3>4. CASE noVersionTouched
      BY <3>1, <3>4 DEF noVersionTouched, versVars, FlagsFollow, Owned
    <3> QED
      BY <2>2, <3>2, <3>3, <3>4
         DEF ChannelNext, ReconcileInvalid, ReconcileDisabled, DeprecationFails,
             StartSync, WaitForInterval, PodNotFound, PodUnreadable, PodOutdated,
             PodOngoing,
             PodFailed, LogsUnreadable
  <2> QED
    BY <2>1, <2>2
<1>6. VersionsFollowChannel'
  BY <1>5 DEF VersionsFollowChannel, FlagsFollow
<1> QED
  BY <1>1, <1>4, <1>6 DEF VersionsInv, Noted

\* The steps that leave the channel and its copy alone.
LEMMA VersionsSame ==
  ASSUME VersionsInv, OSTypeOK', UNCHANGED <<ch, chCache, listed, blind>>,
         \A v \in Versions : vers'[v].exists /\ vers'[v].own =>
           vers[v].exists /\ vers[v].own /\ vers'[v].flag = vers[v].flag
  PROVE  VersionsInv'
<1>1. VersionsFollowChannel'
  BY FlagsSame DEF VersionsInv, VersionsFollowChannel, FlagsFollow
<1> QED
  BY <1>1 DEF VersionsInv, Noted, CopyBehind, Enabled, Valid

LEMMA VersionsOthersNext ==
  ASSUME VersionsInv, ImageNext \/ UserNext \/ EnvironmentNext
  PROVE  VersionsInv'
<1> USE DEF versionsUnchanged, versVars, chVars, podVars, imgVars, ChannelSideUnchanged
<1>1. OSTypeOK /\ OSTypeOK'
  BY ImageNextTypes, UserNextTypes, EnvironmentNextTypes DEF VersionsInv
<1>2. ASSUME NEW v \in Versions, ReconcileVersion(v) PROVE VersionsInv'
  <2>1. /\ UNCHANGED <<ch, chCache, listed, blind>>
        /\ vers[v] \in Version /\ vers' = [vers EXCEPT ![v] = Reconciled(v)]
    BY <1>1, <1>2 DEF ReconcileVersion, OSTypeOK
  <2>2. Reconciled(v).exists => /\ vers[v].exists /\ Reconciled(v).own = vers[v].own
                               /\ Reconciled(v).flag = vers[v].flag
    BY <2>1 DEF Reconciled, Version, NoVersion
  <2>3. \A w \in Versions : vers'[w].exists /\ vers'[w].own =>
          vers[w].exists /\ vers[w].own /\ vers'[w].flag = vers[w].flag
    BY <1>1, <2>1, <2>2 DEF OSTypeOK
  <2> QED
    BY <1>1, <2>1, <2>3, VersionsSame
<1>3. ASSUME NEW m \in Images, ReconcileImage(m) \/ BundleFails(m) \/ ImageNotPatched(m)
      PROVE  VersionsInv'
  <2>1. UNCHANGED <<ch, chCache, listed, blind, vers>>
    BY <1>3 DEF ReconcileImage, BundleFails, ImageNotPatched, FinishImage
  <2> QED
    BY <1>1, <2>1, VersionsSame
<1>4. ASSUME NEW v \in Versions, DeleteVersion(v) PROVE VersionsInv'
  <2>1. vers[v] \in Version /\ vers' = [vers EXCEPT ![v] = Deleted(vers[v])]
    BY <1>1, <1>4 DEF DeleteVersion, WriteVersions, OSTypeOK
  <2>2. \A w \in Versions : vers'[w].exists /\ vers'[w].own =>
          vers[w].exists /\ vers[w].own /\ vers'[w].flag = vers[w].flag
    BY <1>1, <2>1, DeletedTypes DEF OSTypeOK
  <2> QED
    BY <1>1, <1>4, <2>2, VersionsSame DEF DeleteVersion
<1>5. ASSUME NEW m \in Images, CreateImage(m) \/ EditImage(m) \/ DeleteImage(m)
      PROVE  VersionsInv'
  <2>1. \E o : WriteImage(m, o)
    BY <1>5 DEF CreateImage, EditImage, DeleteImage
  <2> QED
    BY <1>1, <2>1, VersionsSame DEF WriteImage
<1>6. CASE PodRuns \/ PodEnds \/ PodGone \/ PodEvicted \/ SeePod
  BY <1>1, <1>6, VersionsSame DEF PodRuns, PodEnds, PodGone, PodEvicted, SeePod
<1>7. ASSUME NEW m \in Images, SeeImage(m) PROVE VersionsInv'
  BY <1>1, <1>7, VersionsSame DEF SeeImage
\* A new generation is not synced yet, and newer than every copy.
<1>8. CASE EditChannel
  <2>1. /\ ch'.gen = ch.gen + 1 /\ ch'.synced = ch.synced /\ ch.gen \in Nat
        /\ ch.synced \in Nat /\ chCache.gen \in Nat /\ chCache' = chCache
    BY <1>1, <1>8 DEF EditChannel, OSTypeOK, Channel
  <2>2. ch'.synced # ch'.gen /\ ch'.synced <= ch'.gen /\ chCache'.gen <= ch'.gen
        /\ chCache'.gen # ch'.gen
    BY <2>1 DEF VersionsInv, Noted, CopyBehind
  <2> QED
    BY <1>1, <2>1, <2>2 DEF VersionsInv, Noted, CopyBehind, VersionsFollowChannel
<1>9. CASE IntervalPasses
  <2>1. /\ ch'.gen = ch.gen /\ ch'.synced = ch.synced /\ ch'.spec = ch.spec
        /\ ch'.ready = ch.ready
        /\ chCache'.gen = chCache.gen /\ chCache'.synced = chCache.synced
        /\ chCache'.spec = chCache.spec
        /\ UNCHANGED <<vers, listed, blind>>
    BY <1>1, <1>9 DEF IntervalPasses, OSTypeOK, Channel
  <2> QED
    BY <1>1, <2>1
       DEF VersionsInv, Noted, CopyBehind, Enabled, Valid, VersionsFollowChannel, Owned
<1>10. CASE SeeChannel \/ Restart
  <2>1. chCache' = ch /\ UNCHANGED <<ch, vers, listed, blind>> /\ ch.gen \in Nat
    BY <1>1, <1>10 DEF SeeChannel, Restart, OSTypeOK, Channel
  <2> QED
    BY <1>1, <2>1
       DEF VersionsInv, Noted, CopyBehind, Enabled, Valid, VersionsFollowChannel, Owned
<1> QED
  BY <1>2, <1>3, <1>4, <1>5, <1>6, <1>7, <1>8, <1>9, <1>10
     DEF ImageNext, UserNext, EnvironmentNext

\* Types, the generation that was synced and the flags, together: a version
\* is flagged against the listing of the generation the channel notes.
THEOREM VersionsInvariant == Spec => []VersionsInv
<1>1. Init => VersionsInv
  <2> SUFFICES ASSUME Init PROVE VersionsInv
    OBVIOUS
  <2>1. PICK start \in Starts :
          /\ ch = NewChannel(start.spec)
          /\ pod = start.pod
          /\ vers = [v \in Versions |-> IF v \in start.versions THEN NewVersion
                                        ELSE IF v \in start.foreign THEN ForeignVersion
                                        ELSE NoVersion]
          /\ moves = start.moves
    BY DEF Init
  <2>2. /\ NewVersion \in Version /\ ForeignVersion \in Version /\ NoVersion \in Version
        /\ NoImage \in Image
    BY DEF NewVersion, ForeignVersion, NoVersion, Version, NoImage, Image, Targets
  <2>3. ch \in Channel /\ ch.synced = 0 /\ ch.gen = 1 /\ ch.ready = "none"
    BY <2>1, OSStartsAssumption DEF NewChannel, Channel, Reasons
  <2>4. OSTypeOK
    <3>1. pod \in Pod /\ moves \in [Kinds -> Nat]
      BY <2>1, OSStartsAssumption
    <3>2. vers \in [Versions -> Version]
      BY <2>1, <2>2
    <3>3. /\ img \in [Images -> Image] /\ imgCache \in [Images -> Image]
          /\ bundle \in [Images -> Targets \cup {"absent"}]
      BY <2>2 DEF Init
    <3>4. faults \in 0..MaxFaults
      BY OSBoundsAssumption DEF Init
    <3> QED
      BY <2>3, <3>1, <3>2, <3>3, <3>4 DEF Init, OSTypeOK
  <2> QED
    BY <2>3, <2>4 DEF Init, VersionsInv, Noted, CopyBehind, VersionsFollowChannel
<1>2. VersionsInv /\ [Next]_vars => VersionsInv'
  <2> SUFFICES ASSUME VersionsInv, [Next]_vars PROVE VersionsInv'
    OBVIOUS
  <2>1. CASE UNCHANGED vars
    BY <2>1
       DEF vars, chVars, podVars, versVars, imgVars, VersionsInv, OSTypeOK, Noted, CopyBehind,
           Enabled, Valid, VersionsFollowChannel, Owned
  <2> QED
    BY <2>1, VersionsChannelNext, VersionsOthersNext DEF Next
<1> QED
  BY <1>1, <1>2, PTL DEF Spec

\* Every variable of the OS version controllers keeps its type.
THEOREM OSTypes == Spec => []TypeOK
<1>1. VersionsInv => TypeOK
  BY DEF VersionsInv, TypeOK
<1> QED
  BY <1>1, VersionsInvariant, PTL

\* While the channel is Synced for its generation, the versions say what its
\* last synchronization had listed.
THEOREM VersionsFollow == Spec => []VersionsFollowChannel
<1>1. VersionsInv => VersionsFollowChannel
  BY DEF VersionsInv
<1> QED
  BY <1>1, VersionsInvariant, PTL
=============================================================================
