-------------------------- MODULE SeedImageProofs --------------------------
(***************************************************************************)
(* The SeedImage controller, its Pod and the download server: every        *)
(* variable keeps its type, a download finds the file its URL names, and   *)
(* an image that was available and is cleaned up is not built again, for   *)
(* any lag of the caches, any faults and any moves of the user and the     *)
(* cluster.                                                                *)
(***************************************************************************)
EXTENDS SeedImageLifecycle, TLAPS

(***************************************************************************)
(* A reconcile that does not answer a request patches the status at most:  *)
(* image is the reason it computed.  A patch of the conditions is made     *)
(* only when they differ from the copy that was read, so a reason that is  *)
(* computed again and again is not written over a newer one.               *)
(***************************************************************************)
Written(image) ==
  \/ seed'.cond = seed.cond
  \/ /\ seed'.cond.image = image
     /\ image = "ExposeFailure" =>
          seed'.cond.ready = "False" /\ seedCache.cond.image # "ExposeFailure"

StatusPatched(image, url) ==
  /\ seed' \in Seed /\ svc' \in BOOLEAN /\ faults' \in 0..MaxFaults
  /\ seed'.trigger = seed.trigger
  /\ seed'.url = seed.url \/ (seed'.url = url /\ url # seedCache.url)
  /\ Written(image)

\* The copies that do not lag.
CopiesCurrent ==
  /\ "seed" \in start.lags \/ seedCache = seed
  /\ "pod" \in start.lags \/ podCache = pod

\* Reaching ExposeFailure takes Ready away.
NotExposed(c) == c.cond.image = "ExposeFailure" => c.cond.ready = "False"

Typed == TypeOK /\ CopiesCurrent /\ NotExposed(seed) /\ NotExposed(seedCache)

----------------------------------------------------------------------------
\* The updates of a copy.
LEMMA CopyTypes ==
  ASSUME NEW c \in Seed, NEW reason \in ImageReasons
  PROVE  /\ With(c, reason) \in Seed /\ With(c, reason).cond.image = reason
         /\ With(c, reason).cond.ready = c.cond.ready
         /\ With(c, reason).url = c.url /\ With(c, reason).trigger = c.trigger
         /\ With(c, reason).base = c.base
<1> DEFINE k == [c.cond EXCEPT !.image = reason]
<1>1. /\ k \in [ready : {"none", "True", "False"}, image : ImageReasons]
      /\ k.image = reason /\ k.ready = c.cond.ready
  BY DEF Seed
<1>2. With(c, reason) = [c EXCEPT !.cond = k]
  BY DEF With, Seed
<1> HIDE DEF k
<1> QED
  BY <1>1, <1>2 DEF Seed

LEMMA ReadyTypes ==
  ASSUME NEW c \in Seed, NEW d, d \in {Ready(c), NotReady(c)}
  PROVE  /\ d \in Seed /\ d.cond.image = c.cond.image
         /\ d.url = c.url /\ d.trigger = c.trigger
         /\ d = NotReady(c) => d.cond.ready = "False"
<1> DEFINE k == [c.cond EXCEPT !.ready = "True"]
           l == [c.cond EXCEPT !.ready = "False"]
<1>1. /\ k \in [ready : {"none", "True", "False"}, image : ImageReasons]
      /\ k.image = c.cond.image /\ k.ready = "True"
      /\ l \in [ready : {"none", "True", "False"}, image : ImageReasons]
      /\ l.image = c.cond.image /\ l.ready = "False"
  BY DEF Seed
<1>2. Ready(c) = [c EXCEPT !.cond = k] /\ NotReady(c) = [c EXCEPT !.cond = l]
  BY DEF Ready, NotReady, Seed
<1> HIDE DEF k, l
<1> QED
  BY <1>1, <1>2 DEF Seed

LEMMA StoreWrites ==
  ASSUME Typed, NEW d \in Seed, NEW n \in Nat, Store(d, n)
  PROVE  /\ seed' \in Seed /\ faults' \in 0..MaxFaults
         /\ \/ seed'.trigger = seed.trigger
            \/ seed'.trigger = d.trigger /\ d.trigger # seedCache.trigger
         /\ seed'.trigger => seed.trigger \/ d.trigger
         /\ \/ seed'.cond = seed.cond
            \/ seed'.cond = d.cond /\ d.cond # seedCache.cond
         /\ \/ seed'.url = seed.url
            \/ seed'.url = d.url /\ d.url # seedCache.url
<1> PICK spec \in BOOLEAN, status \in BOOLEAN :
      /\ spec \/ d.trigger # seedCache.trigger
      /\ seed' = Patched(seedCache, d, spec, status)
      /\ Fault(n + (IF spec /\ status THEN 0 ELSE 1))
  BY DEF Store
<1>1. seed \in Seed /\ seedCache \in Seed /\ faults \in 0..MaxFaults
  BY DEF Typed, TypeOK
<1>2. faults' \in 0..MaxFaults
  <2>1. PICK k \in {0, 1} : Fault(n + k)
    OBVIOUS
  <2> QED
    BY <1>1, <2>1, SeedAssumption DEF Fault
<1> DEFINE t == IF spec /\ d.trigger # seedCache.trigger THEN d.trigger ELSE seed.trigger
           k == IF status /\ d.cond # seedCache.cond THEN d.cond ELSE seed.cond
           u == IF status /\ d.url # seedCache.url THEN d.url ELSE seed.url
<1>3. seed' = [base |-> seed.base, trigger |-> t, cond |-> k, url |-> u]
  BY <1>1 DEF Patched, Seed
<1>4. /\ t \in BOOLEAN /\ u \in Names
      /\ k \in [ready : {"none", "True", "False"}, image : ImageReasons]
  BY <1>1 DEF Seed
<1> QED
  <2> HIDE DEF t, k, u
  <2>1. /\ seed' \in Seed /\ seed'.trigger = t /\ seed'.cond = k /\ seed'.url = u
    BY <1>1, <1>3, <1>4 DEF Seed
  <2> QED
    BY <1>2, <2>1 DEF t, k, u

\* The last step of a reconcile.
LEMMA ServiceWrites ==
  ASSUME Typed, NEW d \in Seed, d.trigger = seedCache.trigger,
         d.cond.image # "ExposeFailure", createBuildImageService(d)
  PROVE  StatusPatched(d.cond.image, d.url)
<1>1. svc' \in BOOLEAN
  BY DEF createBuildImageService, Typed, TypeOK
<1>2. PICK e \in {Ready(d), NotReady(d)}, n \in {0, 1} : Store(e, n)
  BY DEF createBuildImageService
<1>3. /\ e \in Seed /\ e.cond.image = d.cond.image
      /\ e.url = d.url /\ e.trigger = d.trigger
  BY ReadyTypes
<1>4. n \in Nat
  OBVIOUS
<1> QED
  BY <1>1, <1>2, <1>3, <1>4, StoreWrites DEF StatusPatched, Written

\* An earlier step failed.
LEMMA AbortWrites ==
  ASSUME Typed, NEW d \in Seed, d.trigger = seedCache.trigger,
         d.url = seedCache.url, NEW n \in Nat, Abort(d, n)
  PROVE  StatusPatched(d.cond.image, seedCache.url) /\ svc' = svc
<1> DEFINE e == NotReady(d)
<1>1. /\ e \in Seed /\ e.cond.image = d.cond.image
      /\ e.url = d.url /\ e.trigger = d.trigger /\ e.cond.ready = "False"
  BY ReadyTypes
<1>2. Store(e, n) /\ svc' = svc /\ svc' \in BOOLEAN
  BY DEF Abort, Typed, TypeOK
<1> HIDE DEF e
<1>3. /\ seed' \in Seed /\ faults' \in 0..MaxFaults
      /\ seed'.trigger = seed.trigger /\ seed'.url = seed.url
      /\ \/ seed'.cond = seed.cond
         \/ seed'.cond = e.cond /\ e.cond # seedCache.cond
  BY <1>1, <1>2, StoreWrites
<1>4. CASE seed'.cond = seed.cond
  BY <1>2, <1>3, <1>4 DEF StatusPatched, Written
<1>5. CASE seed'.cond = e.cond /\ e.cond # seedCache.cond
  <2>1. /\ e.cond \in [ready : {"none", "True", "False"}, image : ImageReasons]
        /\ seedCache.cond \in [ready : {"none", "True", "False"}, image : ImageReasons]
    BY <1>1 DEF Typed, TypeOK, Seed
  <2>2. e.cond.image = "ExposeFailure" => seedCache.cond.image # "ExposeFailure"
    BY <1>1, <1>5, <2>1 DEF Typed, NotExposed
  <2> QED
    BY <1>1, <1>2, <1>3, <1>5, <2>2 DEF StatusPatched, Written
<1> QED
  BY <1>3, <1>4, <1>5
----------------------------------------------------------------------------
\* The Pod and the ConfigMap.
LEMMA PodTypes ==
  ASSUME Typed
  PROVE  /\ NoPod \in Pod /\ NoPod.phase = "absent" /\ NoPod.name = 0 /\ ~NoPod.deleting
         /\ fillBuildImagePod(seedCache) \in Pod
         /\ fillBuildImagePod(seedCache).phase = "Pending"
         /\ fillBuildImagePod(seedCache).name = 0
         /\ ~fillBuildImagePod(seedCache).deleting
<1>1. 0 \in Names /\ start.base \in Bases /\ seedCache.base \in Bases
  BY SeedAssumption DEF Typed, TypeOK, Names, Seed
<1> QED
  BY <1>1 DEF NoPod, Pod, fillBuildImagePod

LEMMA PodDeletionTypes ==
  ASSUME Typed, pod.phase # "absent", NEW p \in PodDeletions(pod)
  PROVE  /\ p \in Pod
         /\ \/ p = NoPod
            \/ /\ p.deleting /\ p.phase = pod.phase /\ p.name = pod.name
               /\ pod.phase \in {"Pending", "Running"}
<1>1. pod \in Pod
  BY DEF Typed, TypeOK
<1> DEFINE t == [pod EXCEPT !.deleting = TRUE]
<1>2. t \in Pod /\ t.deleting /\ t.phase = pod.phase /\ t.name = pod.name
  BY <1>1 DEF Pod
<1>3. \/ p = NoPod
      \/ p = t /\ pod.phase \in {"Pending", "Running"}
  BY DEF PodDeletions
<1> HIDE DEF t
<1> QED
  BY <1>2, <1>3, PodTypes

LEMMA ConfigMapWrites ==
  ASSUME Typed, reconcileConfigMapObject
  PROVE  /\ cm' \in ConfigMap
         /\ \/ cm.exists /\ cm'.name = cm.name
            \/ /\ ~cm.exists /\ cm'.name = cm.name + 1
               /\ pod.name # 0 \/ seed.url # 0 => renamed'
         /\ renamed => renamed'
         /\ renamed' \in BOOLEAN
         /\ UNCHANGED <<reg, moves>>
<1>1. /\ cm \in ConfigMap /\ seedCache.base \in Bases /\ reg.config \in BOOLEAN
      /\ renamed \in BOOLEAN
  BY DEF Typed, TypeOK, Seed
<1>2. CASE cm.exists
  <2>1. cm' \in ConfigMap /\ cm'.name = cm.name
    BY <1>1, <1>2 DEF reconcileConfigMapObject, ConfigMapNow, UpToDate, ConfigMap
  <2> QED
    BY <1>1, <1>2, <2>1 DEF reconcileConfigMapObject
<1>3. CASE ~cm.exists
  <2>1. cm.name \in Nat /\ cm.name < MaxNames /\ cm.name + 1 \in Names
    BY <1>1, <1>3, SeedAssumption DEF reconcileConfigMapObject, ConfigMap, Names
  <2>2. cm' \in ConfigMap /\ cm'.name = cm.name + 1
    BY <1>1, <1>3, <2>1 DEF reconcileConfigMapObject, ConfigMapNow, UpToDate, ConfigMap
  <2> QED
    BY <1>1, <1>3, <2>2 DEF reconcileConfigMapObject
<1> QED
  BY <1>2, <1>3

\* Copies that do not lag stay current.
LEMMA CopiesFollow ==
  ASSUME Typed, CachesFollow, seed' \in Seed, pod' \in Pod, svc' \in BOOLEAN
  PROVE  /\ CopiesCurrent' /\ start' = start
         /\ seedCache' \in {seedCache, seed'} /\ seedCache' \in Seed
         /\ podCache' \in {podCache, pod'} /\ podCache' \in Pod
         /\ svcCache' \in BOOLEAN
BY DEF Typed, TypeOK, CachesFollow, CopiesCurrent

----------------------------------------------------------------------------
\* What the reconciles do, as far as the proofs need it.
Idle == SetOwnerFails \/ AfterDeadline \/ ConfigMapFails

LEMMA IdleWrites ==
  ASSUME Typed, Idle
  PROVE  /\ StatusPatched(seedCache.cond.image, seedCache.url)
         /\ cm' \in ConfigMap /\ cm'.name = cm.name
         /\ ~seedCache.trigger
         /\ UNCHANGED <<pod, reg, moves, build, renamed>>
         /\ CachesFollow
<1>1. seedCache \in Seed /\ cm \in ConfigMap
  BY DEF Typed, TypeOK
<1>2. CASE SetOwnerFails
  <2>1. Abort(seedCache, 0)
    BY <1>2 DEF SetOwnerFails, Abort
  <2> QED
    BY <1>1, <1>2, <2>1, AbortWrites DEF SetOwnerFails
<1>3. CASE AfterDeadline
  BY <1>1, <1>3, ServiceWrites DEF AfterDeadline
<1>4. CASE ConfigMapFails
  <2>1. cm' \in ConfigMap /\ cm'.name = cm.name
    BY <1>1, <1>4 DEF ConfigMapFails, ConfigMap
  <2> QED
    BY <1>1, <1>4, <2>1, AbortWrites DEF ConfigMapFails, Builds
<1> QED
  BY <1>2, <1>3, <1>4 DEF Idle

\* Keeps p, or makes a new Pod in its place.
Kept(p) ==
  /\ pod' = p
  /\ build' = build
  /\ StatusPatched(seedCache.cond.image, seedCache.url)

Made(p) ==
  /\ ~ConditionMet(seedCache)
  /\ \/ pod' = p
     \/ p.phase = "absent" /\ pod' = fillBuildImagePod(seedCache)
  /\ build' = build \/ (build' = "begun" /\ ~seed.trigger)
  /\ \E image \in {"Ongoing", "NotStarted"} :
       StatusPatched(image, seedCache.url)

LEMMA CreateWrites ==
  ASSUME Typed, NEW p \in Pod, createPod(p)
  PROVE  Kept(p) \/ Made(p)
<1>1. seedCache \in Seed
  BY DEF Typed, TypeOK
<1>2. ASSUME ConditionMet(seedCache), createBuildImageService(seedCache)
      PROVE  StatusPatched(seedCache.cond.image, seedCache.url)
  BY <1>1, <1>2, ServiceWrites DEF ConditionMet
<1>3. ASSUME createBuildImageService(With(seedCache, "Ongoing"))
      PROVE  StatusPatched("Ongoing", seedCache.url)
  <2>1. "Ongoing" \in ImageReasons
    BY DEF ImageReasons
  <2> QED
    BY <1>1, <1>3, <2>1, CopyTypes, ServiceWrites
<1>4. ASSUME Abort(With(seedCache, "NotStarted"), 1)
      PROVE  StatusPatched("NotStarted", seedCache.url)
  <2>1. "NotStarted" \in ImageReasons /\ 1 \in Nat
    BY DEF ImageReasons
  <2> QED
    BY <1>1, <1>4, <2>1, CopyTypes, AbortWrites
<1> QED
  BY <1>2, <1>3, <1>4 DEF createPod, Kept, Made, NoteBegun
Creating == PodNotFound \/ PodNotUpToDate

LEMMA CreatingWrites ==
  ASSUME Typed, Creating
  PROVE  /\ reconcileConfigMapObject /\ CachesFollow /\ ~seedCache.trigger
         /\ \/ Kept(pod)
            \/ podCache.phase = "absent" /\ Made(pod)
            \/ /\ pod.phase # "absent"
               /\ \E p \in PodDeletions(pod) : Kept(p) \/ Made(p)
<1>1. seedCache \in Seed /\ pod \in Pod
  BY DEF Typed, TypeOK
<1>2. ASSUME NEW n \in Nat, Abort(seedCache, n), UNCHANGED <<pod, build>>
      PROVE  Kept(pod)
  BY <1>1, <1>2, AbortWrites DEF Kept
<1>3. /\ reconcileConfigMapObject /\ CachesFollow /\ ~seedCache.trigger
  BY DEF Creating, PodNotFound, PodNotUpToDate, reconcileConfigMapObject, Builds
<1>4. CASE PodNotFound
  BY <1>1, <1>3, <1>4, CreateWrites DEF PodNotFound
<1>5. CASE PodNotUpToDate
  <2>1. CASE \E n \in {0, 1} : Abort(seedCache, n) /\ UNCHANGED <<pod, build>>
    BY <1>2, <1>3, <2>1
  <2>2. CASE /\ pod.phase # "absent"
             /\ \E p \in PodDeletions(pod) : createPod(p)
    BY <1>3, <2>2, CreateWrites, PodDeletionTypes
  <2> QED
    BY <1>5, <2>1, <2>2 DEF PodNotUpToDate
<1> QED
  BY <1>4, <1>5 DEF Creating

\* The status that follows from the Pod in the cache.
Computed(image, url) ==
  \/ image = "NotStarted" /\ podCache.deleting /\ url = seedCache.url
  \/ /\ image = seedCache.cond.image /\ ConditionMet(seedCache)
     /\ podCache.phase # "Succeeded" /\ url = seedCache.url
  \/ image = seedCache.cond.image /\ podCache.phase = "Running" /\ url = seedCache.url
  \/ image = "Ongoing" /\ podCache.phase = "Pending" /\ url = seedCache.url
  \/ image = "Success" /\ podCache.phase = "Running" /\ url = cm'.name
  \/ image = "ExposeFailure" /\ podCache.phase = "Running" /\ url = seedCache.url
  \/ image = "Failure" /\ podCache.phase = "Failed" /\ url = seedCache.url
  \/ image = "Deadline" /\ podCache.phase = "Succeeded" /\ url = 0
  \/ image = "DeadlineFailed" /\ podCache.phase = "Succeeded" /\ url = seedCache.url

Syncing == PodTerminates \/ AlreadySynced \/ PodPending \/ PodRunning
           \/ PodFailed \/ PodSucceeded

\* The writes of a synchronization.
LEMMA SyncedWrites ==
  ASSUME Typed, NEW image \in ImageReasons, image # "ExposeFailure",
         createBuildImageService(With(seedCache, image))
  PROVE  StatusPatched(image, seedCache.url)
<1>1. seedCache \in Seed
  BY DEF Typed, TypeOK
<1> QED
  BY <1>1, CopyTypes, ServiceWrites

LEMMA UnsyncedWrites ==
  ASSUME Typed, NEW image \in ImageReasons, NEW n \in Nat,
         Abort(With(seedCache, image), n)
  PROVE  StatusPatched(image, seedCache.url)
<1>1. seedCache \in Seed
  BY DEF Typed, TypeOK
<1> QED
  BY <1>1, CopyTypes, AbortWrites

LEMMA AddressedWrites ==
  ASSUME Typed, NEW image \in ImageReasons, image # "ExposeFailure", NEW u \in Names,
         createBuildImageService([With(seedCache, image) EXCEPT !.url = u])
  PROVE  StatusPatched(image, u)
<1> DEFINE c == With(seedCache, image)
           d == [c EXCEPT !.url = u]
<1>1. c \in Seed /\ c.cond.image = image /\ c.trigger = seedCache.trigger
  BY CopyTypes DEF Typed, TypeOK
<1> HIDE DEF c
<1>2. /\ d \in Seed /\ d.cond.image = image /\ d.trigger = seedCache.trigger
      /\ d.url = u
  BY <1>1 DEF Seed
<1>3. createBuildImageService(d)
  BY DEF c
<1> HIDE DEF d
<1> QED
  BY <1>2, <1>3, ServiceWrites

LEMMA SyncingWrites ==
  ASSUME Typed, Syncing
  PROVE  /\ reconcileConfigMapObject /\ CachesFollow /\ NoteAvailable
         /\ ~seedCache.trigger /\ podCache.phase # "absent"
         /\ \/ pod' = pod
            \/ /\ podCache.phase = "Succeeded" /\ pod.phase # "absent"
               /\ pod' \in PodDeletions(pod)
         /\ \E image \in ImageReasons, url \in Names :
              StatusPatched(image, url) /\ Computed(image, url)
<1>1. /\ seedCache \in Seed /\ seedCache.url \in Names /\ 0 \in Names
      /\ seedCache.cond.image \in ImageReasons
  BY SeedAssumption DEF Typed, TypeOK, Seed, Names
<1>2. /\ reconcileConfigMapObject /\ CachesFollow /\ NoteAvailable
      /\ ~seedCache.trigger /\ podCache.phase # "absent"
  BY DEF Syncing, PodTerminates, AlreadySynced, PodPending, PodRunning,
         PodFailed, PodSucceeded, Sync, PodFound, reconcileConfigMapObject, Builds
<1>3. cm'.name \in Names
  BY <1>2, ConfigMapWrites DEF ConfigMap
<1>4. \A image \in {"NotStarted", "Ongoing", "Failure", "Success", "Deadline",
                    "ExposeFailure", "DeadlineFailed"} : image \in ImageReasons
  BY DEF ImageReasons
<1>5. CASE PodTerminates
  BY <1>1, <1>2, <1>4, <1>5, SyncedWrites DEF PodTerminates, Computed
<1>6. CASE AlreadySynced
  <2>1. StatusPatched(seedCache.cond.image, seedCache.url)
    BY <1>1, <1>6, ServiceWrites DEF AlreadySynced, ConditionMet
  <2> QED
    BY <1>1, <1>2, <1>6, <2>1 DEF AlreadySynced, Computed
<1>7. CASE PodPending
  BY <1>1, <1>2, <1>4, <1>7, SyncedWrites DEF PodPending, Sync, Computed
<1>8. CASE PodRunning
  <2>1. podCache.phase = "Running" /\ pod' = pod
    BY <1>8 DEF PodRunning, Sync
  <2>2. CASE createBuildImageService([With(seedCache, "Success") EXCEPT !.url = cm'.name])
    BY <1>1, <1>2, <1>3, <1>4, <2>1, <2>2, AddressedWrites DEF Computed
  <2>3. CASE \E n \in {0, 1} : Abort(With(seedCache, "ExposeFailure"), n)
    BY <1>1, <1>2, <1>4, <2>1, <2>3, UnsyncedWrites DEF Computed
  <2>4. CASE Abort(seedCache, 1)
    <3>1. StatusPatched(seedCache.cond.image, seedCache.url)
      BY <1>1, <2>4, AbortWrites
    <3> QED
      BY <1>1, <1>2, <2>1, <3>1 DEF Computed
  <2> QED
    BY <1>8, <2>2, <2>3, <2>4 DEF PodRunning
<1>9. CASE PodFailed
  BY <1>1, <1>2, <1>4, <1>9, SyncedWrites DEF PodFailed, Sync, Computed
<1>10. CASE PodSucceeded
  <2>1. podCache.phase = "Succeeded"
    BY <1>10 DEF PodSucceeded, Sync
  <2>2. CASE /\ pod.phase # "absent"
             /\ pod' \in PodDeletions(pod)
             /\ createBuildImageService(NoURL(With(seedCache, "Deadline")))
    BY <1>1, <1>2, <1>4, <2>1, <2>2, AddressedWrites DEF Computed, NoURL
  <2>3. CASE UNCHANGED pod /\ \E n \in {0, 1} : Abort(With(seedCache, "DeadlineFailed"), n)
    BY <1>1, <1>2, <1>4, <2>1, <2>3, UnsyncedWrites DEF Computed
  <2> QED
    BY <1>10, <2>2, <2>3 DEF PodSucceeded
<1> QED
  BY <1>5, <1>6, <1>7, <1>8, <1>9, <1>10 DEF Syncing

\* The answer to a request: the conditions go, and the URL with them or not.
LEMMA RetriggeredWrites ==
  ASSUME Typed, Retriggered
  PROVE  /\ seed' \in Seed /\ svc' \in BOOLEAN /\ faults' \in 0..MaxFaults
         /\ seedCache.trigger
         /\ seed'.trigger => seed.trigger
         /\ seed'.url \in {seed.url, 0}
         /\ seed'.cond \in {seed.cond, NoConditions}
         /\ \/ pod' = pod
            \/ pod.phase # "absent" /\ pod' \in PodDeletions(pod)
         /\ build' = build \/ (build' = "lost" /\ ~seed'.trigger)
         /\ UNCHANGED <<cm, reg, moves, renamed>> /\ CachesFollow
<1>1. seedCache \in Seed /\ svc \in BOOLEAN /\ seedCache.trigger /\ NoConditions \in
        [ready : {"none", "True", "False"}, image : ImageReasons]
  BY DEF Typed, TypeOK, Retriggered, NoConditions, ImageReasons
<1> DEFINE d == Reset(seedCache)
           e == NoURL(d)
<1>2. /\ d \in Seed /\ d.cond = NoConditions /\ ~d.trigger /\ d.url = seedCache.url
  BY <1>1 DEF Reset, Seed
<1>3. /\ e \in Seed /\ e.cond = NoConditions /\ ~e.trigger /\ e.url = 0
  <2> HIDE DEF d
  <2> QED
    BY <1>2, SeedAssumption DEF NoURL, Seed, Names
<1>4. \E c \in {d, e}, n \in {0, 1} : Store(c, n)
  BY DEF Retriggered
<1> HIDE DEF d, e
<1>5. /\ seed' \in Seed /\ faults' \in 0..MaxFaults
      /\ seed'.trigger => seed.trigger
      /\ seed'.url \in {seed.url, 0}
      /\ seed'.cond \in {seed.cond, NoConditions}
  <2>1. PICK c \in {d, e}, n \in {0, 1} : Store(c, n)
    BY <1>4
  <2>2. n \in Nat
    OBVIOUS
  <2>3. /\ c \in Seed /\ c.cond = NoConditions /\ ~c.trigger
        /\ c.url = seedCache.url \/ c.url = 0
    BY <1>2, <1>3, <2>1
  <2>4. seed' \in Seed /\ faults' \in 0..MaxFaults
    BY <2>1, <2>2, <2>3, StoreWrites
  <2>5. seed'.trigger => seed.trigger
    BY <2>1, <2>2, <2>3, StoreWrites
  <2>6. seed'.cond \in {seed.cond, NoConditions}
    BY <2>1, <2>2, <2>3, StoreWrites
  <2>7. seed'.url \in {seed.url, 0}
    BY <2>1, <2>2, <2>3, StoreWrites
  <2> QED
    BY <2>4, <2>5, <2>6, <2>7
<1>6. svc' \in BOOLEAN
  BY <1>1 DEF Retriggered, DeletesService
<1>7. build' = build \/ (build' = "lost" /\ ~seed'.trigger)
  BY DEF Retriggered, BuildAfterReset
<1> QED
  BY <1>1, <1>5, <1>6, <1>7 DEF Retriggered
----------------------------------------------------------------------------
(***************************************************************************)
(* Every variable keeps its type.                                          *)
(***************************************************************************)
UserNext == RetriggerBuild \/ EditBaseImage \/ EditConfig \/ CreateRegistration
PodNext  == BuildStarts \/ BuildEnds \/ LifetimeEnds
            \/ PodBreaks \/ PodEvicted \/ PodGone
SeeNext  == SeeSeed \/ SeePod \/ SeeService

LEMMA Steps ==
  ASSUME Next
  PROVE  Idle \/ Creating \/ Syncing \/ Retriggered \/ UserNext \/ PodNext \/ SeeNext
BY DEF Next, Reconcile, Idle, Creating, Syncing, UserNext, PodNext, SeeNext

\* The status patch keeps what is said of ExposeFailure.
LEMMA PatchedNotExposed ==
  ASSUME Typed, NEW image, NEW url, StatusPatched(image, url)
  PROVE  NotExposed(seed')
BY DEF Typed, NotExposed, StatusPatched, Written

\* Everything but the objects that a reconcile, the kubelet and the user write.
LEMMA TypedFollows ==
  ASSUME Typed, CachesFollow,
         seed' \in Seed, NotExposed(seed'), pod' \in Pod, svc' \in BOOLEAN,
         cm' \in ConfigMap, reg' \in [exists : BOOLEAN, config : BOOLEAN],
         moves' \in [Kinds -> Nat], faults' \in 0..MaxFaults,
         build' \in {"begun", "asked", "lost", "available"},
         renamed' \in BOOLEAN
  PROVE  Typed'
<1>1. /\ CopiesCurrent' /\ start' = start
      /\ seedCache' \in {seedCache, seed'} /\ seedCache' \in Seed
      /\ podCache' \in Pod /\ svcCache' \in BOOLEAN
  BY CopiesFollow
<1>2. TypeOK'
  BY <1>1 DEF Typed, TypeOK
<1>3. NotExposed(seedCache)
  BY DEF Typed
<1> QED
  BY <1>1, <1>2, <1>3 DEF Typed, NotExposed

LEMMA MoveTypes ==
  ASSUME TypeOK, NEW kind \in Kinds, Move(kind)
  PROVE  moves' \in [Kinds -> Nat]
BY DEF TypeOK, Move

\* The new Pod of a reconcile.
LEMMA CreatedPod ==
  ASSUME Typed, Creating
  PROVE  /\ pod' \in Pod
         /\ \/ pod' = pod
            \/ pod' = NoPod
            \/ pod' = fillBuildImagePod(seedCache)
            \/ /\ pod'.deleting /\ pod'.phase = pod.phase /\ pod'.name = pod.name
               /\ pod.phase \in {"Pending", "Running"}
         /\ build' = build \/ (build' = "begun" /\ ~seed.trigger)
         /\ \E image \in ImageReasons : StatusPatched(image, seedCache.url)
<1>1. pod \in Pod /\ seedCache.cond.image \in ImageReasons
      /\ "Ongoing" \in ImageReasons /\ "NotStarted" \in ImageReasons
  BY DEF Typed, TypeOK, Seed, ImageReasons
<1>2. CASE Kept(pod) \/ Made(pod)
  BY <1>1, <1>2, PodTypes DEF Kept, Made
<1>3. CASE /\ pod.phase # "absent"
           /\ \E p \in PodDeletions(pod) : Kept(p) \/ Made(p)
  <2>1. PICK p \in PodDeletions(pod) : Kept(p) \/ Made(p)
    BY <1>3
  <2>2. /\ p \in Pod
        /\ \/ p = NoPod
           \/ /\ p.deleting /\ p.phase = pod.phase /\ p.name = pod.name
              /\ pod.phase \in {"Pending", "Running"}
    BY <1>3, <2>1, PodDeletionTypes
  <2> QED
    BY <1>1, <2>1, <2>2, PodTypes DEF Kept, Made
<1> QED
  BY <1>2, <1>3, CreatingWrites

LEMMA TypedNext ==
  ASSUME Typed, [Next]_vars
  PROVE  Typed'
<1>1. /\ seed \in Seed /\ pod \in Pod /\ svc \in BOOLEAN /\ cm \in ConfigMap
      /\ reg \in [exists : BOOLEAN, config : BOOLEAN]
      /\ moves \in [Kinds -> Nat] /\ faults \in 0..MaxFaults
      /\ build \in {"begun", "asked", "lost", "available"} /\ renamed \in BOOLEAN
      /\ NotExposed(seed) /\ TypeOK
  BY DEF Typed, TypeOK
<1>2. CASE Idle
  <2>1. NotExposed(seed')
    BY <1>2, IdleWrites, PatchedNotExposed
  <2> QED
    BY <1>1, <1>2, <2>1, IdleWrites, TypedFollows DEF StatusPatched
<1>3. CASE Creating
  <2>1. NotExposed(seed') /\ seed' \in Seed /\ svc' \in BOOLEAN /\ faults' \in 0..MaxFaults
    BY <1>3, CreatedPod, PatchedNotExposed DEF StatusPatched
  <2>2. /\ cm' \in ConfigMap /\ renamed' \in BOOLEAN /\ UNCHANGED <<reg, moves>>
        /\ CachesFollow
    BY <1>3, CreatingWrites, ConfigMapWrites
  <2>3. pod' \in Pod /\ build' \in {"begun", "asked", "lost", "available"}
    BY <1>1, <1>3, CreatedPod
  <2> QED
    BY <1>1, <2>1, <2>2, <2>3, TypedFollows
<1>4. CASE Syncing
  <2>1. NotExposed(seed') /\ seed' \in Seed /\ svc' \in BOOLEAN /\ faults' \in 0..MaxFaults
    BY <1>4, SyncingWrites, PatchedNotExposed DEF StatusPatched
  <2>2. /\ cm' \in ConfigMap /\ renamed' \in BOOLEAN /\ UNCHANGED <<reg, moves>>
        /\ CachesFollow
    BY <1>4, SyncingWrites, ConfigMapWrites
  <2>3. pod' \in Pod
    BY <1>1, <1>4, SyncingWrites, PodDeletionTypes
  <2>4. build' \in {"begun", "asked", "lost", "available"}
    BY <1>1, <1>4, SyncingWrites DEF NoteAvailable
  <2> QED
    BY <1>1, <2>1, <2>2, <2>3, <2>4, TypedFollows
<1>5. CASE Retriggered
  <2>1. pod' \in Pod
    BY <1>1, <1>5, RetriggeredWrites, PodDeletionTypes
  <2>2. NotExposed(seed')
    BY <1>1, <1>5, RetriggeredWrites DEF NotExposed, NoConditions
  <2> QED
    BY <1>1, <1>5, <2>1, <2>2, RetriggeredWrites, TypedFollows
<1>6. CASE UserNext
  <2>1. moves' \in [Kinds -> Nat]
    BY <1>1, <1>6, MoveTypes
       DEF UserNext, RetriggerBuild, EditBaseImage, EditConfig, CreateRegistration, Kinds
  <2>2. seed' \in Seed /\ seed'.cond = seed.cond
    BY <1>1, <1>6
       DEF UserNext, RetriggerBuild, EditBaseImage, EditConfig, CreateRegistration, Seed
  <2>3. NotExposed(seed')
    BY <1>1, <2>2 DEF NotExposed
  <2>4. reg' \in [exists : BOOLEAN, config : BOOLEAN]
    BY <1>1, <1>6
       DEF UserNext, RetriggerBuild, EditBaseImage, EditConfig, CreateRegistration
  <2>5. UNCHANGED <<pod, svc, cm, faults, renamed>> /\ CachesFollow
        /\ build' \in {build, "asked"}
    BY <1>6 DEF UserNext, RetriggerBuild, EditBaseImage, EditConfig, CreateRegistration
  <2> QED
    BY <1>1, <2>1, <2>2, <2>3, <2>4, <2>5, TypedFollows
<1>7. CASE PodNext
  <2>1. moves' \in [Kinds -> Nat]
    BY <1>1, <1>7, MoveTypes
       DEF PodNext, BuildStarts, BuildEnds, LifetimeEnds, PodBreaks, PodEvicted, PodGone, Kinds
  <2>2. PodChanges(pod')
    BY <1>7
       DEF PodNext, BuildStarts, BuildEnds, LifetimeEnds, PodBreaks, PodEvicted, PodGone,
           PodChanges
  <2>3. BuildStarts => pod' \in Pod
    BY <1>1 DEF BuildStarts, PodChanges, Pod, ConfigMap, defaultInitContainers
  <2>4. BuildEnds \/ LifetimeEnds \/ PodBreaks => pod' \in Pod
    BY <1>1 DEF BuildEnds, LifetimeEnds, PodBreaks, PodChanges, Pod
  <2>5. PodEvicted => pod' \in Pod
    BY PodDeletionTypes DEF PodEvicted, PodChanges
  <2>6. PodGone => pod' \in Pod
    BY PodTypes DEF PodGone, PodChanges
  <2>7. pod' \in Pod
    BY <1>7, <2>3, <2>4, <2>5, <2>6 DEF PodNext
  <2> QED
    BY <1>1, <2>1, <2>2, <2>7, TypedFollows DEF PodChanges
<1>8. CASE SeeNext
  <2>1. NothingChanges
    BY <1>8 DEF SeeNext, SeeSeed, SeePod, SeeService
  <2>2. /\ seedCache' = seedCache \/ seedCache' = seed
        /\ podCache' = podCache \/ podCache' = pod
        /\ svcCache' = svcCache \/ svcCache' = svc
    BY <1>8 DEF SeeNext, SeeSeed, SeePod, SeeService
  <2>3. TypeOK'
    BY <1>1, <2>1, <2>2 DEF TypeOK, NothingChanges
  <2> QED
    BY <2>1, <2>2, <2>3 DEF Typed, CopiesCurrent, NotExposed, NothingChanges
<1>9. CASE UNCHANGED vars
  BY <1>9 DEF vars, Typed, TypeOK, CopiesCurrent, NotExposed
<1> QED
  BY <1>2, <1>3, <1>4, <1>5, <1>6, <1>7, <1>8, <1>9, Steps
----------------------------------------------------------------------------
(***************************************************************************)
(* The names agree: what the Pod serves and what the URL shows are the     *)
(* name of the ConfigMap, or nothing yet.  It takes both: a reconcile      *)
(* writes the URL from the ConfigMap and not from the Pod.                 *)
(***************************************************************************)
NamesAgree ==
  /\ pod.phase = "Running" => pod.name # 0
  /\ ~renamed => pod.name \in {0, cm.name} /\ seed.url \in {0, cm.name}

LEMMA NamesNext ==
  ASSUME Typed, NamesAgree, [Next]_vars
  PROVE  NamesAgree'
<1>1. /\ pod \in Pod /\ renamed \in BOOLEAN
  BY DEF Typed, TypeOK
\* A reconcile that brings the ConfigMap up to date.
<1>2. ASSUME reconcileConfigMapObject,
             seed'.url \in {seed.url, 0, cm'.name},
             pod'.name \in {pod.name, 0},
             pod'.phase = "Running" => pod'.name # 0
      PROVE  NamesAgree'
  BY <1>2, ConfigMapWrites DEF NamesAgree
<1>3. CASE Idle
  <2>1. UNCHANGED <<pod, renamed>> /\ cm'.name = cm.name /\ seed'.url = seed.url
    BY <1>3, IdleWrites DEF StatusPatched
  <2> QED
    BY <2>1 DEF NamesAgree
<1>4. CASE Creating
  <2>1. seed'.url = seed.url
    BY <1>4, CreatedPod DEF StatusPatched
  <2>2. pod'.name \in {pod.name, 0} /\ (pod'.phase = "Running" => pod'.name # 0)
    BY <1>4, CreatedPod, PodTypes DEF NamesAgree
  <2> QED
    BY <1>2, <1>4, <2>1, <2>2, CreatingWrites
<1>5. CASE Syncing
  <2>1. seed'.url \in {seed.url, 0, cm'.name}
    BY <1>5, SyncingWrites DEF StatusPatched, Computed
  <2>2. pod'.name \in {pod.name, 0} /\ (pod'.phase = "Running" => pod'.name # 0)
    BY <1>5, SyncingWrites, PodDeletionTypes, PodTypes DEF NamesAgree
  <2> QED
    BY <1>2, <1>5, <2>1, <2>2, SyncingWrites
<1>6. CASE Retriggered
  <2>1. pod'.name \in {pod.name, 0} /\ (pod'.phase = "Running" => pod'.name # 0)
    BY <1>6, RetriggeredWrites, PodDeletionTypes, PodTypes DEF NamesAgree
  <2> QED
    BY <1>6, <2>1, RetriggeredWrites DEF NamesAgree
<1>7. CASE UserNext
  <2>1. UNCHANGED <<pod, cm, renamed>> /\ seed'.url = seed.url
    BY <1>7
       DEF UserNext, RetriggerBuild, EditBaseImage, EditConfig, CreateRegistration,
           Typed, TypeOK, Seed
  <2> QED
    BY <2>1 DEF NamesAgree
<1>8. CASE PodNext
  <2>1. UNCHANGED <<seed, cm, renamed>>
    BY <1>8
       DEF PodNext, BuildStarts, BuildEnds, LifetimeEnds, PodBreaks, PodEvicted, PodGone,
           PodChanges
  <2>2. /\ pod'.name \in {pod.name, 0, cm.name}
        /\ pod'.phase = "Running" => pod'.name # 0
    <3>1. BuildStarts => pod'.name = cm.name /\ pod'.phase = "Pending"
      BY <1>1 DEF BuildStarts, PodChanges, Pod
    <3>2. BuildEnds => pod'.name = pod.name /\ pod'.name # 0
      BY <1>1 DEF BuildEnds, PodChanges, Pod
    <3>3. LifetimeEnds \/ PodBreaks => pod'.name = pod.name /\ pod'.phase # "Running"
      BY <1>1 DEF LifetimeEnds, PodBreaks, PodChanges, Pod
    <3>4. PodEvicted => /\ pod'.name \in {pod.name, 0}
                        /\ pod'.phase = "Running" => pod'.name # 0
      BY PodDeletionTypes, PodTypes DEF PodEvicted, PodChanges, NamesAgree
    <3>5. PodGone => pod'.name = 0 /\ pod'.phase = "absent"
      BY PodTypes DEF PodGone, PodChanges
    <3> QED
      BY <1>8, <3>1, <3>2, <3>3, <3>4, <3>5 DEF PodNext
  <2> QED
    BY <2>1, <2>2 DEF NamesAgree
<1>9. CASE SeeNext \/ UNCHANGED vars
  BY <1>9 DEF SeeNext, SeeSeed, SeePod, SeeService, NothingChanges, vars, NamesAgree
<1> QED
  BY <1>3, <1>4, <1>5, <1>6, <1>7, <1>8, <1>9, Steps
----------------------------------------------------------------------------
(***************************************************************************)
(* A request keeps the image from counting as available until its reset.   *)
(***************************************************************************)
Requested ==
  /\ seed.trigger => build = "asked"
  /\ seedCache.trigger => build \in {"asked", "lost"}

LEMMA RequestedNext ==
  ASSUME Typed, Requested, [Next]_vars
  PROVE  Requested'
<1>1. CASE Idle \/ Creating \/ Syncing
  <2>1. /\ ~seedCache.trigger /\ seed'.trigger = seed.trigger
        /\ seedCache' \in {seedCache, seed'}
    BY <1>1, IdleWrites, CreatingWrites, CreatedPod, SyncingWrites
       DEF StatusPatched, CachesFollow
  <2>2. \/ build' = build
        \/ build' = "begun" /\ ~seed.trigger
        \/ build # "asked"
    <3>1. CASE Idle
      BY <3>1, IdleWrites
    <3>2. CASE Creating
      BY <3>2, CreatedPod
    <3>3. CASE Syncing
      <4>1. NoteAvailable
        BY <3>3, SyncingWrites
      <4> QED
        BY <4>1 DEF NoteAvailable
    <3> QED
      BY <1>1, <3>1, <3>2, <3>3
  <2>3. seed'.trigger => build' = "asked"
    BY <2>1, <2>2 DEF Requested
  <2>4. CASE seedCache' = seedCache
    BY <2>1, <2>3, <2>4 DEF Requested
  <2>5. CASE seedCache' = seed'
    BY <2>3, <2>5 DEF Requested
  <2> QED
    BY <2>1, <2>4, <2>5
<1>2. CASE Retriggered
  BY <1>2, RetriggeredWrites DEF Requested, CachesFollow
<1>3. CASE UserNext
  <2>1. \/ build' = "asked"
        \/ build' = build /\ seed'.trigger = seed.trigger
    BY <1>3
       DEF UserNext, RetriggerBuild, EditBaseImage, EditConfig, CreateRegistration,
           Typed, TypeOK, Seed
  <2>2. seedCache' \in {seedCache, seed'}
    BY <1>3
       DEF UserNext, RetriggerBuild, EditBaseImage, EditConfig, CreateRegistration,
           CachesFollow
  <2> QED
    BY <2>1, <2>2 DEF Requested
<1>4. CASE PodNext
  BY <1>4
     DEF PodNext, BuildStarts, BuildEnds, LifetimeEnds, PodBreaks, PodEvicted, PodGone,
         PodChanges, CachesFollow, Requested
<1>5. CASE SeeNext \/ UNCHANGED vars
  BY <1>5 DEF SeeNext, SeeSeed, SeePod, SeeService, NothingChanges, vars, Requested
<1> QED
  BY <1>1, <1>2, <1>3, <1>4, <1>5, Steps

(***************************************************************************)
(* What the clean-up rests on.  An image that counts as available is not   *)
(* without its Service; so the lifetime of its Pod ends in Success, and as *)
(* long as the copy of the Pod is current no copy of the status is older   *)
(* than that when the Pod is removed.                                      *)
(***************************************************************************)
Terminates == pod.deleting => pod.phase \in {"Pending", "Running"}

Exposed == build = "available" => seed.cond.image # "ExposeFailure"

Met(c) == c.cond.image \in {"Success", "Deadline"}

Lasting ==
  "pod" \notin start.lags =>
    /\ build = "available" /\ seed.cond.image = "Deadline" => Met(seedCache)
    /\ build = "available" /\ pod.phase = "Succeeded" => Met(seedCache) /\ Met(seed)
    /\ seed.cond.image = "Success" /\ pod.phase = "Succeeded" =>
         seedCache.cond.image = "Success"

CleanUpInv == Requested /\ Terminates /\ Exposed /\ Lasting

LEMMA TerminatesNext ==
  ASSUME Typed, Terminates, [Next]_vars
  PROVE  Terminates'
<1>1. pod \in Pod
  BY DEF Typed, TypeOK
<1>2. CASE Idle \/ Creating \/ Syncing \/ Retriggered
  BY <1>2, IdleWrites, CreatedPod, SyncingWrites, RetriggeredWrites,
     PodDeletionTypes, PodTypes DEF Terminates
<1>3. CASE UserNext
  BY <1>3
     DEF UserNext, RetriggerBuild, EditBaseImage, EditConfig, CreateRegistration, Terminates
<1>4. CASE PodNext
  <2>1. BuildStarts \/ BuildEnds \/ LifetimeEnds \/ PodBreaks => ~pod'.deleting
    BY <1>1 DEF BuildStarts, BuildEnds, LifetimeEnds, PodBreaks, PodChanges, Pod
  <2>2. PodEvicted \/ PodGone => Terminates'
    BY PodDeletionTypes, PodTypes DEF PodEvicted, PodGone, PodChanges, Terminates
  <2> QED
    BY <1>4, <2>1, <2>2 DEF PodNext, Terminates
<1>5. CASE SeeNext \/ UNCHANGED vars
  BY <1>5 DEF SeeNext, SeeSeed, SeePod, SeeService, NothingChanges, vars, Terminates
<1> QED
  BY <1>2, <1>3, <1>4, <1>5, Steps

LEMMA ExposedNext ==
  ASSUME Typed, Requested, Exposed, [Next]_vars
  PROVE  Exposed'
<1>1. CASE Idle
  BY <1>1, IdleWrites DEF StatusPatched, Written, Exposed
<1>2. CASE Creating
  <2>1. build' = build \/ build' = "begun"
    BY <1>2, CreatedPod
  <2>2. \E image \in {seedCache.cond.image, "Ongoing", "NotStarted"} : Written(image)
    BY <1>2, CreatingWrites DEF Kept, Made, StatusPatched
  <2> QED
    BY <2>1, <2>2 DEF Written, Exposed
<1>3. CASE Syncing
  BY <1>3, SyncingWrites DEF NoteAvailable, Exposed
<1>4. CASE Retriggered
  BY <1>4, RetriggeredWrites DEF Requested, Exposed
<1>5. CASE UserNext
  <2>1. build' \in {"asked", build} /\ seed'.cond = seed.cond
    BY <1>5
       DEF UserNext, RetriggerBuild, EditBaseImage, EditConfig, CreateRegistration,
           Typed, TypeOK, Seed
  <2> QED
    BY <2>1 DEF Exposed
<1>6. CASE PodNext
  BY <1>6
     DEF PodNext, BuildStarts, BuildEnds, LifetimeEnds, PodBreaks, PodEvicted, PodGone,
         PodChanges, Exposed
<1>7. CASE SeeNext \/ UNCHANGED vars
  BY <1>7 DEF SeeNext, SeeSeed, SeePod, SeeService, NothingChanges, vars, Exposed
<1> QED
  BY <1>1, <1>2, <1>3, <1>4, <1>5, <1>6, <1>7, Steps

LEMMA LastingNext ==
  ASSUME Typed, CleanUpInv, [Next]_vars
  PROVE  Lasting'
<1> SUFFICES ASSUME "pod" \notin start.lags PROVE Lasting'
  <2>1. start' = start
    BY Steps, IdleWrites, CreatingWrites, SyncingWrites, RetriggeredWrites
       DEF vars, CachesFollow, UserNext, RetriggerBuild, EditBaseImage, EditConfig,
           CreateRegistration, PodNext, BuildStarts, BuildEnds, LifetimeEnds,
           PodBreaks, PodEvicted, PodGone, PodChanges, SeeNext, SeeSeed, SeePod,
           SeeService, NothingChanges
  <2> QED
    BY <2>1 DEF Lasting
<1>1. /\ pod \in Pod /\ podCache = pod /\ Requested /\ Terminates /\ Exposed
      /\ build = "available" /\ seed.cond.image = "Deadline" => Met(seedCache)
      /\ build = "available" /\ pod.phase = "Succeeded" => Met(seedCache) /\ Met(seed)
      /\ seed.cond.image = "Success" /\ pod.phase = "Succeeded" =>
           seedCache.cond.image = "Success"
  BY DEF Typed, TypeOK, CopiesCurrent, CleanUpInv, Lasting
\* A reconcile that computes the status it read once more.
<1>2. ASSUME seed'.cond = seed.cond \/ seed'.cond.image = seedCache.cond.image,
             seedCache' \in {seedCache, seed'},
             build' = build, pod' = pod \/ pod'.phase # "Succeeded"
      PROVE  Lasting'
  BY <1>1, <1>2 DEF Lasting, Met
<1>3. CASE Idle
  BY <1>2, <1>3, IdleWrites DEF StatusPatched, Written, CachesFollow
<1>4. CASE Creating
  <2>1. seedCache' \in {seedCache, seed'}
    BY <1>4, CreatingWrites DEF CachesFollow
  <2>2. CASE Kept(pod)
    BY <1>2, <2>1, <2>2 DEF Kept, StatusPatched, Written
  <2>3. ASSUME NEW p, Kept(p), p.phase # "Succeeded" PROVE Lasting'
    BY <1>2, <2>1, <2>3 DEF Kept, StatusPatched, Written
  <2>4. ASSUME NEW p, Made(p), p.phase # "Succeeded" PROVE Lasting'
    <3>1. pod'.phase # "Succeeded"
      BY <2>4, PodTypes DEF Made
    <3>2. seed'.cond = seed.cond \/ seed'.cond.image \in {"Ongoing", "NotStarted"}
      BY <2>4 DEF Made, StatusPatched, Written
    <3>3. build' \in {build, "begun"}
      BY <2>4 DEF Made
    <3> QED
      BY <1>1, <2>1, <3>1, <3>2, <3>3 DEF Lasting, Met
  <2>5. \A p \in PodDeletions(pod) : pod.phase # "absent" => p.phase # "Succeeded"
    BY PodDeletionTypes, PodTypes
  <2> QED
    BY <1>1, <1>4, <2>2, <2>3, <2>4, <2>5, CreatingWrites
<1>5. CASE Syncing
  <2>1. PICK image \in ImageReasons, url \in Names :
          StatusPatched(image, url) /\ Computed(image, url)
    BY <1>5, SyncingWrites
  <2>2. /\ seed'.cond = seed.cond \/ seed'.cond.image = image
        /\ seedCache' \in {seedCache, seed'}
        /\ NoteAvailable
    BY <1>5, <2>1, SyncingWrites DEF StatusPatched, Written, CachesFollow
  <2>3. CASE pod'.phase # "Succeeded"
    <3>1. image = "Deadline" => Met(seedCache) \/ pod.phase = "Succeeded"
      BY <1>1, <2>1 DEF Computed, Met
    <3>2. build' = "available" => build = "available" \/ seed'.cond.image = "Success"
      BY <2>2 DEF NoteAvailable
    <3> QED
      BY <1>1, <2>2, <2>3, <3>1, <3>2 DEF Lasting, Met
  <2>4. CASE pod'.phase = "Succeeded"
    <3>1. pod' = pod
      BY <1>5, <2>4, SyncingWrites, PodDeletionTypes, PodTypes
    <3>2. image \in {"Deadline", "DeadlineFailed"}
      BY <1>1, <2>1, <2>4, <3>1 DEF Computed, Terminates
    <3>3. build' = "available" =>
            \/ seed'.cond.image = "Success"
            \/ build = "available" /\ seed'.cond.image = "Deadline"
      BY <2>2 DEF NoteAvailable
    <3> QED
      BY <1>1, <2>2, <2>4, <3>1, <3>2, <3>3 DEF Lasting, Met
  <2> QED
    BY <2>3, <2>4
<1>6. CASE Retriggered
  <2>1. build' # "available"
    BY <1>1, <1>6, RetriggeredWrites DEF Requested
  <2>2. seed'.cond.image = "Success" => seed'.cond = seed.cond
    BY <1>6, RetriggeredWrites DEF NoConditions
  <2>3. pod'.phase = "Succeeded" => pod' = pod
    BY <1>6, RetriggeredWrites, PodDeletionTypes, PodTypes
  <2>4. seedCache' \in {seedCache, seed'}
    BY <1>6, RetriggeredWrites DEF CachesFollow
  <2> QED
    BY <1>1, <2>1, <2>2, <2>3, <2>4 DEF Lasting
<1>7. CASE UserNext
  <2>1. /\ build' = "asked" \/ build' = build
        /\ seed'.cond = seed.cond /\ pod' = pod
        /\ seedCache' \in {seedCache, seed'}
    BY <1>7
       DEF UserNext, RetriggerBuild, EditBaseImage, EditConfig, CreateRegistration,
           CachesFollow, Typed, TypeOK, Seed
  <2> QED
    BY <1>1, <2>1 DEF Lasting, Met
<1>8. CASE PodNext
  <2>1. UNCHANGED <<seed, build>> /\ seedCache' \in {seedCache, seed}
    BY <1>8
       DEF PodNext, BuildStarts, BuildEnds, LifetimeEnds, PodBreaks, PodEvicted, PodGone,
           PodChanges, CachesFollow
  <2>2. pod'.phase = "Succeeded" =>
          seedCache = seed /\ seed.cond.image \in {"Success", "ExposeFailure"}
    <3>1. BuildStarts \/ BuildEnds \/ PodBreaks => pod'.phase # "Succeeded"
      BY <1>1 DEF BuildStarts, BuildEnds, PodBreaks, PodChanges, Pod
    <3>2. PodEvicted \/ PodGone => pod'.phase # "Succeeded"
      BY PodDeletionTypes, PodTypes DEF PodEvicted, PodGone, PodChanges
    <3> QED
      BY <1>8, <3>1, <3>2 DEF PodNext, LifetimeEnds
  <2> QED
    BY <1>1, <2>1, <2>2 DEF Lasting, Met, Exposed
<1>9. CASE SeeNext \/ UNCHANGED vars
  <2>1. UNCHANGED <<seed, pod, build>> /\ seedCache' \in {seedCache, seed}
    BY <1>9 DEF SeeNext, SeeSeed, SeePod, SeeService, NothingChanges, vars
  <2> QED
    BY <1>1, <2>1 DEF Lasting, Met
<1> QED
  BY <1>3, <1>4, <1>5, <1>6, <1>7, <1>8, <1>9, Steps
----------------------------------------------------------------------------
SeedInv == Typed /\ NamesAgree /\ CleanUpInv

LEMMA SeedInit ==
  ASSUME Init
  PROVE  SeedInv
<1>1. start \in Starts /\ start.base \in Bases /\ 0 \in Names
  BY SeedAssumption DEF Init, Names
<1>2. NoConditions \in [ready : {"none", "True", "False"}, image : ImageReasons]
  BY DEF NoConditions, ImageReasons
<1>3. seed \in Seed /\ cm \in ConfigMap /\ NoPod \in Pod
  BY <1>1, <1>2 DEF Init, Seed, ConfigMap, NoPod, Pod
<1>4. TypeOK
  <2>1. /\ reg \in [exists : BOOLEAN, config : BOOLEAN]
        /\ moves \in [Kinds -> Nat] /\ faults \in 0..MaxFaults
    BY <1>1, SeedAssumption DEF Init
  <2>2. pod \in Pod /\ podCache \in Pod /\ seedCache \in Seed
    BY <1>3 DEF Init
  <2> QED
    BY <1>1, <1>3, <2>1, <2>2 DEF Init, TypeOK
<1>5. Typed
  BY <1>4 DEF Init, Typed, CopiesCurrent, NotExposed, NoConditions
<1> QED
  BY <1>5
     DEF Init, SeedInv, NamesAgree, CleanUpInv, Requested, Terminates, Exposed, Lasting,
         Met, NoPod, NoConditions

LEMMA SeedNext ==
  ASSUME SeedInv, [Next]_vars
  PROVE  SeedInv'
BY TypedNext, NamesNext, RequestedNext, TerminatesNext, ExposedNext, LastingNext
   DEF SeedInv, CleanUpInv

\* Types, names and the conditions of the clean-up, from which the properties
\* of SeedImageLifecycle follow.
THEOREM SeedInvariant == Spec => []SeedInv
<1> QED
  BY SeedInit, SeedNext, PTL DEF Spec

\* Every variable keeps its type; output names stay within their bound.
THEOREM SeedTypes == Spec => []TypeOK
<1>1. SeedInv => TypeOK
  BY DEF SeedInv, Typed
<1> QED
  BY <1>1, SeedInvariant, PTL

\* The name in the DownloadURL is that of the file a running Pod serves,
\* unless the ConfigMap was lost while its name was in use.
THEOREM DownloadsFindTheirFile == Spec => []DownloadFindsFile
<1>1. SeedInv => DownloadFindsFile
  BY DEF SeedInv, NamesAgree, DownloadFindsFile
<1> QED
  BY <1>1, SeedInvariant, PTL

(***************************************************************************)
(* A Pod is only created by createPod; the copy of the status that says    *)
(* the deadline has passed, or the build has succeeded, keeps it from it.  *)
(***************************************************************************)
LEMMA CleanedUpKept ==
  ASSUME SeedInv, Next, CleanedUp, ~({"seed", "pod"} \subseteq start.lags)
  PROVE  pod'.phase = "absent"
<1>1. /\ Typed /\ pod \in Pod /\ pod.phase = "absent"
      /\ build = "available" /\ seed.cond.image = "Deadline"
  BY DEF SeedInv, Typed, TypeOK, CleanedUp
<1>2. ConditionMet(seedCache)
  <2>1. CASE "pod" \notin start.lags
    BY <1>1, <2>1 DEF SeedInv, CleanUpInv, Lasting, Met, ConditionMet
  <2>2. CASE "seed" \notin start.lags
    BY <1>1, <2>2 DEF Typed, CopiesCurrent, ConditionMet
  <2> QED
    BY <2>1, <2>2
<1>3. CASE Idle \/ Syncing \/ Retriggered
  BY <1>1, <1>3, IdleWrites, SyncingWrites, RetriggeredWrites
<1>4. CASE Creating
  BY <1>1, <1>2, <1>4, CreatingWrites DEF Kept, Made
<1>5. CASE UserNext \/ SeeNext
  BY <1>1, <1>5
     DEF UserNext, RetriggerBuild, EditBaseImage, EditConfig, CreateRegistration,
         SeeNext, SeeSeed, SeePod, SeeService, NothingChanges
<1>6. CASE PodNext
  BY <1>1, <1>6, PodTypes
     DEF PodNext, BuildStarts, BuildEnds, LifetimeEnds, PodBreaks, PodEvicted, PodGone,
         PodChanges
<1> QED
  BY <1>3, <1>4, <1>5, <1>6, Steps

\* An image that was available and is cleaned up is not built again, in any
\* state of the caches but one: SeedImage and Pod may not lag together.
THEOREM CleanedUpImagesStay == Spec => CleanedUpStaysSo
<1>1. SeedInv /\ [Next]_vars =>
        [CleanedUp /\ ~({"seed", "pod"} \subseteq start.lags) => pod'.phase = "absent"]_vars
  BY CleanedUpKept DEF vars
<1> QED
  BY <1>1, SeedInvariant, PTL DEF Spec, CleanedUpStaysSo
=============================================================================
