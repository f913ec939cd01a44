----------------------------- MODULE SeedImage -----------------------------
(***************************************************************************)
(* The SeedImage controller: a builder Pod makes an installation image     *)
(* from a base image and a ConfigMap, then serves it through a Service     *)
(* until its lifetime has passed; the operator's server hands downloads on *)
(* to the Service.                                                         *)
(*                                                                         *)
(* One SeedImage.  It, its Pod and its Service are read from caches that   *)
(* lag, the ConfigMap without a cache.  A reconcile reads the caches first *)
(* and patches the SeedImage last, so it is one step.  The patches carry   *)
(* no resourceVersion: they write what the reconcile changed in the copy   *)
(* it read, whatever the server has by then.  No event of the SeedImage or *)
(* of its Pod is filtered and a failed reconcile is repeated, so one may   *)
(* happen at any time.                                                     *)
(***************************************************************************)
EXTENDS Naturals

CONSTANTS
  Bases,      \* base images
  MaxNames,   \* bound: output names generated (one per ConfigMap created afresh)
  MaxFaults,  \* bound: failed API calls and lost patches
  Starts      \* where to start from, with bounds on what others do

Kinds  == {"trigger", "base", "config", "evict", "fail"}
Caches == {"seed", "pod", "service"}

\* A start: the first base image, whether the image is raw (else an ISO) and
\* has a lifetime, is the registration there, which caches lag, and how often
\* others move.
ASSUME SeedAssumption ==
  /\ MaxNames \in Nat \ {0}
  /\ MaxFaults \in Nat
  /\ \A start \in Starts :
       /\ start.base \in Bases
       /\ start.raw \in BOOLEAN
       /\ start.lifetime \in BOOLEAN
       /\ start.registered \in BOOLEAN
       /\ start.lags \subseteq Caches
       /\ start.moves \in [Kinds -> Nat]

VARIABLES
  seed,       \* the SeedImage on the server
  seedCache,  \* the same object in the informer cache
  pod,        \* the builder Pod on the server
  podCache,   \* the same Pod in the informer cache
  svc,        \* the Service exists
  svcCache,   \* the Service is in the informer cache
  cm,         \* the ConfigMap
  reg,        \* the MachineRegistration
  start,      \* the start this behaviour began with
  moves,      \* moves left of each kind
  faults,     \* faults so far
  build,      \* history: how far the build last asked for has come
  renamed     \* history: the ConfigMap was lost while its name was in use

vars == <<seed, seedCache, pod, podCache, svc, svcCache, cm, reg, start,
          moves, faults, build, renamed>>

(***************************************************************************)
(* image is the reason of the SeedImageReady condition, ready the status   *)
(* of Ready; both are parts of the one field conditions.  url is the       *)
(* output name in DownloadURL, 0 when that is empty.                       *)
(***************************************************************************)
Names == 0..MaxNames
ImageReasons == {"none", "NotStarted", "Ongoing", "Failure", "ExposeFailure",
                 "DeadlineFailed", "Success", "Deadline"}

Seed == [base : Bases, trigger : BOOLEAN, url : Names,
         cond : [ready : {"none", "True", "False"},
                 image : ImageReasons]]

NoConditions == [ready |-> "none", image |-> "none"]

\* base is the Pod's annotation; built the base image the build uses, and
\* name the name it gives the image, 0 before it has begun.
Pod == [phase : {"absent", "Pending", "Running", "Succeeded", "Failed"},
        deleting : BOOLEAN, base : Bases, built : Bases, name : Names]

NoPod == [phase |-> "absent", deleting |-> FALSE, base |-> start.base,
          built |-> start.base, name |-> 0]

\* config stands for the registration, reset and cloud configuration.
ConfigMap == [exists : BOOLEAN, config : BOOLEAN, base : Bases, name : Names]

TypeOK ==
  /\ seed \in Seed /\ seedCache \in Seed
  /\ pod \in Pod /\ podCache \in Pod
  /\ svc \in BOOLEAN /\ svcCache \in BOOLEAN
  /\ cm \in ConfigMap
  /\ reg \in [exists : BOOLEAN, config : BOOLEAN]
  /\ start \in Starts
  /\ moves \in [Kinds -> Nat]
  /\ faults \in 0..MaxFaults
  /\ build \in {"begun", "asked", "lost", "available"}
  /\ renamed \in BOOLEAN

Init ==
  /\ start \in Starts
  /\ seed = [base |-> start.base, trigger |-> FALSE, url |-> 0,
             cond |-> NoConditions]
  /\ seedCache = seed
  /\ pod = NoPod /\ podCache = pod
  /\ svc = FALSE /\ svcCache = FALSE
  /\ cm = [exists |-> FALSE, config |-> FALSE, base |-> start.base, name |-> 0]
  /\ reg = [exists |-> start.registered, config |-> FALSE]
  /\ moves = start.moves
  /\ faults = 0
  /\ build = "begun"
  /\ renamed = FALSE

Move(kind) == moves[kind] > 0 /\ moves' = [moves EXCEPT ![kind] = @ - 1]
Fault(n)   == faults + n <= MaxFaults /\ faults' = faults + n

\* A cache that does not lag shows every change at once.
CachesFollow ==
  /\ seedCache' = IF "seed" \in start.lags THEN seedCache ELSE seed'
  /\ podCache' = IF "pod" \in start.lags THEN podCache ELSE pod'
  /\ svcCache' = IF "service" \in start.lags THEN svcCache ELSE svc'
  /\ UNCHANGED start

----------------------------------------------------------------------------
(***************************************************************************)
(* Reconcile's two patches: the spec and the status fields that differ     *)
(* from the copy c that was read.  Each of them may fail on its own.       *)
(***************************************************************************)
Patched(c, d, spec, status) ==
  [seed EXCEPT
    !.trigger = IF spec /\ d.trigger # c.trigger THEN d.trigger ELSE @,
    !.cond    = IF status /\ d.cond # c.cond THEN d.cond ELSE @,
    !.url     = IF status /\ d.url # c.url THEN d.url ELSE @]

\* d is stored; n calls failed on the way.
Store(d, n) ==
  \E spec, status \in BOOLEAN :
    /\ spec \/ d.trigger # seedCache.trigger
    /\ seed' = Patched(seedCache, d, spec, status)
    /\ Fault(n + (IF spec /\ status THEN 0 ELSE 1))

With(c, reason)  == [c EXCEPT !.cond.image = reason]
Ready(c)         == [c EXCEPT !.cond.ready = "True"]
NotReady(c)      == [c EXCEPT !.cond.ready = "False"]

\* SeedImageReady is True.
ConditionMet(c) == c.cond.image \in {"Success", "Deadline"}

\* A Delete removes a Pod at once when it has ended or is not scheduled yet,
\* and gives it a grace period otherwise.
PodDeletions(p) ==
  LET terminating == [p EXCEPT !.deleting = TRUE]
  IN  CASE p.phase = "Pending" -> {NoPod, terminating}
        [] p.phase = "Running" -> {terminating}
        [] OTHER -> {NoPod}

----------------------------------------------------------------------------
(***************************************************************************)
(* deleteChildResources, for RetriggerBuild: whatever it meets, the        *)
(* conditions and the trigger are reset.                                   *)
(***************************************************************************)
\* Mutant: the conditions of the last build stay.
ResetTriggerOnly(c) == [c EXCEPT !.trigger = FALSE]

Reset(c) == [c EXCEPT !.trigger = FALSE, !.cond = NoConditions]
NoURL(c) == [c EXCEPT !.url = 0]

DeletesService ==
  IF svcCache /\ svc THEN svc' = FALSE ELSE UNCHANGED svc

\* The request may be lost when a call fails on the way.
BuildAfterReset(deleted) ==
  build' = IF build = "asked" /\ ~seed'.trigger
                /\ (~deleted \/ faults' > faults)
           THEN "lost" ELSE build

Retriggered ==
  /\ seedCache.trigger
  /\ \/ /\ podCache.phase = "absent"
        /\ UNCHANGED pod
        /\ DeletesService
        /\ Store(NoURL(Reset(seedCache)), 0)
        /\ BuildAfterReset(TRUE)
     \/ /\ podCache.phase # "absent" /\ pod.phase # "absent"
        /\ pod' \in PodDeletions(pod)
        /\ DeletesService
        /\ Store(NoURL(Reset(seedCache)), 0)
        /\ BuildAfterReset(TRUE)
     \/ /\ podCache.phase # "absent" /\ pod.phase = "absent"
        /\ UNCHANGED <<pod, svc>>
        /\ Store(Reset(seedCache), 0)
        /\ BuildAfterReset(FALSE)
     \/ /\ podCache.phase # "absent"
        /\ UNCHANGED <<pod, svc>>
        /\ Store(Reset(seedCache), 1)
        /\ BuildAfterReset(FALSE)
  /\ UNCHANGED <<cm, reg, moves, renamed>>
  /\ CachesFollow

\* The registration is not there.
SetOwnerFails ==
  /\ ~seedCache.trigger /\ ~reg.exists
  /\ Store(NotReady(seedCache), 0)
  /\ UNCHANGED <<pod, svc, cm, reg, moves, build, renamed>>
  /\ CachesFollow

----------------------------------------------------------------------------
(***************************************************************************)
(* createBuildImageService, the last step: d is the SeedImage so far.      *)
(***************************************************************************)
createBuildImageService(d) ==
  IF d.cond.image = "Deadline"
  THEN IF svcCache /\ ~svc
       THEN UNCHANGED svc /\ Store(NotReady(d), 0)
       ELSE svc' = (svc /\ ~svcCache) /\ Store(Ready(d), 0)
  ELSE \/ svc' = (svc \/ ~svcCache) /\ Store(Ready(d), 0)
       \/ ~svcCache /\ UNCHANGED svc /\ Store(NotReady(d), 1)

\* An earlier step failed: n failed API calls are the reason.
Abort(d, n) == UNCHANGED svc /\ Store(NotReady(d), n)

\* The deadline has passed: only the Service is looked after.
AfterDeadline ==
  /\ ~seedCache.trigger /\ reg.exists
  /\ seedCache.cond.image = "Deadline"
  /\ createBuildImageService(seedCache)
  /\ UNCHANGED <<pod, cm, reg, moves, build, renamed>>
  /\ CachesFollow

(***************************************************************************)
(* reconcileConfigMapObject.  A ConfigMap whose configuration is out of    *)
(* date is replaced under its output name; another base image does not     *)
(* make it out of date.                                                    *)
(***************************************************************************)
UpToDate == cm.exists /\ cm.config = reg.config

\* Mutant: the replacement gets a new output name.
ConfigMapRenamed ==
  [exists |-> TRUE, config |-> reg.config, base |-> seedCache.base,
   name |-> cm.name + 1]

ConfigMapNow ==
  IF UpToDate THEN cm
  ELSE [exists |-> TRUE, config |-> reg.config, base |-> seedCache.base,
        name |-> IF cm.exists THEN cm.name ELSE cm.name + 1]

Builds == /\ ~seedCache.trigger /\ reg.exists
          /\ seedCache.cond.image # "Deadline"

\* The ConfigMap is brought up to date.
reconcileConfigMapObject ==
  /\ Builds
  /\ cm.exists \/ cm.name < MaxNames
  /\ cm' = ConfigMapNow
  /\ renamed' = (renamed \/ (~cm.exists /\ (pod.name # 0 \/ seed.url # 0)))
  /\ UNCHANGED <<reg, moves>>

\* It cannot be written; one that was out of date is deleted by then.
ConfigMapFails ==
  /\ Builds /\ ~UpToDate
  /\ cm' \in {cm, [cm EXCEPT !.exists = FALSE]}
  /\ Abort(seedCache, 1)
  /\ UNCHANGED <<pod, reg, moves, build, renamed>>
  /\ CachesFollow

----------------------------------------------------------------------------
(***************************************************************************)
(* The builder Pod.  Its containers get the output name, and a raw build   *)
(* its base image as well, from the ConfigMap when they start.             *)
(***************************************************************************)
fillBuildImagePod(c) ==
  [phase |-> "Pending", deleting |-> FALSE, base |-> c.base,
   built |-> c.base, name |-> 0]

\* The base image a build that starts now uses.
defaultInitContainers(p) == IF start.raw THEN cm.base ELSE p.base

\* A build begins; one that an older copy of the SeedImage leads to does not
\* answer a request that came since.
NoteBegun(p) ==
  build' = IF p.phase = "absent" /\ ~seed.trigger THEN "begun" ELSE build

(***************************************************************************)
(* No Pod with the right base image is known, and p is what has its name   *)
(* on the server: a Pod is created unless the image has been built.  A     *)
(* name that is taken already counts as created.                           *)
(***************************************************************************)
\* Mutant: a Pod that is missing is created whatever the status says.
createPodAlways(p) ==
  /\ pod' = IF p.phase = "absent" THEN fillBuildImagePod(seedCache) ELSE p
  /\ NoteBegun(p)
  /\ createBuildImageService(With(seedCache, "Ongoing"))

\* Mutant: a build that has begun does not begin again.
createPodOnce(p) ==
  \/ /\ seedCache.cond.image # "none"
     /\ pod' = p
     /\ createBuildImageService(seedCache)
     /\ UNCHANGED build
  \/ /\ seedCache.cond.image = "none"
     /\ pod' = IF p.phase = "absent" THEN fillBuildImagePod(seedCache) ELSE p
     /\ NoteBegun(p)
     /\ createBuildImageService(With(seedCache, "Ongoing"))

createPod(p) ==
  \/ /\ ConditionMet(seedCache)
     /\ pod' = p
     /\ createBuildImageService(seedCache)
     /\ UNCHANGED build
  \/ /\ ~ConditionMet(seedCache)
     /\ pod' = IF p.phase = "absent" THEN fillBuildImagePod(seedCache) ELSE p
     /\ NoteBegun(p)
     /\ createBuildImageService(With(seedCache, "Ongoing"))
  \/ /\ ~ConditionMet(seedCache)
     /\ pod' = p
     /\ Abort(With(seedCache, "NotStarted"), 1)
     /\ UNCHANGED build

\* Mutant: a Pod is up to date whatever its annotation.
AnotherBaseNever == FALSE

AnotherBase == podCache.base # seedCache.base

PodNotFound ==
  /\ reconcileConfigMapObject
  /\ podCache.phase = "absent"
  /\ createPod(pod)
  /\ CachesFollow

\* A Pod of another base image is deleted first; that fails when it is gone.
PodNotUpToDate ==
  /\ reconcileConfigMapObject
  /\ podCache.phase # "absent" /\ AnotherBase
  /\ \/ pod.phase = "absent" /\ Abort(seedCache, 0) /\ UNCHANGED <<pod, build>>
     \/ Abort(seedCache, 1) /\ UNCHANGED <<pod, build>>
     \/ /\ pod.phase # "absent"
        /\ \E p \in PodDeletions(pod) : createPod(p)
  /\ CachesFollow

(***************************************************************************)
(* updateStatusFromPod.                                                    *)
(***************************************************************************)
PodFound ==
  /\ reconcileConfigMapObject
  /\ podCache.phase # "absent" /\ ~AnotherBase

\* The image counts as available from Success on, up to its deadline.
NoteAvailable ==
  build' = CASE build # "asked" /\ seed'.cond.image = "Success" -> "available"
             [] build = "available" /\ seed'.cond.image \notin {"Success", "Deadline"}
                  -> "begun"
             [] OTHER -> build

PodTerminates ==
  /\ PodFound
  /\ podCache.deleting
  /\ UNCHANGED pod
  /\ createBuildImageService(With(seedCache, "NotStarted"))
  /\ NoteAvailable
  /\ CachesFollow

AlreadySynced ==
  /\ PodFound
  /\ ~podCache.deleting
  /\ ConditionMet(seedCache) /\ podCache.phase # "Succeeded"
  /\ UNCHANGED pod
  /\ createBuildImageService(seedCache)
  /\ NoteAvailable
  /\ CachesFollow

Sync(phase) ==
  /\ PodFound
  /\ ~podCache.deleting
  /\ podCache.phase = phase
  /\ ~ConditionMet(seedCache) \/ phase = "Succeeded"

PodPending ==
  /\ Sync("Pending")
  /\ UNCHANGED pod
  /\ createBuildImageService(With(seedCache, "Ongoing"))
  /\ NoteAvailable
  /\ CachesFollow

\* The image is advertised once its Service is there; without it, without the
\* address of the server, or with a ConfigMap that cannot be read, the
\* reconcile ends.
PodRunning ==
  /\ Sync("Running")
  /\ UNCHANGED pod
  /\ \/ /\ svcCache
        /\ createBuildImageService([With(seedCache, "Success") EXCEPT !.url = cm'.name])
     \/ ~svcCache /\ Abort(With(seedCache, "ExposeFailure"), 0)
     \/ Abort(With(seedCache, "ExposeFailure"), 1)
     \/ svcCache /\ Abort(seedCache, 1)
  /\ NoteAvailable
  /\ CachesFollow

PodFailed ==
  /\ Sync("Failed")
  /\ UNCHANGED pod
  /\ createBuildImageService(With(seedCache, "Failure"))
  /\ NoteAvailable
  /\ CachesFollow

\* Mutant: the Pod that has ended is left there.
PodSucceededKept ==
  /\ Sync("Succeeded")
  /\ UNCHANGED pod
  /\ createBuildImageService(NoURL(With(seedCache, "Deadline")))
  /\ NoteAvailable
  /\ CachesFollow

\* The lifetime has passed.
PodSucceeded ==
  /\ Sync("Succeeded")
  /\ \/ /\ pod.phase # "absent"
        /\ pod' \in PodDeletions(pod)
        /\ createBuildImageService(NoURL(With(seedCache, "Deadline")))
     \/ /\ pod.phase = "absent"
        /\ UNCHANGED pod
        /\ Abort(With(seedCache, "DeadlineFailed"), 0)
     \/ /\ UNCHANGED pod
        /\ Abort(With(seedCache, "DeadlineFailed"), 1)
  /\ NoteAvailable
  /\ CachesFollow

Reconcile ==
  \/ Retriggered \/ SetOwnerFails \/ AfterDeadline \/ ConfigMapFails
  \/ PodNotFound \/ PodNotUpToDate
  \/ PodTerminates \/ AlreadySynced \/ PodPending \/ PodRunning
  \/ PodFailed \/ PodSucceeded
=============================================================================
