------------------------- MODULE SeedImageLifecycle -------------------------
(***************************************************************************)
(* The SeedImage controller with the user, the kubelet, the caches and the *)
(* download server.                                                        *)
(***************************************************************************)
EXTENDS SeedImage

(***************************************************************************)
(* The user.  A rebuild is asked for once the last build has come to an    *)
(* end, as far as the status shows.                                        *)
(***************************************************************************)
Ended == seed.cond.image \in {"Success", "Failure", "Deadline"}

RetriggerBuild ==
  /\ Move("trigger")
  /\ Ended /\ ~seed.trigger
  /\ seed' = [seed EXCEPT !.trigger = TRUE]
  /\ build' = "asked"
  /\ UNCHANGED <<pod, svc, cm, reg, faults, renamed>>
  /\ CachesFollow

EditBaseImage ==
  /\ Move("base")
  /\ \E base \in Bases \ {seed.base} : seed' = [seed EXCEPT !.base = base]
  /\ UNCHANGED <<pod, svc, cm, reg, faults, build, renamed>>
  /\ CachesFollow

EditConfig ==
  /\ Move("config")
  /\ reg' = [reg EXCEPT !.config = ~@]
  /\ UNCHANGED <<seed, pod, svc, cm, faults, build, renamed>>
  /\ CachesFollow

CreateRegistration ==
  /\ ~reg.exists
  /\ reg' = [reg EXCEPT !.exists = TRUE]
  /\ UNCHANGED <<seed, pod, svc, cm, moves, faults, build, renamed>>
  /\ CachesFollow

----------------------------------------------------------------------------
(***************************************************************************)
(* Kubernetes.  A build and the lifetime of its image take minutes: the    *)
(* copy of the SeedImage does not lag that long, a failed reconcile has    *)
(* been repeated by then, and the status is no more than a phase behind.   *)
(***************************************************************************)
PodChanges(p) ==
  /\ pod' = p
  /\ UNCHANGED <<seed, svc, cm, reg, faults, build, renamed>>
  /\ CachesFollow

\* The containers start when the ConfigMap can be mounted.
BuildStarts ==
  /\ pod.phase = "Pending" /\ ~pod.deleting /\ pod.name = 0
  /\ cm.exists
  /\ PodChanges([pod EXCEPT !.name = cm.name,
                            !.built = defaultInitContainers(pod)])
  /\ UNCHANGED moves

BuildEnds ==
  /\ pod.phase = "Pending" /\ ~pod.deleting /\ pod.name # 0
  /\ seedCache = seed /\ seed.cond.ready = "True"
  /\ PodChanges([pod EXCEPT !.phase = "Running"])
  /\ UNCHANGED moves

LifetimeEnds ==
  /\ start.lifetime
  /\ pod.phase = "Running" /\ ~pod.deleting
  /\ seedCache = seed /\ seed.cond.image \in {"Success", "ExposeFailure"}
  /\ PodChanges([pod EXCEPT !.phase = "Succeeded"])
  /\ UNCHANGED moves

PodBreaks ==
  /\ Move("fail")
  /\ pod.phase \in {"Pending", "Running"} /\ ~pod.deleting
  /\ PodChanges([pod EXCEPT !.phase = "Failed"])

\* Somebody else deletes the Pod: a drained node, a user.
PodEvicted ==
  /\ Move("evict")
  /\ pod.phase # "absent" /\ ~pod.deleting
  /\ \E p \in PodDeletions(pod) : PodChanges(p)

\* The grace period of a deleted Pod ends.
PodGone ==
  /\ pod.deleting
  /\ PodChanges(NoPod)
  /\ UNCHANGED moves

NothingChanges ==
  UNCHANGED <<seed, pod, svc, cm, reg, start, moves, faults, build, renamed>>

SeeSeed ==
  /\ seedCache # seed /\ seedCache' = seed
  /\ UNCHANGED <<podCache, svcCache>>
  /\ NothingChanges

SeePod ==
  /\ podCache # pod /\ podCache' = pod
  /\ UNCHANGED <<seedCache, svcCache>>
  /\ NothingChanges

SeeService ==
  /\ svcCache # svc /\ svcCache' = svc
  /\ UNCHANGED <<seedCache, podCache>>
  /\ NothingChanges

Next ==
  \/ Reconcile
  \/ RetriggerBuild \/ EditBaseImage \/ EditConfig \/ CreateRegistration
  \/ BuildStarts \/ BuildEnds \/ LifetimeEnds
  \/ PodBreaks \/ PodEvicted \/ PodGone
  \/ SeeSeed \/ SeePod \/ SeeService

(***************************************************************************)
(* The controller runs while there is something to do.  There is no        *)
(* resync; but every change of the SeedImage and of its Pod reaches the    *)
(* work queue, its own patches included, as every one shows in a cache,    *)
(* and what else a reconcile may wait for makes it fail until it is there, *)
(* and be repeated: the registration and the Service.  The kubelet runs    *)
(* its Pods and ends those whose lifetime has passed; the caches catch up; *)
(* the registration is created some day.  Nothing else has to happen.      *)
(***************************************************************************)
Fairness ==
  /\ WF_vars(Reconcile)
  /\ WF_vars(BuildStarts) /\ WF_vars(BuildEnds) /\ WF_vars(LifetimeEnds)
  /\ WF_vars(PodGone)
  /\ WF_vars(SeeSeed) /\ WF_vars(SeePod) /\ WF_vars(SeeService)
  /\ WF_vars(CreateRegistration)

Spec == Init /\ [][Next]_vars /\ Fairness

----------------------------------------------------------------------------
(***************************************************************************)
(* The download server: getSeedImage takes the SeedImage from the cache    *)
(* and refuses one with a condition that is not True; the Service is       *)
(* looked up in the cache as well.                                         *)
(***************************************************************************)
apiSeedImage ==
  /\ seedCache.cond.ready # "False"
  /\ seedCache.cond.image = "none" \/ ConditionMet(seedCache)
  /\ svcCache

(***************************************************************************)
(* The name in the DownloadURL is that of the file a running Pod serves,   *)
(* also when the configuration changed during the build and the ConfigMap  *)
(* that both names come from was replaced; unless the ConfigMap was lost   *)
(* while a Pod had taken its name or the DownloadURL showed it: the URL is *)
(* not cleared then, and a later Pod gets another name.                    *)
(***************************************************************************)
DownloadFindsFile ==
  seed.url # 0 /\ apiSeedImage /\ pod.phase = "Running" =>
    seed.url = pod.name \/ renamed

(***************************************************************************)
(* An image that was available and has been cleaned up is not built again  *)
(* unless RetriggerBuild asks for it: no copy of an older status makes the *)
(* controller create the Pod once more.  When the copies of the SeedImage  *)
(* and of the Pod both lag it may: the last reconcile of the running Pod   *)
(* and the clean-up can then be computed from one old status, and so can   *)
(* what follows them.                                                      *)
(***************************************************************************)
CleanedUp ==
  build = "available" /\ seed.cond.image = "Deadline" /\ pod.phase = "absent"

CleanedUpStaysSo ==
  [][CleanedUp /\ ~({"seed", "pod"} \subseteq start.lags)
       => pod'.phase = "absent"]_vars

(***************************************************************************)
(* Builds come to an end: again and again the image is available, has      *)
(* failed or is cleaned up, whatever was lost, deleted or edited.          *)
(***************************************************************************)
BuildsEnd == []<>Ended

(***************************************************************************)
(* A rebuild that is asked for begins, unless a call of the reset that     *)
(* answers it fails: its Delete of the Pod, or its status patch.  A copy   *)
(* of the Pod that lags may show the image of the last build once more.    *)
(***************************************************************************)
RebuildBegins ==
  ("pod" \notin start.lags /\ build = "asked") ~> build # "asked"

(***************************************************************************)
(* An image that stays available is made from the base image its spec      *)
(* names, also when that was edited while a Pod was being created.  A raw  *)
(* build takes it from the ConfigMap, which another base image does not    *)
(* replace.                                                                *)
(***************************************************************************)
StaysAvailable == <>[](seed.cond.image = "Success" /\ pod.phase = "Running")

ServesRequestedBase ==
  StaysAvailable => <>[](start.raw \/ pod.built = seed.base)

\* After the deadline the Pod, the Service and the DownloadURL go.
DeadlineCleansUp ==
  <>[](seed.cond.image = "Deadline") =>
    <>[](pod.phase = "absent" /\ ~svc /\ seed.url = 0)

----------------------------------------------------------------------------
(***************************************************************************)
(* What the API says of a SeedImage, with no exception.                    *)
(***************************************************************************)
\* SeedImageSpec.BaseImage: "the base elemental image used to build the seed
\* image."
BuiltFromBaseImage == StaysAvailable => <>[](pod.built = seed.base)

\* SeedImageStatus.DownloadURL: "the URL from which the SeedImage can be
\* downloaded once built."
DownloadURLServed ==
  seed.url # 0 /\ apiSeedImage /\ pod.phase = "Running" => seed.url = pod.name

\* The SeedImageReady condition: "seed image iso available".
AvailableIsServed ==
  <>[](seed.cond.image = "Success") => []<>(pod.phase = "Running")

\* SeedImageSpec.RetriggerBuild: "triggers to build again a cleaned up seed
\* image."
RetriggerBuildsAgain ==
  (build = "asked" /\ seed.cond.image = "Deadline" /\ pod.phase = "absent")
    ~> build = "begun"
=============================================================================
