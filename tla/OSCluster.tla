----------------------------- MODULE OSCluster -----------------------------
(***************************************************************************)
(* The objects of the OS version controllers: one ManagedOSVersionChannel  *)
(* and its syncer Pod, the ManagedOSVersions it creates, and the           *)
(* ManagedOSImages that refer to them with their Fleet Bundles.            *)
(*                                                                         *)
(* Channel, Pods and images are read from an informer cache that lags; the *)
(* manager disables the cache for ManagedOSVersions.  A reconcile reads    *)
(* the cache first and patches its own object last, with the               *)
(* resourceVersion it read, so a whole reconcile is one step here: what    *)
(* another actor does between the read and a later call is covered by the  *)
(* lag of the caches, and what ends it half-way by Fault.  Each of the     *)
(* three controllers has its work queue, and only events fill it: the      *)
(* manager runs its caches without a resync.  An event of a version queues *)
(* it as soon as it happens: the version is read from the server, so that  *)
(* a reconcile before the event arrives finds what one after it would.     *)
(* Events of images arrive with the cached copy.                           *)
(***************************************************************************)
EXTENDS Naturals, FiniteSets

CONSTANTS
  Versions,     \* names of ManagedOSVersions
  Images,       \* names of ManagedOSImages
  None,         \* no version
  Specs,        \* channel specs the user may write
  Listings,     \* sets of versions a sync may find in the channel's image
  MaxFailures,  \* maxConscutiveFailures
  MaxFaults,    \* bound: failed API calls and manager crashes
  Starts        \* where to start from, with bounds on what others do

Spec0 == [valid : BOOLEAN, enabled : BOOLEAN, prune : BOOLEAN]

\* Ongoing: Pending or Running.  old: started by an operator of another version, with another image.
Pod == [phase : {"absent", "Ongoing", "Succeeded", "Failed"},
        deleting : BOOLEAN, old : BOOLEAN]
NoPod  == [phase |-> "absent", deleting |-> FALSE, old |-> FALSE]
NewPod == [phase |-> "Ongoing", deleting |-> FALSE, old |-> FALSE]

\* A start: the channel's spec, the syncer Pod, versions the channel created
\* earlier, versions it did not create, and bounds on the moves of each kind
\* that are made: edits of the channel, intervals that pass, Pods lost,
\* versions deleted, images written.
Kinds == {"edit", "interval", "evict", "delete", "image"}

ASSUME OSNamesAssumption ==
  /\ None \notin Versions
  /\ Listings \subseteq SUBSET Versions
  /\ Specs \subseteq Spec0
ASSUME OSStartsAssumption ==
  \A start \in Starts :
    /\ start.spec \in Specs
    /\ start.pod \in Pod
    /\ start.versions \subseteq Versions
    /\ start.foreign \subseteq Versions \ start.versions
    /\ start.moves \in [Kinds -> Nat]
ASSUME OSBoundsAssumption ==
  /\ MaxFailures \in Nat
  /\ MaxFaults \in Nat

VARIABLES
  ch,         \* the ManagedOSVersionChannel on the server
  chCache,    \* the same object in the informer cache
  chNote,     \* an undelivered channel event passes filterChannelEvents
  pod,        \* the syncer Pod on the server
  podCache,   \* the same Pod in the informer cache
  podNote,    \* an undelivered Pod event changes the phase
  queued,     \* the channel is in its work queue
  waits,      \* the channel is to be queued when the interval passes
  vers,       \* vers[v]: the ManagedOSVersion, read without a cache
  versQueue,  \* the versions in the work queue of their controller
  img,        \* img[m]: the ManagedOSImage on the server
  imgCache,   \* the same object in the informer cache
  imgNote,    \* imgNote[m]: the versions undelivered events of it are mapped to
  imgQueue,   \* the images in the work queue of their controller
  bundle,     \* bundle[m]: the upgrade the Fleet Bundle of image m deploys
  listed,     \* history: what the last sync that succeeded had listed, and
              \* what syncs that failed half-way have changed since
  blind,      \* history: that sync, or a later step, saw no owned version
  moves,      \* moves left of each kind
  faults      \* faults so far

chVars  == <<ch, chCache, chNote>>
podVars == <<pod, podCache, podNote>>
versVars == <<vers, versQueue>>
imgVars == <<img, imgCache, imgNote, imgQueue, bundle>>
vars == <<chVars, podVars, queued, waits, versVars, imgVars, listed, blind,
          moves, faults>>

(***************************************************************************)
(* ready is the reason of the Ready condition; last: LastSyncedTime is     *)
(* set; due: LastSyncedTime plus the interval lies in the past.            *)
(***************************************************************************)
Reasons == {"none", "InvalidConfiguration", "ChannelDisabled", "Syncing",
            "FailedToSync", "FailedToCreatePod", "Synced"}

Channel ==
  [gen : Nat, spec : Specs, ready : Reasons, attempts : Nat,
   synced : Nat, last : BOOLEAN, due : BOOLEAN]

NewChannel(spec) ==
  [gen |-> 1, spec |-> spec, ready |-> "none", attempts |-> 0,
   synced |-> 0, last |-> FALSE, due |-> FALSE]

\* own is the label with the channel's name, flag the no-longer-synced
\* annotation.
Version == [exists : BOOLEAN, own : BOOLEAN, deleting : BOOLEAN,
            finalizer : BOOLEAN, flag : BOOLEAN]
NoVersion == [exists |-> FALSE, own |-> FALSE, deleting |-> FALSE,
              finalizer |-> FALSE, flag |-> FALSE]
NewVersion     == [NoVersion EXCEPT !.exists = TRUE, !.own = TRUE]
ForeignVersion == [NoVersion EXCEPT !.exists = TRUE]

\* custom: Spec.UpgradeContainer is there, without an Image at first; pin is
\* the upgrade image written into it.  label is the version-name label,
\* created the FleetBundleCreation condition.
Targets == Versions \cup {None}
Image == [phase : {"none", "live", "gone"}, want : Targets, custom : BOOLEAN,
          label : Targets, created : BOOLEAN, pin : Targets]
NoImage == [phase |-> "none", want |-> None, custom |-> FALSE, label |-> None,
            created |-> FALSE, pin |-> None]

\* The types of all variables.
OSTypeOK ==
  /\ ch \in Channel /\ chCache \in Channel /\ chNote \in BOOLEAN
  /\ pod \in Pod /\ podCache \in Pod /\ podNote \in BOOLEAN
  /\ queued \in BOOLEAN
  /\ waits \in BOOLEAN
  /\ vers \in [Versions -> Version]
  /\ versQueue \subseteq Versions
  /\ img \in [Images -> Image] /\ imgCache \in [Images -> Image]
  /\ imgNote \in [Images -> SUBSET Versions]
  /\ imgQueue \subseteq Images
  /\ bundle \in [Images -> Targets \cup {"absent"}]
  /\ listed \subseteq Versions
  /\ blind \in BOOLEAN
  /\ moves \in [Kinds -> Nat]
  /\ faults \in 0..MaxFaults

Move(kind) == moves[kind] > 0 /\ moves' = [moves EXCEPT ![kind] = @ - 1]
Fault   == faults < MaxFaults /\ faults' = faults + 1
NoFault == UNCHANGED faults

\* The versions become those of new; the events of those that change queue
\* them.
WriteVersions(new) ==
  /\ vers' = new
  /\ versQueue' = versQueue \cup {v \in Versions : new[v] # vers[v]}

(***************************************************************************)
(* Image m becomes o.  The event is mapped to the version that the image   *)
(* named before and to the one it names now, whatever its label says.      *)
(***************************************************************************)
ImageEvent(m, o) ==
  /\ img' = [img EXCEPT ![m] = o]
  /\ imgNote' = IF o = img[m] THEN imgNote
                ELSE [imgNote EXCEPT ![m] = @ \cup ({img[m].want, o.want} \ {None})]

\* Delete of a version: held by the finalizer, or immediate.
Deleted(o) == IF o.finalizer THEN [o EXCEPT !.deleting = TRUE] ELSE NoVersion
=============================================================================
