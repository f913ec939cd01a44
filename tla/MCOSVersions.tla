---------------------------- MODULE MCOSVersions ----------------------------
(***************************************************************************)
(* Instances of OSVersions for TLC.                                        *)
(***************************************************************************)
EXTENDS OSVersions

CONSTANTS v1, v2, m1

keep     == [valid |-> TRUE, enabled |-> TRUE, prune |-> FALSE]
disabled == [valid |-> TRUE, enabled |-> FALSE, prune |-> TRUE]
invalid  == [valid |-> FALSE, enabled |-> TRUE, prune |-> FALSE]

pruning  == [keep EXCEPT !.prune = TRUE]

AllSpecs == {keep, disabled, invalid, pruning}

Budget(edits, intervals, evictions, deletions, writes) ==
  [kind \in Kinds |->
    CASE kind = "edit" -> edits
      [] kind = "interval" -> intervals
      [] kind = "evict" -> evictions
      [] kind = "delete" -> deletions
      [] kind = "image" -> writes]

Start(spec, p, existing, budget) ==
  [spec |-> spec, pod |-> p, versions |-> existing, foreign |-> {},
   moves |-> budget]

OldPod == [NewPod EXCEPT !.old = TRUE]

\* A disabled channel that is changed; one with an outdated Pod that is
\* changed, and that lists a version it did not create; one that is disabled
\* with a Pod somebody else removes too.
ChannelStarts ==
  {Start(disabled, NoPod, {v1}, Budget(1, 0, 0, 0, 0)),
   [Start(keep, OldPod, {}, Budget(1, 0, 0, 0, 0)) EXCEPT !.foreign = {v1}],
   Start(disabled, OldPod, {v1}, Budget(0, 0, 1, 0, 0))}

\* A channel that is synced twice; one that deletes what it lists no longer.
VersionStarts ==
  {Start(keep, NoPod, {}, Budget(0, 1, 0, 0, 0)),
   Start(pruning, NoPod, {v2}, Budget(0, 0, 0, 0, 0))}

\* Versions without a working channel while an image uses them: the image is
\* edited twice and one of the versions is deleted, or the channel is disabled
\* and deletes them.
Held == Start(invalid, NoPod, {v1, v2}, Budget(0, 0, 0, 1, 2))

ImageStarts ==
  {Held, Start(disabled, NoPod, {v1}, Budget(0, 0, 0, 0, 2))}

Scenarios == ChannelStarts \cup VersionStarts \cup ImageStarts

OnlyHeld == {Held}

OnlyOne  == {{v1}}
=============================================================================
