---------------------------- MODULE MCSeedImage ----------------------------
(***************************************************************************)
(* Instances of SeedImageLifecycle for TLC.                                *)
(***************************************************************************)
EXTENDS SeedImageLifecycle

CONSTANTS b1, b2

Budget(triggers, bases, configs, evictions, failures) ==
  [kind \in Kinds |->
    CASE kind = "trigger" -> triggers
      [] kind = "base" -> bases
      [] kind = "config" -> configs
      [] kind = "evict" -> evictions
      [] kind = "fail" -> failures]

From(lags, raw, lifetime, registered, budget) ==
  [base |-> b1, raw |-> raw, lifetime |-> lifetime, registered |-> registered,
   lags |-> lags, moves |-> budget]

\* The copy of the SeedImage lags, with a lifetime and without one; those of
\* the Pod and the Service do; a raw image; a current copy of all but the
\* Service, with two rebuilds.
Scenarios ==
  {From({"seed"}, FALSE, TRUE, FALSE, Budget(1, 1, 1, 0, 0)),
   From({"seed"}, FALSE, FALSE, TRUE, Budget(1, 2, 0, 1, 0)),
   From({"pod", "service"}, FALSE, TRUE, TRUE, Budget(1, 0, 1, 1, 1)),
   From({"service"}, TRUE, TRUE, TRUE, Budget(1, 1, 1, 1, 1)),
   From({"service"}, FALSE, TRUE, TRUE, Budget(2, 1, 0, 1, 0))}

\* The base image of a raw image, or of an ISO, is edited.
RawEdited == {From({"service"}, TRUE, FALSE, TRUE, Budget(0, 1, 0, 0, 0))}
IsoEdited == {From({"service"}, FALSE, FALSE, TRUE, Budget(0, 1, 0, 0, 0))}

\* The configuration is edited; a rebuild of a cleaned up image is asked for.
Reconfigured == {From({"service"}, FALSE, FALSE, TRUE, Budget(0, 0, 1, 0, 0))}
Rebuilt      == {From({"service"}, FALSE, TRUE, TRUE, Budget(1, 0, 0, 0, 0))}
=============================================================================
