--------------------------- MODULE MCRegistration ---------------------------
(***************************************************************************)
(* Instances of Registration for TLC.                                      *)
(***************************************************************************)
EXTENDS Registration

CONSTANTS r1, r2, t1

Budget(tokens, removals, losses, deletions, cuts, blackouts) ==
  [kind \in Kinds |->
    CASE kind = "token" -> tokens
      [] kind = "remove" -> removals
      [] kind = "rbac" -> losses
      [] kind = "delete" -> deletions
      [] kind = "lose" -> cuts
      [] kind = "power" -> blackouts]

From(first, second, h, lags, budget) ==
  [regs |-> [r \in Regs |-> IF r = r1 THEN first ELSE second],
   serverURL |-> first.ready = "True", token |-> t1, host |-> h,
   invs |-> [i \in Inventories |->
              IF h.agent = i THEN [Unborn EXCEPT !.life = "exists", !.net = TRUE]
              ELSE Unborn],
   fixed |-> FALSE, resettable |-> TRUE, network |-> FALSE,
   toolkit |-> TRUE, confDir |-> TRUE, lags |-> lags, moves |-> budget]

Serving == ReadyRegistration(t1)
OffHost == [LiveHost EXCEPT !.booted = "recovery", !.state = "registered", !.agent = 1]
Installed == [OffHost EXCEPT !.booted = "active"]
Unmanaged == [LiveHost EXCEPT !.booted = "active"]

\* Two registrations, of which one may be edited, deleted or restored, with
\* a current cache and with one that lags.
ControllerStarts ==
  {From(NewRegistration(t1), NewRegistration(None), OffHost, {}, Budget(2, 1, 1, 0, 0, 0)),
   From(Serving, [NewRegistration(t1) EXCEPT !.held = TRUE], OffHost, {"reg"},
        Budget(1, 1, 0, 0, 0, 0))}

\* A first registration; one whose cached inventory lags; one with a power
\* failure; one whose inventory is deleted, held for a reset, or with a fixed
\* name and not held; machines without the toolkit.
InstallStarts ==
  {From(NewRegistration(t1), NoRegistration, LiveHost, {}, Budget(0, 0, 1, 0, 1, 0)),
   From(Serving, NoRegistration, LiveHost, {"inv"}, Budget(0, 0, 0, 0, 0, 0)),
   From(Serving, NoRegistration, LiveHost, {}, Budget(0, 0, 0, 0, 1, 1)),
   From(Serving, NoRegistration, LiveHost, {}, Budget(0, 0, 0, 1, 0, 0)),
   [From(Serving, NoRegistration, LiveHost, {"inv"}, Budget(0, 0, 0, 1, 1, 0))
      EXCEPT !.fixed = TRUE, !.resettable = FALSE],
   [From(Serving, NoRegistration, Unmanaged, {}, Budget(0, 0, 0, 0, 1, 0))
      EXCEPT !.toolkit = FALSE],
   [From(Serving, NoRegistration, Unmanaged, {}, Budget(0, 0, 0, 0, 0, 0))
      EXCEPT !.toolkit = FALSE, !.confDir = FALSE]}

\* A machine that is reset, with its network, with an inventory that is
\* released late, and with both.
ResetStarts ==
  {[From(Serving, NoRegistration, [Installed EXCEPT !.nm = Configured], {"inv"},
         Budget(0, 0, 0, 1, 0, 1)) EXCEPT !.network = TRUE],
   From(Serving, NoRegistration, Installed, {"release"}, Budget(0, 0, 0, 1, 1, 1)),
   [From(Serving, NoRegistration, [Installed EXCEPT !.nm = Configured], {"release"},
         Budget(0, 0, 0, 1, 0, 1)) EXCEPT !.network = TRUE]}

Scenarios == ControllerStarts \cup InstallStarts \cup ResetStarts

\* Two registrations that ask for one token, and a cache that lags; one
\* whose token is edited while it is not ready; one whose Secret is lost;
\* a new machine that gives up its first session.
OnlyShared ==
  {From(NewRegistration(t1), NewRegistration(t1), OffHost, {"reg"}, Budget(0, 0, 0, 0, 0, 0))}
OnlyEdited ==
  {From(NewRegistration(None), NoRegistration, OffHost, {}, Budget(1, 0, 0, 0, 0, 0))}
OnlyLost ==
  {From(Serving, NoRegistration, OffHost, {}, Budget(0, 0, 1, 0, 0, 0))}
OnlyGivenUp ==
  {From(Serving, NoRegistration, LiveHost, {}, Budget(0, 0, 0, 0, 1, 0))}
=============================================================================
