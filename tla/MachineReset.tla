---------------------------- MODULE MachineReset ----------------------------
(***************************************************************************)
(* The reset plan on the machine: the system agent that runs it, and       *)
(* ResetNetworkConfig, its first instruction on a machine whose network    *)
(* the registration configured.                                            *)
(***************************************************************************)
EXTENDS ElementalRegister

\* Whatever ends the instruction, the agent runs it again later.
NetworkStep(nm, phase) ==
  /\ host' = [host EXCEPT !.nm = nm]
  /\ Goto(phase)
  /\ UNCHANGED <<regVars, invVars, sess, confirmed, broke, start, moves, faults>>

NetworkPhase(phase) == proc.mode = "network" /\ proc.phase = phase

\* The remaining instructions choose recovery for the next boot and schedule
\* the reboot in one minute.
InstructionsDone == host' = [host EXCEPT !.plan = "done", !.next = TRUE]

NetworkAlreadyReset ==
  /\ NetworkPhase("run") /\ ~host.nm.files
  /\ InstructionsDone
  /\ proc' = NoProcess
  /\ UNCHANGED <<regVars, invVars, sess, confirmed, broke, start, moves, faults>>

RemoveApplicator ==
  /\ NetworkPhase("run") /\ host.nm.files
  /\ NetworkStep([host.nm EXCEPT !.app = FALSE], "files")

DeleteConnections ==
  /\ NetworkPhase("files")
  /\ NetworkStep([host.nm EXCEPT !.files = FALSE], "reload")

ReloadConnections ==
  /\ NetworkPhase("reload")
  /\ NetworkStep([host.nm EXCEPT !.loaded = host.nm.files], "restart")

RestartNetworkManager ==
  /\ NetworkPhase("restart")
  /\ NetworkStep([host.nm EXCEPT !.inUse = host.nm.loaded], "online")

WaitOnline ==
  /\ NetworkPhase("online")
  /\ NetworkStep(host.nm, "agent")

\* The agent, and this process with it, is stopped; it begins the plan again.
RestartAgent ==
  /\ NetworkPhase("agent")
  /\ host' = [host EXCEPT !.plan = "none"]
  /\ proc' = NoProcess
  /\ UNCHANGED <<regVars, invVars, sess, confirmed, broke, start, moves, faults>>

\* One of the commands fails.
NetworkResetFails ==
  /\ proc.mode = "network" /\ proc.phase \in {"run", "files", "reload", "restart", "online", "agent"}
  /\ host.nm.files \/ proc.phase # "run"
  /\ Fault
  /\ broke' = TRUE
  /\ proc' = NoProcess
  /\ UNCHANGED <<regVars, invVars, sess, host, confirmed, start, moves>>

\* Mutant: NetworkManager is restarted after the agent, too late.
ResetNetworkConfigAgentFirst ==
  \/ NetworkAlreadyReset \/ RemoveApplicator \/ DeleteConnections
  \/ NetworkPhase("reload") /\ NetworkStep([host.nm EXCEPT !.loaded = host.nm.files], "agent")
  \/ RestartNetworkManager \/ WaitOnline \/ RestartAgent
  \/ NetworkResetFails

ResetNetworkConfig ==
  \/ NetworkAlreadyReset \/ RemoveApplicator \/ DeleteConnections
  \/ ReloadConnections \/ RestartNetworkManager \/ WaitOnline \/ RestartAgent
  \/ NetworkResetFails

----------------------------------------------------------------------------
(***************************************************************************)
(* The agent gets the plan of a resettable inventory that is deleted,      *)
(* writes its file and runs it, unless it confirmed it before.             *)
(***************************************************************************)
PlanPending ==
  /\ host.booted = "active" /\ host.agent # 0
  /\ start.resettable /\ start.toolkit
  /\ Exists(inv[host.agent]) /\ inv[host.agent].deleting
  /\ host.agent \notin confirmed

ApplyPlan ==
  /\ PlanPending /\ host.plan = "none" /\ proc = NoProcess
  /\ host' = [host EXCEPT !.resetFile = TRUE,
                          !.plan = IF start.network THEN "running" ELSE "done",
                          !.next = ~start.network]
  /\ UNCHANGED <<regVars, invVars, sess, proc, confirmed, broke, start, moves, faults>>

ConfirmPlan ==
  /\ host.plan = "done" /\ host.agent \notin confirmed
  /\ confirmed' = confirmed \cup {host.agent}
  /\ UNCHANGED <<regVars, invVars, sess, host, proc, broke, start, moves, faults>>

\* The finalizer of the inventory goes with the confirmation of its plan.
ReleaseInventory(i) ==
  /\ Exists(inv[i]) /\ inv[i].deleting /\ i \in confirmed
  /\ Write(i, [inv[i] EXCEPT !.life = "gone"], sess)
  /\ UNCHANGED <<regVars, hostVars, start, moves, faults>>

(***************************************************************************)
(* The scheduled reboot, and one by a failure of the power, also while the *)
(* state file is written.  The minute before the scheduled one is there    *)
(* for the plan to be confirmed.  Unless "release" lags, that minute is    *)
(* enough for the inventory to go as well, and the power does not fail in  *)
(* the moment the confirmation takes to release it.                        *)
(***************************************************************************)
Released == "release" \in start.lags \/ inv[host.agent].life = "gone"

RebootToRecovery ==
  /\ host.booted = "active" /\ host.plan = "done" /\ proc = NoProcess
  /\ Released
  /\ host' = Boot(host, "recovery")
  /\ UNCHANGED <<regVars, invVars, sess, proc, confirmed, broke, start, moves, faults>>

PowerLoss ==
  /\ Move("power")
  /\ host.plan = "done" /\ host.agent \in confirmed => Released
  /\ \E cut \in {proc.phase = "save", FALSE} :
       host' = Boot([host EXCEPT !.state = IF cut THEN "cut" ELSE @],
                    IF host.booted = "live" THEN "live"
                    ELSE IF host.next THEN "recovery" ELSE "active")
  /\ proc' = NoProcess
  /\ sess' = Untied(proc.sess)
  /\ UNCHANGED <<regVars, invVars, confirmed, broke, start, faults>>
=============================================================================
