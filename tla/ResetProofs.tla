---------------------------- MODULE ResetProofs ----------------------------
(***************************************************************************)
(* The reset of a machine: whatever is lost on the way, its agent is never *)
(* left with an inventory that is gone, and from the confirmation of the   *)
(* plan on the addresses of the machine are free for others.               *)
(***************************************************************************)
EXTENDS MachineProofs

Gone(i) == inv[i].life = "gone"

\* The inventory goes before the machine does.
Prompt == "release" \notin start.lags

(***************************************************************************)
(* A confirmed inventory is gone, but for the minute before the reboot, so *)
(* that a reset registers with another one.  What the reset has from its   *)
(* session, and the agent from the reset, is not confirmed.                *)
(***************************************************************************)
ReleaseInv ==
  Prompt =>
    /\ \A i \in confirmed : Gone(i) \/ (i = host.agent /\ host.plan = "done")
    /\ host.agent \in confirmed => host.resetFile
    /\ proc.mode = "reset" =>
         /\ proc.phase = "wait" /\ HasInventory(proc.sess) =>
              sess[proc.sess].inv \notin confirmed
         /\ HasConfig => proc.inv \notin confirmed
         /\ proc.phase = "cleanup" => host.agent = proc.inv

(***************************************************************************)
(* An inventory whose network is configured has the finalizer: it is there *)
(* until its plan is confirmed.  One that has not got so far can go, but a *)
(* session only answers for an inventory of which the cache shows the      *)
(* condition.  So what a config names, and the agent, is there, or its     *)
(* plan is confirmed.                                                      *)
(***************************************************************************)
There(i) == (Exists(inv[i]) /\ inv[i].net) \/ i \in confirmed

\* The same after the step.
ThereNext(i) == (Exists(inv'[i]) /\ inv'[i].net) \/ i \in confirmed'

Known(i) == Exists(invCache[i]) /\ invCache[i].net

KnownNext(i) == Exists(invCache'[i]) /\ invCache'[i].net

AgentInv ==
  start.resettable =>
    /\ \A i \in Inventories : Known(i) => There(i)
    /\ \A s \in Sessions : sess[s].phase = "config" => There(sess[s].inv)
    /\ HasConfig => There(proc.inv)
    /\ host.agent # 0 => There(host.agent)

(***************************************************************************)
(* What each phase of ResetNetworkConfig has achieved, and that what a run *)
(* without a failure has achieved is not undone: neither by a reboot,      *)
(* wherever it happens, nor by a second run, nor by a reset that registers *)
(* with another inventory.                                                 *)
(***************************************************************************)
Off(nm) == ~nm.app /\ ~nm.files /\ ~nm.inUse

Phases(nm, phase) ==
  /\ nm.app => nm.files \/ phase = "cleanup"
  /\ phase \in NetworkPhases => ~nm.app
  /\ phase \in NetworkPhases \ {"files"} => ~nm.files
  /\ phase = "restart" => ~nm.loaded

NetworkInv ==
  /\ ~start.network => host.nm = NoNetwork
  /\ Phases(host.nm, proc.phase)
  /\ ~broke =>
       /\ host.nm.inUse => host.nm.files \/ proc.phase \in {"reload", "restart"}
       /\ host.plan = "done" => Off(host.nm)
       /\ host.booted = "recovery" /\ confirmed # {} => ~host.nm.inUse
       /\ Prompt /\ host.agent \in confirmed => Off(host.nm)

----------------------------------------------------------------------------
(***************************************************************************)
(* Inventories: one that is gone does not come back; a resettable one with *)
(* its network configured only goes when its plan is confirmed; and what   *)
(* the cache learns is so.                                                 *)
(***************************************************************************)
InventoriesKept ==
  /\ confirmed \subseteq confirmed'
  /\ \A i \in Inventories : Gone(i) => Gone(i)'
  /\ start.resettable => \A i \in Inventories : There(i) => ThereNext(i)
  /\ \A i \in Inventories : KnownNext(i) => Known(i) \/ ThereNext(i)

LEMMA UntouchedKept ==
  ASSUME UNCHANGED <<invVars, start>>, confirmed \subseteq confirmed'
  PROVE  InventoriesKept
BY DEF invVars, InventoriesKept, Gone, There, ThereNext, Known, KnownNext

\* A write of an inventory, which keeps one with its network configured.
LEMMA WriteKeeps ==
  ASSUME Shaped, NEW i \in Inventories, NEW o, NEW ss, Write(i, o, ss),
         UNCHANGED <<confirmed, start>>,
         Gone(i) => o.life = "gone",
         start.resettable /\ Exists(inv[i]) /\ inv[i].net =>
           (Exists(o) /\ o.net) \/ i \in confirmed
  PROVE  InventoriesKept
<1>1. inv' = [inv EXCEPT ![i] = o] /\ inv \in [Inventories -> Inventory]
        /\ (invCache' = invCache \/ invCache' = inv')
  BY DEF Write, Shaped, InvIInv
<1> QED
  BY <1>1 DEF InventoriesKept, Gone, There, ThereNext, Known, KnownNext

LEMMA InventoryKept ==
  ASSUME Shaped, NEW i \in Inventories,
         \/ ReleaseInventory(i) \/ DeleteInventory(i)
         \/ NetworkConfigured(i) \/ SeeInventory(i)
  PROVE  InventoriesKept
<1>1. UNCHANGED <<confirmed, start>> /\ inv[i] \in Inventory
  BY DEF ReleaseInventory, DeleteInventory, NetworkConfigured, SeeInventory,
         hostVars, Shaped, InvIInv
<1>2. /\ [inv[i] EXCEPT !.life = "gone"].life = "gone"
      /\ [inv[i] EXCEPT !.deleting = TRUE].net = inv[i].net
      /\ [inv[i] EXCEPT !.net = TRUE].net
      /\ Exists(inv[i]) => /\ Exists([inv[i] EXCEPT !.deleting = TRUE])
                           /\ Exists([inv[i] EXCEPT !.net = TRUE])
                           /\ ~Gone(i)
  BY <1>1 DEF Inventory, Exists, Gone
<1>3. CASE ReleaseInventory(i)
  BY <1>1, <1>2, <1>3, WriteKeeps DEF ReleaseInventory
<1>4. CASE DeleteInventory(i)
  <2>1. PICK held \in HeldOnDeletion(i) :
          Write(i, IF held THEN [inv[i] EXCEPT !.deleting = TRUE]
                   ELSE [inv[i] EXCEPT !.life = "gone"], sess)
    BY <1>4 DEF DeleteInventory
  <2>2. Exists(inv[i])
    BY <1>4 DEF DeleteInventory
  <2>3. CASE held
    BY <1>1, <1>2, <2>1, <2>2, <2>3, WriteKeeps
  <2>4. CASE ~held
    <3>1. start.resettable => ~inv[i].net
      BY <1>1, <2>1, <2>4 DEF HeldOnDeletion, Inventory
    <3> QED
      BY <1>1, <1>2, <2>1, <2>4, <3>1, WriteKeeps
  <2> QED
    BY <2>3, <2>4
<1>5. CASE NetworkConfigured(i)
  BY <1>1, <1>2, <1>5, WriteKeeps DEF NetworkConfigured
<1>6. CASE SeeInventory(i)
  <2>1. inv' = inv /\ invCache' = [invCache EXCEPT ![i] = inv[i]]
          /\ invCache \in [Inventories -> Inventory]
    BY <1>6 DEF SeeInventory, Shaped, OperatorTypes
  <2> QED
    BY <1>1, <2>1 DEF InventoriesKept, Gone, There, ThereNext, Known, KnownNext
<1> QED
  BY <1>3, <1>4, <1>5, <1>6

\* A session has the inventory it had, or one that exists as it commits.
Committed(s) ==
  HasInventory(s)' =>
    \/ HasInventory(s) /\ sess'[s].inv = sess[s].inv
    \/ /\ sess'[s].inv \in Inventories
       /\ ~Gone(sess'[s].inv) /\ Exists(inv'[sess'[s].inv])

\* A session only answers for an inventory that the cache knows.
Answered(s) ==
  sess'[s].phase = "config" =>
    /\ sess'[s].inv = sess[s].inv
    /\ sess[s].phase = "config" \/ (HasInventory(s) /\ Known(sess[s].inv))

LEMMA CreateCommits ==
  ASSUME Shaped, NEW s \in Sessions, createMachineInventory(s), UNCHANGED hostVars
  PROVE  InventoriesKept /\ \A o \in Sessions : Committed(o) /\ Answered(o)
<1> DEFINE ss(i) == [sess EXCEPT ![s].phase = "committed", ![s].inv = i, ![s].fresh = TRUE]
           new == [Unborn EXCEPT !.life = "exists"]
<1>1. PICK i \in Inventories : inv[i] = Unborn /\ Write(i, new, ss(i))
  BY DEF createMachineInventory
<1>2. UNCHANGED <<confirmed, start>>
  BY DEF createMachineInventory, hostVars
<1>3. /\ ss(i) \in [Sessions -> Session] /\ ss(i)[s].inv = i
      /\ ss(i)[s].phase = "committed"
      /\ \A o \in Sessions \ {s} : ss(i)[o] = sess[o]
  BY <1>1 DEF Shaped, MachineShaped, MachineTypes, Session
<1>4. new \in Inventory /\ Exists(new) /\ ~Gone(i) /\ ~Exists(inv[i])
  <2>1. new \in Inventory /\ new.life = "exists"
    BY DEF Unborn, Inventory
  <2>2. inv[i].life = "unborn"
    BY <1>1 DEF Unborn
  <2> QED
    BY <2>1, <2>2 DEF Exists, Gone
<1> HIDE DEF ss, new
<1>5. \A o \in Sessions : SameButFresh(sess'[o], ss(i)[o])
  BY <1>1, <1>3, <1>4, WriteTyped
<1>6. InventoriesKept
  BY <1>1, <1>2, <1>4, WriteKeeps
<1>7. inv'[i] = new
  BY <1>1 DEF Write, Shaped, InvIInv
<1> QED
  BY <1>1, <1>3, <1>4, <1>5, <1>6, <1>7 DEF Committed, Answered, HasInventory, SameButFresh

LEMMA UpdateCommits ==
  ASSUME Shaped, NEW s \in Sessions, updateMachineInventory(s), UNCHANGED hostVars
  PROVE  InventoriesKept /\ \A o \in Sessions : Committed(o) /\ Answered(o)
<1> DEFINE i == sess[s].inv
           ss == [sess EXCEPT ![s].phase = "committed", ![s].fresh = TRUE]
<1>1. /\ i \in Inventories /\ inv[i] \in Inventory /\ Exists(inv[i]) /\ ~Gone(i)
      /\ Write(i, inv[i], ss)
  BY DEF updateMachineInventory, UpdateAccepted, Shaped, InvIInv, MachineShaped,
         MachineTypes, Session, Exists, Gone
<1>2. UNCHANGED <<confirmed, start>>
  BY DEF updateMachineInventory, hostVars
<1>3. /\ ss \in [Sessions -> Session] /\ ss[s].inv = i /\ ss[s].phase = "committed"
      /\ \A o \in Sessions \ {s} : ss[o] = sess[o]
  BY DEF Shaped, MachineShaped, MachineTypes, Session
<1> HIDE DEF i, ss
<1>4. \A o \in Sessions : SameButFresh(sess'[o], ss[o])
  BY <1>1, <1>3, WriteTyped
<1>5. InventoriesKept
  BY <1>1, <1>2, WriteKeeps
<1>6. Exists(inv'[i])
  BY <1>1 DEF Write, Shaped, InvIInv
<1> QED
  BY <1>1, <1>3, <1>4, <1>5, <1>6 DEF Committed, Answered, HasInventory, SameButFresh

LEMMA ServerCommits ==
  ASSUME Shaped, ServerSteps
  PROVE  InventoriesKept /\ \A o \in Sessions : Committed(o) /\ Answered(o)
<1>1. PICK s \in Sessions : ServerStep(s)
  BY DEF ServerSteps
<1>2. sess \in [Sessions -> Session] /\ UNCHANGED hostVars
  BY DEF ServerSteps, Shaped, MachineShaped, MachineTypes
<1>3. ASSUME UNCHANGED <<invVars, start>> PROVE InventoriesKept
  BY <1>2, <1>3, UntouchedKept DEF hostVars
<1>4. CASE Serve(s) \/ listMachineInventories(s) \/ commitFails(s)
             \/ writeMachineInventoryCloudConfig(s) \/ handleGetFails(s)
  <2>1. InventoriesKept
    BY <1>3, <1>4 DEF Serve, listMachineInventories, commitFails,
                      writeMachineInventoryCloudConfig, handleGetFails
  <2>2. ASSUME NEW phase \in {"get", "create"}, sess' = [sess EXCEPT ![s].phase = phase]
        PROVE  \A o \in Sessions : Committed(o) /\ Answered(o)
    BY <1>2, <2>2 DEF Committed, Answered, HasInventory, Session
  <2>3. ASSUME NEW reply \in {"config", "error"}, End(s, reply),
               reply = "config" => HasInventory(s) /\ Known(sess[s].inv)
        PROVE  \A o \in Sessions : Committed(o) /\ Answered(o)
    BY <1>2, <2>3, EndTyped DEF Committed, Answered, HasInventory
  <2>4. \/ \E phase \in {"get", "create"} : sess' = [sess EXCEPT ![s].phase = phase]
        \/ End(s, "error")
        \/ End(s, "config") /\ HasInventory(s) /\ Known(sess[s].inv)
    BY <1>4 DEF Serve, listMachineInventories, commitFails,
                writeMachineInventoryCloudConfig, handleGetFails, NetworkKnown,
                HasInventory, Known
  <2> QED
    BY <2>1, <2>2, <2>3, <2>4
<1>5. CASE ReadFails(s)
  <2>1. InventoriesKept
    BY <1>3, <1>5 DEF ReadFails
  <2> QED
    BY <1>2, <1>5, <2>1 DEF ReadFails, Committed, Answered, HasInventory, NoSession
<1> QED
  BY <1>1, <1>2, <1>4, <1>5, CreateCommits, UpdateCommits DEF ServerStep

----------------------------------------------------------------------------
(***************************************************************************)
(* How an inventory gets from a session to the config, and from the config *)
(* to the agent.                                                           *)
(***************************************************************************)
SessionsKeep ==
  \A s \in Sessions :
    HasInventory(s)' => sess'[s].phase = sess[s].phase /\ sess'[s].inv = sess[s].inv

Configures ==
  HasConfig' =>
    /\ proc'.mode = proc.mode
    /\ \/ HasConfig /\ proc'.inv = proc.inv
       \/ /\ proc.phase = "wait" /\ proc.sess \in Sessions
          /\ sess[proc.sess].phase = "config" /\ proc'.inv = sess[proc.sess].inv

Connects == host'.agent = host.agent \/ (HasConfig /\ host'.agent = proc.inv)

Handed ==
  InventoriesKept /\ SessionsKeep /\ Configures /\ Connects /\ UNCHANGED start

LEMMA UntiedKeeps ==
  ASSUME Shaped, sess' = sess \/ sess' = Untied(proc.sess)
  PROVE  SessionsKeep
BY UntiedTyped DEF Shaped, MachineShaped, MachineTypes, Process, SessionsKeep,
     HasInventory, SameButFresh, NoSession

LEMMA ProcessHands ==
  ASSUME Shaped,
         \/ \E mode \in {"update", "install", "network", "reset"} : Run(mode)
         \/ Dial \/ DialFails \/ Receive \/ LoseConnection \/ Save
         \/ InstallFails \/ ResetFails
  PROVE  Handed
<1>1. UNCHANGED <<invVars, confirmed, start>> /\ host'.agent = host.agent
  BY DEF Run, Dial, DialFails, Receive, LoseConnection, Save, InstallFails, ResetFails,
         Shaped, MachineShaped, MachineTypes, Host
<1>2. InventoriesKept
  BY <1>1, UntouchedKept
<1>3. CASE \E mode \in {"update", "install", "network", "reset"} : Run(mode)
  <2>1. sess' = sess /\ proc'.phase = "dial"
    BY <1>3 DEF Run, NoProcess
  <2> QED
    BY <1>1, <1>2, <2>1, UntiedKeeps DEF Handed, Configures, HasConfig, Connects
<1>4. CASE Dial
  <2>1. SessionsKeep
    <3>1. PICK s \in Sessions : sess' = [sess EXCEPT ![s] = Opened(start.token, proc.known)]
      BY <1>4 DEF Dial
    <3>2. Opened(start.token, proc.known).phase = "open"
      BY DEF Opened
    <3>3. \A o \in Sessions : sess'[o] = sess[o] \/ sess'[o].phase = "open"
      BY <3>1, <3>2 DEF Shaped, MachineShaped, MachineTypes
    <3> QED
      BY <3>3 DEF SessionsKeep, HasInventory
  <2>2. proc'.phase = "wait"
    BY <1>4 DEF Dial, Shaped, MachineShaped, MachineTypes, Process
  <2> QED
    BY <1>1, <1>2, <2>1, <2>2 DEF Handed, Configures, HasConfig, Connects
<1>5. CASE DialFails \/ LoseConnection \/ InstallFails \/ ResetFails
  <2>1. proc' = NoProcess /\ (sess' = sess \/ sess' = Untied(proc.sess))
    BY <1>5 DEF DialFails, LoseConnection, InstallFails, ResetFails
  <2> QED
    BY <1>1, <1>2, <2>1, UntiedKeeps
       DEF Handed, Configures, HasConfig, Connects, NoProcess
<1>6. CASE Receive
  <2>1. sess' = Untied(proc.sess) /\ proc.phase = "wait" /\ proc.sess \in Sessions
    BY <1>6 DEF Receive, Shaped, MachineShaped, MachineTypes, Process, ProcessShaped
  <2>2. sess[proc.sess].phase = "config" \/ proc' = NoProcess
    BY <1>6 DEF Receive
  <2>3. \/ proc'.phase = "idle"
        \/ proc'.mode = proc.mode /\ proc'.inv = sess[proc.sess].inv
    BY <1>6 DEF Receive, NoProcess, Shaped, MachineShaped, MachineTypes, Process
  <2>4. Configures
    BY <2>1, <2>2, <2>3 DEF Configures, HasConfig, NoProcess
  <2> QED
    BY <1>1, <1>2, <2>1, <2>4, UntiedKeeps DEF Handed, Connects
<1>7. CASE Save
  <2>1. sess' = sess /\ HasConfig
    BY <1>7 DEF Save, HasConfig
  <2>2. \/ proc' = NoProcess
        \/ proc'.mode = proc.mode /\ proc'.inv = proc.inv
    BY <1>7 DEF Save, Goto, Shaped, MachineShaped, MachineTypes, Process
  <2> QED
    BY <1>1, <1>2, <2>1, <2>2, UntiedKeeps
       DEF Handed, Configures, HasConfig, Connects, NoProcess
<1> QED
  BY <1>3, <1>4, <1>5, <1>6, <1>7

LEMMA InstallHands ==
  ASSUME Shaped, Install \/ Reset \/ cleanupResetPlan
  PROVE  Handed
<1>1. UNCHANGED <<invVars, confirmed, start>> /\ sess' = sess /\ HasConfig
  BY DEF Install, Reset, cleanupResetPlan, HasConfig
<1>2. InventoriesKept /\ SessionsKeep
  BY <1>1, UntouchedKept, UntiedKeeps
<1>3. \/ proc' = NoProcess
      \/ proc'.mode = proc.mode /\ proc'.inv = proc.inv
  BY DEF Install, Reset, cleanupResetPlan, Goto, Shaped, MachineShaped, MachineTypes,
         Process
<1>4. Connects
  BY <1>1 DEF Install, InstalledHost, Reset, cleanupResetPlan, Boot, Connects,
              Shaped, MachineShaped, MachineTypes, Host
<1> QED
  BY <1>1, <1>2, <1>3, <1>4 DEF Handed, Configures, HasConfig, NoProcess

LEMMA PlanHands ==
  ASSUME Shaped, \/ ResetNetworkConfig \/ ApplyPlan \/ ConfirmPlan
                 \/ RebootToRecovery \/ PowerLoss
  PROVE  Handed
<1>1. UNCHANGED <<invVars, start>> /\ confirmed \subseteq confirmed'
        /\ (sess' = sess \/ sess' = Untied(proc.sess))
        /\ host'.agent = host.agent
  <2>1. CASE ResetNetworkConfig
    BY <2>1 DEF ResetNetworkConfig, NetworkAlreadyReset, RemoveApplicator,
         DeleteConnections, ReloadConnections, RestartNetworkManager, WaitOnline,
         RestartAgent, NetworkResetFails, NetworkStep, InstructionsDone,
         Shaped, MachineShaped, MachineTypes, Host
  <2>2. CASE ApplyPlan \/ ConfirmPlan \/ RebootToRecovery
    BY <2>2 DEF ApplyPlan, ConfirmPlan, RebootToRecovery, Boot, Shaped, MachineShaped,
                MachineTypes, Host
  <2>3. CASE PowerLoss
    <3>1. PICK h \in Host, env \in {"live", "active", "recovery"} :
            host' = Boot(h, env) /\ h.agent = host.agent
      BY <2>3, PowerLossBoots
    <3> QED
      BY <2>3, <3>1, BootTyped DEF PowerLoss
  <2> QED
    BY <2>1, <2>2, <2>3
<1>2. \/ proc' = NoProcess
      \/ /\ proc'.mode = proc.mode /\ proc'.inv = proc.inv
         /\ HasConfig' => HasConfig
  <2>1. CASE ResetNetworkConfig
    BY <2>1 DEF ResetNetworkConfig, NetworkAlreadyReset, RemoveApplicator,
         DeleteConnections, ReloadConnections, RestartNetworkManager, WaitOnline,
         RestartAgent, NetworkResetFails, NetworkStep, NetworkPhase, Goto, HasConfig,
         Shaped, MachineShaped, MachineTypes, Process
  <2>2. CASE ApplyPlan \/ ConfirmPlan \/ RebootToRecovery \/ PowerLoss
    BY <2>2 DEF ApplyPlan, ConfirmPlan, RebootToRecovery, PowerLoss, HasConfig
  <2> QED
    BY <2>1, <2>2
<1> QED
  BY <1>1, <1>2, UntouchedKept, UntiedKeeps
     DEF Handed, Configures, HasConfig, Connects, NoProcess

MachineStep ==
  \/ \E mode \in {"update", "install", "network", "reset"} : Run(mode)
  \/ Dial \/ DialFails \/ Receive \/ LoseConnection \/ Save
  \/ Install \/ InstallFails \/ Reset \/ ResetFails \/ cleanupResetPlan
  \/ ResetNetworkConfig
  \/ ApplyPlan \/ ConfirmPlan \/ RebootToRecovery \/ PowerLoss

LEMMA MachineHands ==
  ASSUME Shaped, MachineStep
  PROVE  Handed
BY ProcessHands, InstallHands, PlanHands DEF MachineStep

LEMMA ServerStart == ServerSteps => UNCHANGED <<hostVars, start>>
BY DEF ServerSteps, ServerStep, Serve, ReadFails, listMachineInventories,
     createMachineInventory, updateMachineInventory, commitFails, writeMachineInventoryCloudConfig,
     handleGetFails

LEMMA RegistrationStart == RegistrationStep => UNCHANGED <<invVars, sess, hostVars, start>>
BY DEF RegistrationStep, ReconcileRegistration, RegistrationGone, RegistrationDeleted,
     TokenRefused, ServerURLMissing, createRBACObjectsFails, RegistrationReady,
     SeeRegistration, ServiceAccountEvent, EditToken, DeleteRegistration, LoseRbac,
     SetServerURL

\* Whatever is named is an inventory.
LEMMA NamesInventories ==
  ASSUME Shaped
  PROVE  /\ \A s \in Sessions : HasInventory(s) => sess[s].inv \in Inventories
         /\ HasConfig => proc.inv \in Inventories
         /\ host.agent # 0 => host.agent \in Inventories
BY DEF Shaped, MachineShaped, MachineTypes, SessionsShaped, ProcessShaped, Session,
     Process, Host

LEMMA NextAgent ==
  ASSUME Shaped, AgentInv, [Next]_vars
  PROVE  AgentInv'
<1>1. CASE UNCHANGED vars \/ RegistrationStep
  BY <1>1, RegistrationStart
     DEF vars, invVars, hostVars, AgentInv, There, Known, HasConfig
<1>2. CASE MachineStep
  <2>1. Handed
    BY <1>2, MachineHands
  <2> SUFFICES ASSUME start.resettable PROVE AgentInv'
    BY <2>1 DEF AgentInv, Handed
  <2>2. \A i \in Inventories : There(i) => ThereNext(i)
    BY <2>1 DEF Handed, InventoriesKept
  <2>3. \A i \in Inventories : KnownNext(i) => ThereNext(i)
    BY <2>1, <2>2 DEF Handed, InventoriesKept, AgentInv
  <2>4. \A s \in Sessions : sess'[s].phase = "config" => ThereNext(sess'[s].inv)
    BY <2>1, <2>2, NamesInventories DEF Handed, SessionsKeep, HasInventory, AgentInv
  <2>5. HasConfig' => ThereNext(proc'.inv)
    BY <2>1, <2>2, NamesInventories DEF Handed, Configures, HasInventory, AgentInv
  <2>6. host'.agent # 0 => ThereNext(host'.agent)
    BY <2>1, <2>2, NamesInventories DEF Handed, Connects, AgentInv
  <2> QED
    BY <2>4, <2>5, <2>6, <2>3 DEF AgentInv, There, ThereNext, Known, KnownNext, HasConfig
<1>3. CASE ServerSteps
  <2>1. InventoriesKept /\ (\A s \in Sessions : Committed(s) /\ Answered(s))
          /\ UNCHANGED <<hostVars, start>>
    BY <1>3, ServerCommits, ServerStart
  <2> SUFFICES ASSUME start.resettable PROVE AgentInv'
    BY <2>1 DEF AgentInv
  <2>2. \A i \in Inventories : There(i) => ThereNext(i)
    BY <2>1 DEF InventoriesKept
  <2>3. \A i \in Inventories : KnownNext(i) => ThereNext(i)
    BY <2>1, <2>2 DEF InventoriesKept, AgentInv
  <2>4. \A s \in Sessions : sess'[s].phase = "config" => ThereNext(sess'[s].inv)
    BY <2>1, <2>2, NamesInventories DEF Answered, HasInventory, AgentInv
  <2>5. /\ HasConfig' => ThereNext(proc'.inv)
        /\ host'.agent # 0 => ThereNext(host'.agent)
    BY <2>1, <2>2, NamesInventories DEF hostVars, AgentInv, HasConfig
  <2> QED
    BY <2>4, <2>5, <2>3 DEF AgentInv, There, ThereNext, Known, KnownNext, HasConfig
<1>4. ASSUME NEW i \in Inventories,
             \/ ReleaseInventory(i) \/ DeleteInventory(i)
             \/ NetworkConfigured(i) \/ SeeInventory(i)
      PROVE  AgentInv'
  <2>1. InventoriesKept /\ UNCHANGED <<hostVars, start>>
          /\ \A s \in Sessions : SameButFresh(sess'[s], sess[s])
    BY <1>4, InventoryTyped, InventoryKept
  <2> SUFFICES ASSUME start.resettable PROVE AgentInv'
    BY <2>1 DEF AgentInv
  <2>2. \A j \in Inventories : There(j) => ThereNext(j)
    BY <2>1 DEF InventoriesKept
  <2>3. \A j \in Inventories : KnownNext(j) => ThereNext(j)
    BY <2>1, <2>2 DEF InventoriesKept, AgentInv
  <2>4. \A s \in Sessions : sess'[s].phase = "config" => ThereNext(sess'[s].inv)
    BY <2>1, <2>2, NamesInventories DEF SameButFresh, HasInventory, AgentInv
  <2>5. /\ HasConfig' => ThereNext(proc'.inv)
        /\ host'.agent # 0 => ThereNext(host'.agent)
    BY <2>1, <2>2, NamesInventories DEF hostVars, AgentInv, HasConfig
  <2> QED
    BY <2>4, <2>5, <2>3 DEF AgentInv, There, ThereNext, Known, KnownNext, HasConfig
<1> QED
  BY <1>1, <1>2, <1>3, <1>4 DEF Next, MachineStep

----------------------------------------------------------------------------
(***************************************************************************)
(* ReleaseInv, step by step.                                               *)
(***************************************************************************)
\* In recovery every confirmed inventory is gone.
LEMMA RecoveryReleased ==
  ASSUME Shaped, ReleaseInv, Prompt, host.plan # "done"
  PROVE  \A i \in confirmed : Gone(i)
BY DEF ReleaseInv

\* The gone stay so, if nothing more is confirmed.
LEMMA StaysGone ==
  ASSUME Shaped, InventoriesKept, UNCHANGED confirmed,
         \A i \in confirmed : Gone(i)
  PROVE  \A i \in confirmed' : Gone(i)'
BY DEF InventoriesKept, Shaped, MachineShaped, MachineTypes

\* Steps of the process that leave the plan and what is confirmed alone.
LEMMA ProcessReleases ==
  ASSUME Shaped, ReleaseInv, Handed, UNCHANGED <<confirmed, start>>,
         host'.agent = host.agent, host'.plan = host.plan,
         host'.resetFile = host.resetFile,
         proc'.mode = "reset" /\ proc'.phase = "wait" => ~HasInventory(proc.sess)',
         proc'.phase # "cleanup"
  PROVE  ReleaseInv'
<1> SUFFICES ASSUME Prompt PROVE ReleaseInv'
  BY DEF ReleaseInv, Prompt
<1>1. \A i \in confirmed' : Gone(i)' \/ (i = host'.agent /\ host'.plan = "done")
  BY DEF ReleaseInv, Handed, InventoriesKept, Shaped, MachineShaped, MachineTypes
<1>2. host'.agent \in confirmed' => host'.resetFile
  BY DEF ReleaseInv
<1>3. proc'.mode = "reset" /\ HasConfig' => proc'.inv \notin confirmed'
  BY DEF ReleaseInv, Handed, Configures, HasInventory
<1> QED
  BY <1>1, <1>2, <1>3 DEF ReleaseInv, HasConfig, HasInventory, Gone

LEMMA RunReleases ==
  ASSUME Shaped, ReleaseInv,
         \/ \E mode \in {"update", "install", "network", "reset"} : Run(mode)
         \/ Dial \/ DialFails \/ Receive \/ LoseConnection \/ Save
         \/ InstallFails \/ ResetFails
  PROVE  ReleaseInv'
<1>1. Handed
  BY ProcessHands
<1>2. UNCHANGED <<confirmed, start>> /\ host'.agent = host.agent
        /\ host'.plan = host.plan /\ host'.resetFile = host.resetFile
  BY DEF Run, Dial, DialFails, Receive, LoseConnection, Save, InstallFails, ResetFails,
         Shaped, MachineShaped, MachineTypes, Host
<1>3. /\ proc'.phase = "wait" => ~HasInventory(proc.sess)'
      /\ proc'.phase # "cleanup"
  <2>1. CASE Dial
    <3>1. PICK s \in Sessions :
            /\ sess' = [sess EXCEPT ![s] = Opened(start.token, proc.known)]
            /\ proc' = [proc EXCEPT !.phase = "wait", !.sess = s]
      BY <2>1 DEF Dial
    <3>2. proc'.phase = "wait" /\ proc'.sess = s
            /\ sess'[s] = Opened(start.token, proc.known)
      BY <3>1 DEF Shaped, MachineShaped, MachineTypes, Process
    <3> QED
      BY <3>2 DEF Opened, HasInventory
  <2>2. CASE ~Dial
    <3>1. ASSUME NEW mode, Run(mode) PROVE proc'.phase = "dial"
      BY <3>1 DEF Run, NoProcess
    <3>2. CASE proc' = NoProcess
      BY <3>2 DEF NoProcess
    <3>3. CASE Receive /\ proc' # NoProcess
      <4>1. proc' = [proc EXCEPT !.phase = "save", !.inv = sess[proc.sess].inv, !.sess = 0]
        BY <3>3 DEF Receive
      <4> QED
        BY <4>1 DEF Shaped, MachineShaped, MachineTypes, Process
    <3>4. CASE Save /\ proc' # NoProcess
      BY <3>4 DEF Save, Goto, Shaped, MachineShaped, MachineTypes, Process
    <3> QED
      BY <2>2, <3>1, <3>2, <3>3, <3>4 DEF DialFails, LoseConnection, InstallFails, ResetFails
  <2> QED
    BY <2>1, <2>2
<1> QED
  BY <1>1, <1>2, <1>3, ProcessReleases

LEMMA InstallReleases ==
  ASSUME Shaped, ReleaseInv, Install
  PROVE  ReleaseInv'
<1>1. confirmed' = {} /\ proc' = NoProcess /\ UNCHANGED start
  BY DEF Install, Shaped, MachineShaped, PlanShaped
<1> QED
  BY <1>1 DEF ReleaseInv, NoProcess, Prompt

\* The agent of a machine that was reset has an inventory of its own.
LEMMA ResetReleases ==
  ASSUME Shaped, ReleaseInv, Reset \/ cleanupResetPlan
  PROVE  ReleaseInv'
<1>1. UNCHANGED <<confirmed, start>> /\ proc.mode = "reset" /\ HasConfig
  BY DEF Reset, cleanupResetPlan, Shaped, MachineShaped, ProcessShaped, HasConfig
<1> SUFFICES ASSUME Prompt PROVE ReleaseInv'
  BY <1>1 DEF ReleaseInv, Prompt
<1>2. host.plan = "none"
  BY <1>1 DEF Shaped, MachineShaped, PlanShaped
<1>3. proc.inv \notin confirmed
  BY <1>1 DEF ReleaseInv
<1>4. \A i \in confirmed' : Gone(i)'
  BY <1>1, <1>2, InstallHands, RecoveryReleased, StaysGone DEF Handed
<1>5. CASE Reset
  <2>1. /\ host'.agent = proc.inv /\ proc'.inv = proc.inv
        /\ proc'.phase = "cleanup"
    BY <1>5 DEF Reset, Goto, Shaped, MachineShaped, MachineTypes, Host, Process
  <2> QED
    BY <1>1, <1>3, <1>4, <2>1 DEF ReleaseInv, Gone
<1>6. CASE cleanupResetPlan
  <2>1. host'.agent = host.agent /\ proc' = NoProcess
    BY <1>6 DEF cleanupResetPlan, Boot, Shaped, MachineShaped, MachineTypes, Host
  <2>2. host.agent = proc.inv
    BY <1>1, <1>6 DEF ReleaseInv, cleanupResetPlan
  <2> QED
    BY <1>1, <1>3, <1>4, <2>1, <2>2 DEF ReleaseInv, Gone, NoProcess
<1> QED
  BY <1>5, <1>6

LEMMA NetworkReleases ==
  ASSUME Shaped, ReleaseInv, ResetNetworkConfig
  PROVE  ReleaseInv'
<1>1. /\ UNCHANGED <<confirmed, start>> /\ proc.mode = "network"
      /\ host'.agent = host.agent /\ host'.resetFile = host.resetFile
  BY DEF ResetNetworkConfig, NetworkAlreadyReset, RemoveApplicator, DeleteConnections,
       ReloadConnections, RestartNetworkManager, WaitOnline, RestartAgent,
       NetworkResetFails, NetworkStep, NetworkPhase, InstructionsDone,
       Shaped, MachineShaped, MachineTypes, Host
<1>2. proc'.mode \in {"network", "none"}
  BY <1>1 DEF ResetNetworkConfig, NetworkAlreadyReset, RemoveApplicator,
       DeleteConnections, ReloadConnections, RestartNetworkManager, WaitOnline,
       RestartAgent, NetworkResetFails, NetworkStep, Goto, NoProcess,
       Shaped, MachineShaped, MachineTypes, Process
<1> SUFFICES ASSUME Prompt PROVE ReleaseInv'
  BY <1>1 DEF ReleaseInv, Prompt
<1>3. host.plan = "running"
  BY <1>1 DEF Shaped, MachineShaped, PlanShaped
<1>4. \A i \in confirmed' : Gone(i)'
  BY <1>1, <1>3, PlanHands, RecoveryReleased, StaysGone DEF Handed
<1> QED
  BY <1>1, <1>2, <1>4 DEF ReleaseInv, Gone

LEMMA PlanReleases ==
  ASSUME Shaped, ReleaseInv, ApplyPlan \/ ConfirmPlan
  PROVE  ReleaseInv'
<1>1. UNCHANGED <<inv, start>> /\ host.booted = "active" /\ proc' = proc
        /\ proc.mode # "reset" /\ host'.agent = host.agent
  BY DEF ApplyPlan, ConfirmPlan, PlanPending, invVars, Shaped, MachineShaped,
         MachineTypes, PlanShaped, Host
<1> SUFFICES ASSUME Prompt PROVE ReleaseInv'
  BY <1>1 DEF ReleaseInv, Prompt
<1>2. CASE ApplyPlan
  <2>1. host.plan = "none" /\ host'.resetFile /\ confirmed' = confirmed
    BY <1>2 DEF ApplyPlan, Shaped, MachineShaped, MachineTypes, Host
  <2> QED
    BY <1>1, <2>1, RecoveryReleased DEF ReleaseInv, Gone
<1>3. CASE ConfirmPlan
  <2>1. /\ host.plan = "done" /\ host.resetFile /\ host' = host
        /\ confirmed' = confirmed \cup {host.agent}
    BY <1>3 DEF ConfirmPlan, Shaped, MachineShaped, PlanShaped
  <2> QED
    BY <1>1, <2>1 DEF ReleaseInv, Gone
<1> QED
  BY <1>2, <1>3

LEMMA BootReleases ==
  ASSUME Shaped, ReleaseInv, RebootToRecovery \/ PowerLoss
  PROVE  ReleaseInv'
<1>1. UNCHANGED <<inv, confirmed, start>> /\ proc' = NoProcess
  BY DEF RebootToRecovery, PowerLoss, invVars
<1>2. host'.agent = host.agent /\ host'.resetFile = host.resetFile
  <2>1. PICK h \in Host, env \in {"live", "active", "recovery"} :
          /\ host' = Boot(h, env)
          /\ h.agent = host.agent /\ h.resetFile = host.resetFile
    BY PowerLossBoots DEF RebootToRecovery, Shaped, MachineShaped, MachineTypes
  <2> QED
    BY <2>1, BootTyped
<1> SUFFICES ASSUME Prompt PROVE ReleaseInv'
  BY <1>1 DEF ReleaseInv, Prompt
<1>3. host.plan = "done" /\ host.agent \in confirmed => Gone(host.agent)
  BY DEF RebootToRecovery, PowerLoss, Released, Prompt, Gone
<1>4. \A i \in confirmed : Gone(i)
  BY <1>3 DEF ReleaseInv
<1> QED
  BY <1>1, <1>2, <1>4 DEF ReleaseInv, Gone, NoProcess

\* A session that commits for a reset commits an inventory that is there.
LEMMA ServerReleases ==
  ASSUME Shaped, ReleaseInv, ServerSteps
  PROVE  ReleaseInv'
<1>1. InventoriesKept /\ (\A s \in Sessions : Committed(s) /\ Answered(s))
          /\ UNCHANGED <<hostVars, start>>
  BY ServerCommits, ServerStart
<1> SUFFICES ASSUME Prompt PROVE ReleaseInv'
  BY <1>1 DEF ReleaseInv, Prompt
<1>2. \A i \in confirmed' : Gone(i)' \/ (i = host'.agent /\ host'.plan = "done")
  BY <1>1 DEF ReleaseInv, InventoriesKept, hostVars, Shaped, MachineShaped, MachineTypes
<1>3. ASSUME proc.mode = "reset", proc.phase = "wait", HasInventory(proc.sess)'
      PROVE  sess'[proc.sess].inv \notin confirmed
  <2>1. proc.sess \in Sessions
    BY <1>3 DEF Shaped, MachineShaped, MachineTypes, Process, ProcessShaped
  <2>2. host.plan # "done"
    BY <1>3 DEF Shaped, MachineShaped, PlanShaped
  <2>3. proc' = proc
    BY <1>1 DEF hostVars
  <2>4. Committed(proc.sess) /\ HasInventory(proc.sess)'
    BY <1>1, <1>3, <2>1
  <2> QED
    BY <1>3, <2>2, <2>3, <2>4, RecoveryReleased DEF Committed, ReleaseInv, HasInventory
<1> QED
  BY <1>1, <1>2, <1>3 DEF ReleaseInv, hostVars, HasInventory, HasConfig, Gone

LEMMA InventoryReleases ==
  ASSUME Shaped, ReleaseInv, NEW i \in Inventories,
         \/ ReleaseInventory(i) \/ DeleteInventory(i)
         \/ NetworkConfigured(i) \/ SeeInventory(i)
  PROVE  ReleaseInv'
<1>1. InventoriesKept /\ UNCHANGED <<hostVars, start>>
        /\ \A s \in Sessions : SameButFresh(sess'[s], sess[s])
  BY InventoryTyped, InventoryKept
<1>2. Prompt => \A j \in confirmed' : Gone(j)' \/ (j = host'.agent /\ host'.plan = "done")
  BY <1>1 DEF ReleaseInv, InventoriesKept, hostVars, Shaped, MachineShaped, MachineTypes
<1>3. proc.phase = "wait" => proc.sess \in Sessions
  BY DEF Shaped, MachineShaped, MachineTypes, Process, ProcessShaped
<1> QED
  BY <1>1, <1>2, <1>3
     DEF ReleaseInv, hostVars, HasInventory, HasConfig, Gone, Prompt, SameButFresh

LEMMA NextRelease ==
  ASSUME Shaped, ReleaseInv, [Next]_vars
  PROVE  ReleaseInv'
<1>1. CASE UNCHANGED vars \/ RegistrationStep
  BY <1>1, RegistrationStart
     DEF vars, invVars, hostVars, ReleaseInv, Gone, HasInventory, HasConfig, Prompt
<1> QED
  BY <1>1, RunReleases, InstallReleases, ResetReleases, NetworkReleases, PlanReleases,
     BootReleases, ServerReleases, InventoryReleases DEF Next

----------------------------------------------------------------------------
(***************************************************************************)
(* NetworkInv, step by step.                                               *)
(***************************************************************************)
\* Steps outside of ResetNetworkConfig that leave the host's network, its
\* plan and its agent alone.
LEMMA ProcessNetwork ==
  ASSUME Shaped, NetworkInv,
         \/ \E mode \in {"update", "install", "network", "reset"} : Run(mode)
         \/ Dial \/ DialFails \/ Receive \/ LoseConnection \/ Save
         \/ InstallFails \/ ResetFails
  PROVE  NetworkInv'
<1>1. /\ UNCHANGED <<confirmed, broke, start>>
      /\ host'.agent = host.agent /\ host'.plan = host.plan
      /\ host'.nm = host.nm /\ host'.booted = host.booted
  BY DEF Run, Dial, DialFails, Receive, LoseConnection, Save, InstallFails, ResetFails,
         Shaped, MachineShaped, MachineTypes, Host
<1> DEFINE Calm == {"idle", "dial", "wait", "save", "run"}
<1>2. proc.phase \in Calm
  <2>1. ASSUME NEW mode, Run(mode) PROVE proc.phase = "idle"
    BY <2>1 DEF Run, NoProcess
  <2> QED
    BY <2>1 DEF Dial, DialFails, Receive, LoseConnection, Save, InstallFails, ResetFails
<1>3. proc'.phase \in Calm
  <2>1. ASSUME NEW mode, Run(mode) PROVE proc'.phase = "dial"
    BY <2>1 DEF Run, NoProcess
  <2>2. CASE proc' = NoProcess
    BY <2>2 DEF NoProcess
  <2>3. CASE Dial
    BY <2>3 DEF Dial, Shaped, MachineShaped, MachineTypes, Process
  <2>4. CASE Receive /\ proc' # NoProcess
    <3>1. proc' = [proc EXCEPT !.phase = "save", !.inv = sess[proc.sess].inv, !.sess = 0]
      BY <2>4 DEF Receive
    <3> QED
      BY <3>1 DEF Shaped, MachineShaped, MachineTypes, Process
  <2>5. CASE Save /\ proc' # NoProcess
    BY <2>5 DEF Save, Goto, Shaped, MachineShaped, MachineTypes, Process
  <2> QED
    BY <2>1, <2>2, <2>3, <2>4, <2>5 DEF DialFails, LoseConnection, InstallFails, ResetFails
<1> QED
  BY <1>1, <1>2, <1>3 DEF NetworkInv, Phases, NetworkPhases, Prompt

LEMMA CommandNetwork ==
  ASSUME Shaped, NetworkInv,
         \/ RemoveApplicator \/ DeleteConnections \/ ReloadConnections
         \/ RestartNetworkManager \/ WaitOnline
  PROVE  NetworkInv'
<1>1. PICK nm, phase : NetworkStep(nm, phase)
  BY DEF RemoveApplicator, DeleteConnections, ReloadConnections,
         RestartNetworkManager, WaitOnline
<1>2. host.nm \in Network
  BY DEF Shaped, MachineShaped, MachineTypes, Host
<1>3. proc.mode = "network"
  BY DEF RemoveApplicator, DeleteConnections, ReloadConnections,
         RestartNetworkManager, WaitOnline, NetworkPhase
<1>4. host.plan = "running" /\ start.network /\ host.booted = "active"
        /\ host.agent \notin confirmed
  BY <1>3 DEF Shaped, MachineShaped, PlanShaped
<1>5. UNCHANGED <<confirmed, broke, start>> /\ host'.plan = host.plan
        /\ host'.booted = host.booted /\ host'.agent = host.agent
  BY <1>1 DEF NetworkStep, Shaped, MachineShaped, MachineTypes, Host
<1> SUFFICES /\ Phases(host'.nm, proc'.phase)
             /\ ~broke => (host'.nm.inUse =>
                              host'.nm.files \/ proc'.phase \in {"reload", "restart"})
  BY <1>4, <1>5 DEF NetworkInv, Prompt
<1>6. ASSUME NEW m, NEW p, NetworkStep(m, p)
      PROVE  host'.nm = m /\ proc'.phase = p
  BY <1>6 DEF NetworkStep, Goto, Shaped, MachineShaped, MachineTypes, Host, Process
<1>7. CASE RemoveApplicator
  <2>1. host'.nm = [host.nm EXCEPT !.app = FALSE] /\ proc'.phase = "files"
    BY <1>6, <1>7 DEF RemoveApplicator
  <2> QED
    BY <1>2, <1>7, <2>1 DEF RemoveApplicator, NetworkPhase, NetworkInv, Phases, Network
<1>8. CASE DeleteConnections
  <2>1. host'.nm = [host.nm EXCEPT !.files = FALSE] /\ proc'.phase = "reload"
    BY <1>6, <1>8 DEF DeleteConnections
  <2> QED
    BY <1>2, <1>8, <2>1 DEF DeleteConnections, NetworkPhase, NetworkInv, Phases,
                            Network, NetworkPhases
<1>9. CASE ReloadConnections
  <2>1. host'.nm = [host.nm EXCEPT !.loaded = host.nm.files] /\ proc'.phase = "restart"
    BY <1>6, <1>9 DEF ReloadConnections
  <2> QED
    BY <1>2, <1>9, <2>1 DEF ReloadConnections, NetworkPhase, NetworkInv, Phases,
                            Network, NetworkPhases
<1>10. CASE RestartNetworkManager
  <2>1. host'.nm = [host.nm EXCEPT !.inUse = host.nm.loaded] /\ proc'.phase = "online"
    BY <1>6, <1>10 DEF RestartNetworkManager
  <2> QED
    BY <1>2, <1>10, <2>1 DEF RestartNetworkManager, NetworkPhase, NetworkInv, Phases,
                             Network, NetworkPhases
<1>11. CASE WaitOnline
  <2>1. host'.nm = host.nm /\ proc'.phase = "agent"
    BY <1>6, <1>11 DEF WaitOnline
  <2> QED
    BY <1>11, <2>1 DEF WaitOnline, NetworkPhase, NetworkInv, Phases, NetworkPhases
<1> QED
  BY <1>7, <1>8, <1>9, <1>10, <1>11

LEMMA CommandsEndNetwork ==
  ASSUME Shaped, NetworkInv, NetworkAlreadyReset \/ RestartAgent \/ NetworkResetFails
  PROVE  NetworkInv'
<1>1. /\ proc.mode = "network" /\ proc' = NoProcess /\ UNCHANGED <<confirmed, start>>
      /\ proc.phase # "cleanup"
  BY DEF NetworkAlreadyReset, RestartAgent, NetworkResetFails, NetworkPhase
<1>2. host.plan = "running" /\ start.network /\ host.booted = "active"
        /\ host.agent \notin confirmed
  BY <1>1 DEF Shaped, MachineShaped, PlanShaped
<1>3. /\ host'.nm = host.nm /\ host'.booted = host.booted /\ host'.agent = host.agent
  BY DEF NetworkAlreadyReset, RestartAgent, NetworkResetFails, InstructionsDone,
         Shaped, MachineShaped, MachineTypes, Host
<1>4. proc'.phase = "idle" /\ Phases(host'.nm, proc'.phase)
  BY <1>1, <1>3 DEF NoProcess, NetworkInv, Phases, NetworkPhases
<1>5. CASE NetworkResetFails
  BY <1>1, <1>2, <1>4, <1>5 DEF NetworkResetFails, NetworkInv
<1>6. CASE NetworkAlreadyReset \/ RestartAgent
  <2>1. ~host.nm.files /\ ~host.nm.app /\ broke' = broke
    BY <1>6 DEF NetworkAlreadyReset, RestartAgent, NetworkPhase, NetworkInv, Phases,
                NetworkPhases
  <2>2. ~broke => Off(host.nm)
    BY <1>6, <2>1 DEF NetworkAlreadyReset, RestartAgent, NetworkPhase, NetworkInv, Off
  <2> QED
    BY <1>1, <1>2, <1>3, <1>4, <2>1, <2>2 DEF NetworkInv, Off
<1> QED
  BY <1>5, <1>6

LEMMA PlanNetwork ==
  ASSUME Shaped, NetworkInv, ApplyPlan \/ ConfirmPlan
  PROVE  NetworkInv'
<1>1. /\ UNCHANGED <<proc, broke, start>> /\ host'.nm = host.nm
      /\ host'.booted = host.booted /\ host.booted = "active"
      /\ host'.agent = host.agent
  BY DEF ApplyPlan, ConfirmPlan, PlanPending, Shaped, MachineShaped, MachineTypes,
         PlanShaped, Host
<1>2. CASE ApplyPlan
  <2>1. host.agent \notin confirmed /\ confirmed' = confirmed
          /\ (host'.plan = "done" => ~start.network)
    BY <1>2 DEF ApplyPlan, PlanPending, Shaped, MachineShaped, MachineTypes, Host
  <2>2. ~start.network => Off(host.nm)
    BY DEF NetworkInv, Off, NoNetwork
  <2> QED
    BY <1>1, <2>1, <2>2 DEF NetworkInv, Prompt
<1>3. CASE ConfirmPlan
  BY <1>1, <1>3 DEF ConfirmPlan, NetworkInv, Prompt
<1> QED
  BY <1>2, <1>3

LEMMA NothingConfigured ==
  \A nm \in Network :
    ~nm.app /\ ~nm.files /\ ~nm.loaded /\ ~nm.inUse <=> nm = NoNetwork
BY DEF Network, NoNetwork

\* After a boot the addresses are used if they are configured.
LEMMA BootedNetwork ==
  ASSUME NEW h \in Host, NEW env \in {"live", "active", "recovery"}
  PROVE  LET b == Boot(h, env).nm IN
         /\ h.nm = NoNetwork => b = NoNetwork
         /\ b.app => b.files
         /\ b.inUse => b.files
         /\ Off(h.nm) => Off(b)
<1> DEFINE b == Boot(h, env).nm
<1>1. /\ h.nm \in Network
      /\ b = [h.nm EXCEPT !.files = h.nm.files \/ h.nm.app,
                          !.loaded = h.nm.files \/ h.nm.app,
                          !.inUse = h.nm.files \/ h.nm.app]
  BY BootTyped DEF Host
<1>2. /\ b \in Network
      /\ b.app = h.nm.app /\ b.files = (h.nm.files \/ h.nm.app)
      /\ b.inUse = (h.nm.files \/ h.nm.app) /\ b.loaded = (h.nm.files \/ h.nm.app)
  BY <1>1 DEF Network
<1> HIDE DEF b
<1>3. h.nm = NoNetwork => b = NoNetwork
  BY <1>1, <1>2, NothingConfigured
<1> QED
  BY <1>2, <1>3 DEF Off, b

LEMMA BootNetwork ==
  ASSUME Shaped, NetworkInv, RebootToRecovery \/ PowerLoss
  PROVE  NetworkInv'
<1>1. PICK h \in Host, env \in {"live", "active", "recovery"} :
        /\ host' = Boot(h, env)
        /\ h.agent = host.agent /\ h.nm = host.nm
        /\ env = "recovery" => host.plan = "done"
  BY PowerLossBoots DEF RebootToRecovery, Shaped, MachineShaped, MachineTypes
<1>2. UNCHANGED <<confirmed, broke, start>> /\ proc'.phase = "idle"
  BY DEF RebootToRecovery, PowerLoss, NoProcess
<1>3. /\ host'.booted = env /\ host'.plan = "none" /\ host'.agent = host.agent
  BY <1>1, BootTyped
<1>4. /\ host.nm = NoNetwork => host'.nm = NoNetwork
      /\ host'.nm.app => host'.nm.files
      /\ host'.nm.inUse => host'.nm.files
      /\ Off(host.nm) => Off(host'.nm)
  BY <1>1, BootedNetwork
<1>5. ~broke /\ env = "recovery" => ~host'.nm.inUse
  BY <1>1, <1>4 DEF NetworkInv, Off
<1>6. ~broke /\ Prompt /\ host.agent \in confirmed => Off(host'.nm)
  BY <1>4 DEF NetworkInv
<1> QED
  BY <1>2, <1>3, <1>4, <1>5, <1>6 DEF NetworkInv, Phases, NetworkPhases, Prompt

LEMMA InstallNetwork ==
  ASSUME Shaped, NetworkInv, Install
  PROVE  NetworkInv'
<1> DEFINE h == [host EXCEPT !.agent = proc.inv, !.nm.app = start.network]
<1>1. /\ proc'.phase = "idle" /\ confirmed' = {} /\ UNCHANGED <<broke, start>>
      /\ host.plan = "none"
  BY DEF Install, NoProcess, Shaped, MachineShaped, MachineTypes, PlanShaped, Host
<1>2. proc.phase = "run"
  BY DEF Install
<1>3. CASE host' = Boot(h, "active")
  <2>1. start.network \in BOOLEAN
    BY RegistrationStartsAssumption DEF Shaped, IInv
  <2>2. h \in Host /\ (~start.network => h.nm = NoNetwork)
    <3>1. host.nm \in Network /\ (~start.network => host.nm = NoNetwork)
      BY DEF Shaped, MachineShaped, MachineTypes, Host, NetworkInv
    <3>2. /\ h \in Host /\ h.nm \in Network /\ h.nm.app = start.network
          /\ h.nm.files = host.nm.files /\ h.nm.loaded = host.nm.loaded
          /\ h.nm.inUse = host.nm.inUse
      BY <2>1, <3>1 DEF Shaped, MachineShaped, MachineTypes, Host, Process, Network
    <3> HIDE DEF h
    <3> QED
      BY <3>1, <3>2, NothingConfigured
  <2> HIDE DEF h
  <2>3. /\ h.nm = NoNetwork => host'.nm = NoNetwork
        /\ host'.nm.app => host'.nm.files
        /\ host'.nm.inUse => host'.nm.files
        /\ host'.plan = "none" /\ host'.booted = "active"
    BY <1>3, <2>2, BootTyped, BootedNetwork
  <2> QED
    BY <1>1, <2>2, <2>3 DEF NetworkInv, Phases, NetworkPhases
<1>4. CASE host' = [host EXCEPT !.agent = proc.inv]
  <2>1. host'.nm = host.nm /\ host'.plan = "none" /\ host'.booted = host.booted
    BY <1>1, <1>4 DEF Shaped, MachineShaped, MachineTypes, Host
  <2> QED
    BY <1>1, <1>2, <2>1 DEF NetworkInv, Phases, NetworkPhases
<1> QED
  BY <1>3, <1>4 DEF Install, InstalledHost

\* The reset brings the network config back, for an inventory that is not
\* confirmed.
LEMMA ResetNetwork ==
  ASSUME Shaped, ReleaseInv, NetworkInv, Reset
  PROVE  NetworkInv'
<1>1. start.network \in BOOLEAN /\ host.nm \in Network
  BY RegistrationStartsAssumption DEF Shaped, IInv, MachineShaped, MachineTypes, Host
<1>2. /\ proc'.phase = "cleanup" /\ UNCHANGED <<confirmed, broke, start>>
      /\ proc.phase = "run" /\ proc.mode = "reset"
  BY DEF Reset, Goto, Shaped, MachineShaped, MachineTypes, Process
<1>3. /\ host'.nm = [host.nm EXCEPT !.app = start.network]
      /\ host'.agent = proc.inv /\ host'.plan = "none" /\ host'.booted = host.booted
  BY DEF Reset, Shaped, MachineShaped, MachineTypes, Host
<1>4. /\ host'.nm.files = host.nm.files /\ host'.nm.inUse = host.nm.inUse
      /\ ~start.network /\ host.nm = NoNetwork => host'.nm = NoNetwork
  BY <1>1, <1>3 DEF Network, NoNetwork
<1>5. Prompt => proc.inv \notin confirmed
  BY <1>2 DEF ReleaseInv, HasConfig
<1> QED
  BY <1>2, <1>3, <1>4, <1>5 DEF NetworkInv, Phases, NetworkPhases, Prompt

LEMMA CleanupNetwork ==
  ASSUME Shaped, ReleaseInv, NetworkInv, cleanupResetPlan
  PROVE  NetworkInv'
<1> DEFINE h == [host EXCEPT !.resetFile = FALSE]
<1>1. h \in Host /\ h.nm = host.nm /\ h.agent = host.agent
  BY DEF Shaped, MachineShaped, MachineTypes, Host
<1>2. host' = Boot(h, "active")
  BY DEF cleanupResetPlan
<1> HIDE DEF h
<1>3. /\ host.nm = NoNetwork => host'.nm = NoNetwork
      /\ host'.nm.app => host'.nm.files
      /\ host'.nm.inUse => host'.nm.files
      /\ host'.plan = "none" /\ host'.booted = "active" /\ host'.agent = host.agent
  <2>1. host'.plan = "none" /\ host'.booted = "active" /\ host'.agent = host.agent
    BY <1>1, <1>2, BootTyped
  <2>2. /\ h.nm = NoNetwork => host'.nm = NoNetwork
        /\ host'.nm.app => host'.nm.files
        /\ host'.nm.inUse => host'.nm.files
    BY <1>1, <1>2, BootedNetwork
  <2> QED
    BY <1>1, <2>1, <2>2
<1>4. proc'.phase = "idle" /\ UNCHANGED <<confirmed, broke, start>>
  BY DEF cleanupResetPlan, NoProcess
<1>5. Prompt => host.agent \notin confirmed
  BY DEF cleanupResetPlan, ReleaseInv, HasConfig, Shaped, MachineShaped, ProcessShaped
<1> QED
  BY <1>3, <1>4, <1>5 DEF NetworkInv, Phases, NetworkPhases, Prompt

LEMMA NextNetwork ==
  ASSUME Shaped, ReleaseInv, NetworkInv, [Next]_vars
  PROVE  NetworkInv'
<1>1. ASSUME UNCHANGED <<hostVars, start>> PROVE NetworkInv'
  BY <1>1 DEF hostVars, NetworkInv, Prompt
<1>2. CASE UNCHANGED vars \/ RegistrationStep \/ ServerSteps
  BY <1>1, <1>2, RegistrationStart, ServerStart DEF vars
<1>3. CASE ResetNetworkConfig
  BY <1>3, CommandNetwork, CommandsEndNetwork DEF ResetNetworkConfig
<1> QED
  BY <1>1, <1>2, <1>3, ProcessNetwork, PlanNetwork, BootNetwork, InstallNetwork,
     ResetNetwork, CleanupNetwork, InventoryTyped DEF Next

----------------------------------------------------------------------------
LEMMA InitReset == Init => ReleaseInv /\ AgentInv /\ NetworkInv
<1> SUFFICES ASSUME Init PROVE ReleaseInv /\ AgentInv /\ NetworkInv
  OBVIOUS
<1>1. /\ host.plan = "none" /\ host.nm \in {NoNetwork, IF start.network THEN Configured ELSE NoNetwork}
      /\ host.agent # 0 => Exists(inv[host.agent]) /\ inv[host.agent].net
  BY RegistrationHostsAssumption DEF Init
<1>2. /\ confirmed = {} /\ proc = NoProcess /\ \A s \in Sessions : sess[s] = NoSession
      /\ invCache = inv
  BY DEF Init
<1>3. ReleaseInv /\ AgentInv
  BY <1>1, <1>2 DEF ReleaseInv, AgentInv, There, Known, HasInventory, HasConfig,
                    NoProcess, NoSession
<1>4. NetworkInv
  <2>1. start.network \in BOOLEAN
    BY RegistrationStartsAssumption DEF Init
  <2>2. ~start.network => host.nm = NoNetwork
    BY <1>1, <2>1
  <2> QED
    BY <1>1, <1>2, <2>2 DEF NetworkInv, Phases, NetworkPhases, NoProcess, NoNetwork, Configured
<1> QED
  BY <1>3, <1>4

\* The release of the inventory, the agent and the network commands, together:
\* what a power failure in ResetNetworkConfig leaves depends on all of them.
THEOREM ResetInvariant == Spec => [](Shaped /\ ReleaseInv /\ AgentInv /\ NetworkInv)
<1> DEFINE Inv == Shaped /\ ReleaseInv /\ AgentInv /\ NetworkInv
<1>1. Init => Inv
  BY InitShaped, InitReset
<1>2. Inv /\ [Next]_vars => Inv'
  BY NextShaped, NextRelease, NextAgent, NextNetwork
<1> QED
  BY <1>1, <1>2, PTL DEF Spec

\* An installed machine is never left with an inventory that is gone, but
\* between the confirmation of the reset plan and the end of the reset.
THEOREM AgentKeepsInventory == Spec => []AgentHasInventory
<1>1. Shaped /\ ReleaseInv /\ AgentInv => AgentHasInventory
  BY DEF ReleaseInv, AgentInv, There, Prompt, AgentHasInventory
<1> QED
  BY ResetInvariant, <1>1, PTL

\* No power failure, second run or other reset uses the addresses again
\* before the machine is reset, if no command of the network reset failed.
THEOREM AddressesStayReleased == Spec => []AddressesReleased
<1>1. Shaped /\ NetworkInv => AddressesReleased
  BY DEF NetworkInv, Off, Prompt, AddressesReleased
<1> QED
  BY ResetInvariant, <1>1, PTL
=============================================================================
