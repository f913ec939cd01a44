---------------------------- MODULE Registration ----------------------------
(***************************************************************************)
(* The registration of one machine: the MachineRegistration controller,    *)
(* the registration server, and the machine from its first boot through    *)
(* updates and resets.                                                     *)
(***************************************************************************)
EXTENDS MachineReset

\* A start: the registrations, the host, the token in its registration URL,
\* and what is configured.
ASSUME RegistrationStartsAssumption ==
  \A s \in Starts :
    /\ s.regs \in [Regs -> Registration]
    /\ s.serverURL \in BOOLEAN
    /\ s.token \in AnyToken
    /\ s.host \in Host
    /\ s.invs \in [Inventories -> Inventory]
    /\ {s.fixed, s.resettable, s.network, s.toolkit, s.confDir} \subseteq BOOLEAN
    /\ s.lags \subseteq {"reg", "inv", "release"}
    /\ s.moves \in [Kinds -> Nat]

\* The registrations of a start have the tokens a controller gives; one
\* that is ready has a ServiceAccount and a URL.
OwnToken(r, m) ==
  m.token \in Tokens \cup {r, None} /\ (~m.exists => m.token = None)

ASSUME RegistrationTokensAssumption ==
  \A s \in Starts : \A r, o \in Regs :
    /\ OwnToken(r, s.regs[r])
    /\ s.regs[r].ready = "True" => s.regs[r].sa /\ s.regs[r].url # None
    /\ r # o /\ s.regs[r].token # None => s.regs[r].token # s.regs[o].token

\* A machine starts with one inventory at most.
ASSUME RegistrationInventoriesAssumption ==
  \A s \in Starts : \A i, j \in Inventories :
    Exists(s.invs[i]) /\ Exists(s.invs[j]) => i = j

\* No plan runs on the machine of a start, its agent is connected to an
\* inventory that is there and has been reconciled, and what a registration
\* with a network config configured is complete and in use.
ASSUME RegistrationHostsAssumption ==
  \A s \in Starts :
    /\ s.host.plan = "none" /\ ~s.host.next
    /\ s.host.agent # 0 =>
         Exists(s.invs[s.host.agent]) /\ s.invs[s.host.agent].net
    /\ s.host.nm \in {NoNetwork, IF s.network THEN Configured ELSE NoNetwork}

Init ==
  /\ start \in Starts
  /\ reg = start.regs /\ regCache = reg
  /\ regQueue = {r \in Regs : reg[r].exists /\ reg[r].ready # "True"}
  /\ rbac = [r \in Regs |-> IF reg[r].sa THEN RbacObjects ELSE {}]
  /\ saNote = {}
  /\ serverURL = start.serverURL
  /\ moves = start.moves /\ faults = 0
  /\ inv = start.invs /\ invCache = inv /\ seen = Inventories
  /\ sess = [s \in Sessions |-> NoSession]
  /\ host = start.host /\ proc = NoProcess
  /\ confirmed = {} /\ broke = FALSE

vars == <<regVars, invVars, sess, hostVars, start, moves, faults>>

\* The types, and what the server takes from a registration that is ready
\* without looking: the reference to its ServiceAccount and the URL.
TypeOK ==
  /\ reg \in [Regs -> Registration] /\ regCache \in [Regs -> Registration]
  /\ regQueue \subseteq Regs /\ rbac \in [Regs -> SUBSET RbacObjects]
  /\ saNote \subseteq Regs
  /\ serverURL \in BOOLEAN /\ start \in Starts
  /\ moves \in [Kinds -> Nat] /\ faults \in 0..MaxFaults
  /\ inv \in [Inventories -> Inventory] /\ invCache \in [Inventories -> Inventory]
  /\ seen \subseteq Inventories /\ sess \in [Sessions -> Session]
  /\ host \in Host /\ proc \in Process
  /\ confirmed \subseteq Inventories /\ broke \in BOOLEAN
  /\ \A r \in Regs : reg[r].ready = "True" => reg[r].sa /\ reg[r].url # None

----------------------------------------------------------------------------
(***************************************************************************)
(* MachineInventories: the user deletes one; its controller sets the       *)
(* network condition; the informer follows.  The controller's first        *)
(* reconcile adds the finalizer that holds an inventory, and only a later  *)
(* one gets to the condition; when the machine is not to be reset, the     *)
(* finalizer goes without a plan.                                          *)
(***************************************************************************)
HeldOnDeletion(i) == IF start.resettable THEN {TRUE, inv[i].net} ELSE {FALSE}

DeleteInventory(i) ==
  /\ Move("delete")
  /\ Exists(inv[i]) /\ ~inv[i].deleting
  /\ \E held \in HeldOnDeletion(i) :
       Write(i, IF held THEN [inv[i] EXCEPT !.deleting = TRUE]
                ELSE [inv[i] EXCEPT !.life = "gone"], sess)
  /\ UNCHANGED <<regVars, hostVars, start, faults>>

NetworkConfigured(i) ==
  /\ Exists(inv[i]) /\ ~inv[i].deleting /\ ~inv[i].net
  /\ Write(i, [inv[i] EXCEPT !.net = TRUE], sess)
  /\ UNCHANGED <<regVars, hostVars, start, moves, faults>>

SeeInventory(i) ==
  /\ i \notin seen
  /\ invCache' = [invCache EXCEPT ![i] = inv[i]]
  /\ seen' = seen \cup {i}
  /\ UNCHANGED <<regVars, inv, sess, hostVars, start, moves, faults>>

RegistrationStep ==
  /\ \/ \E r \in Regs : \/ ReconcileRegistration(r)
                        \/ SeeRegistration(r) \/ ServiceAccountEvent(r)
                        \/ EditToken(r) \/ DeleteRegistration(r) \/ LoseRbac(r)
     \/ SetServerURL
  /\ UNCHANGED <<invVars, sess, hostVars>>

ServerSteps ==
  /\ \E s \in Sessions : ServerStep(s)
  /\ UNCHANGED hostVars

Next ==
  \/ RegistrationStep
  \/ ServerSteps
  \/ \E mode \in {"update", "install", "network", "reset"} : Run(mode)
  \/ Dial \/ DialFails \/ Receive \/ LoseConnection \/ Save
  \/ Install \/ InstallFails \/ Reset \/ ResetFails \/ cleanupResetPlan
  \/ ResetNetworkConfig
  \/ ApplyPlan \/ ConfirmPlan \/ RebootToRecovery \/ PowerLoss
  \/ \E i \in Inventories : \/ ReleaseInventory(i) \/ DeleteInventory(i)
                            \/ NetworkConfigured(i) \/ SeeInventory(i)

(***************************************************************************)
(* Controllers, informers and sessions go on, and a ServiceAccount queues  *)
(* its registration when it comes or goes; elemental-register is run       *)
(* again and again to install, reset or run the plan, and what it does     *)
(* comes to an end; server-url gets its value.  Updates need not be made.  *)
(***************************************************************************)
Fairness ==
  /\ \A r \in Regs :
       /\ WF_vars(ReconcileRegistration(r) /\ UNCHANGED <<invVars, sess, hostVars>>)
       /\ WF_vars(SeeRegistration(r) /\ UNCHANGED <<invVars, sess, hostVars>>)
       /\ WF_vars(ServiceAccountEvent(r) /\ UNCHANGED <<invVars, sess, hostVars>>)
  /\ WF_vars(SetServerURL /\ UNCHANGED <<invVars, sess, hostVars>>)
  /\ \A s \in Sessions : WF_vars(ServerStep(s) /\ UNCHANGED hostVars)
  /\ \A i \in Inventories :
       WF_vars(ReleaseInventory(i)) /\ WF_vars(NetworkConfigured(i))
         /\ WF_vars(SeeInventory(i))
  /\ \A mode \in {"install", "network", "reset"} : WF_vars(Run(mode))
  /\ WF_vars(Dial) /\ WF_vars(DialFails) /\ WF_vars(Receive) /\ WF_vars(Save)
  /\ WF_vars(Install \/ InstallFails) /\ WF_vars(Reset \/ ResetFails)
  /\ WF_vars(cleanupResetPlan) /\ WF_vars(ResetNetworkConfig)
  /\ WF_vars(ApplyPlan) /\ WF_vars(ConfirmPlan) /\ WF_vars(RebootToRecovery)

Spec == Init /\ [][Next]_vars /\ Fairness

----------------------------------------------------------------------------
(***************************************************************************)
(* No two registrations hold one token, as checkTokenUniqueness is there   *)
(* to prevent; unless the cached list it looks at lags.                    *)
(***************************************************************************)
DistinctTokens ==
  "reg" \notin start.lags =>
    \A r, o \in Regs : r # o /\ reg[r].token # None => reg[r].token # reg[o].token

(***************************************************************************)
(* checkTokenUniqueness promises that no two registrations hold a token    *)
(* ("token ... is already in use by").  The cached list it looks at may    *)
(* lack the token it gave a moment before.                                 *)
(***************************************************************************)
TokensNeverShared ==
  \A r, o \in Regs : r # o /\ reg[r].token # None => reg[r].token # reg[o].token

(***************************************************************************)
(* When the user is done, every registration comes to rest: with the token *)
(* Spec.Token asks for and a URL that ends with it, or, if another one has *)
(* that token, with neither; whatever call failed.  Unless it shared its   *)
(* token (TokensNeverShared), or Spec.Token was edited while it was not    *)
(* ready, its ServiceAccount being there already (TokenFollowsSpec).       *)
(***************************************************************************)
Collides(r) == \E o \in Regs \ {r} : reg[r].token # None /\ reg[o].token = reg[r].token

Overtaken(r) ==
  LET m == reg[r] IN
  /\ m.exists /\ m.ready # "True" /\ "sa" \in rbac[r]
  /\ m.token # None /\ m.want # None /\ m.token # m.want

Settled(r) ==
  LET m == reg[r] IN
  \/ ~m.exists
  \/ /\ m.ready = "True" /\ m.token # None /\ m.url = m.token
     /\ m.want # None => m.token = m.want
  \/ /\ m.ready = "False" /\ m.token = None /\ m.url = None
     /\ \E o \in Regs \ {r} : reg[o].exists /\ reg[o].token = m.want

TokenSettles ==
  \A r \in Regs : [](~Collides(r) /\ ~Overtaken(r)) => <>[]Settled(r)

(***************************************************************************)
(* "If the spec defines a static endpoint but the status token doesn't     *)
(* match, re-reconcile": a ready registration with another token does not  *)
(* stay so.  setToken keeps the token of one that was not ready; then it   *)
(* is ready, and its status is no event that would reconcile it.           *)
(***************************************************************************)
TokenFollowsSpec ==
  \A r \in Regs :
    reg[r].ready = "True" /\ reg[r].want # None /\ reg[r].token # reg[r].want
      ~> ~(reg[r].ready = "True" /\ reg[r].want # None /\ reg[r].token # reg[r].want)

(***************************************************************************)
(* "Despite being on ready state we check if the serviceaccount token is   *)
(* still available": the token Secret of a registration that is ready is   *)
(* created again when it is lost.  Nothing reconciles the registration for *)
(* it: Secrets are not watched.                                            *)
(***************************************************************************)
SecretRestored ==
  \A r \in Regs : reg[r].ready = "True" /\ "secret" \notin rbac[r]
                   ~> ~reg[r].exists \/ "secret" \in rbac[r]

(***************************************************************************)
(* A machine has one inventory at most, also when it gives up a session    *)
(* the server is still busy with and begins another.  Unless two sessions  *)
(* are between the look at the list and the creation at once, or the list, *)
(* which is cached, lags: if the name is fixed, neither matters.           *)
(***************************************************************************)
OneInventory == Cardinality({i \in Inventories : Exists(inv[i])}) <= 1

Apart == \A s, o \in Sessions :
           sess[s].phase = "create" /\ sess[o].phase = "create" => s = o

OneInventoryPerMachine ==
  []((Apart /\ "inv" \notin start.lags) \/ start.fixed) => []OneInventory

(***************************************************************************)
(* createMachineInventory is to refuse a machine whose inventory is        *)
(* "already present".  Two of its sessions both find none, and both create *)
(* one, since the name is a new one each time.                             *)
(***************************************************************************)
SecondInventoryRefused == OneInventory

(***************************************************************************)
(* A machine that has registered, and is not reset, does not get another   *)
(* inventory when the one it had is gone: it has to be provisioned again.  *)
(***************************************************************************)
OnlyNewMachinesCreate ==
  [][\A i \in Inventories : Exists(inv'[i]) /\ ~Exists(inv[i]) =>
       \E s \in Sessions : sess[s].phase = "create" /\ sess'[s] # sess[s]
                             /\ ~sess[s].known]_vars

(***************************************************************************)
(* A machine that keeps trying to install is installed, whatever was lost  *)
(* or failed on the way, unless to the end nothing serves its token, it    *)
(* has two inventories, its state says it has registered while its         *)
(* inventory is gone, its inventory was deleted before the network was     *)
(* configured and waits for a machine to reset, its state file was cut,    *)
(* the agent's directory is missing, or the token Secret is                *)
(* (SecretRestored).                                                       *)
(***************************************************************************)
Hindered ==
  \/ getMachineRegistration(start.token) = {}
  \/ \E r \in getMachineRegistration(start.token) : "secret" \notin rbac[r]
  \/ Cardinality(authMachine) > 1
  \/ \E i \in authMachine : invCache[i].deleting /\ ~invCache[i].net
  \/ host.state = "registered" /\ authMachine = {}
  \/ host.state = "cut"
  \/ DirectoryMissing

InstallCompletes == <>[](host.agent = 0) => []<>Hindered


(***************************************************************************)
(* The inventory the agent of an installed machine is connected to is      *)
(* there until the machine has confirmed the reset plan and is about to be *)
(* reset: no config names an inventory that is gone, not even one the      *)
(* cache still shows.  Unless the user deletes it without a reset, or the  *)
(* confirmed plan releases it only when the reset has registered again.    *)
(***************************************************************************)
AgentHasInventory ==
  start.resettable /\ "release" \notin start.lags /\ host.booted = "active" /\ host.agent # 0
    => \/ Exists(inv[host.agent])
       \/ host.agent \in confirmed /\ host.resetFile

(***************************************************************************)
(* From the confirmation of the plan to the end of the reset the claimed   *)
(* addresses are not used, as ResetNetworkConfig promises, wherever the    *)
(* power failed; unless one of its commands did: the second run then finds *)
(* nothing to do.  If the plan is confirmed long before its inventory      *)
(* goes, the reset can register with it again; a machine that then loses   *)
(* its power before the plan file is removed is up with its network again, *)
(* and so this is said of the machine up to the recovery only.             *)
(***************************************************************************)
AddressesReleased ==
  /\ host.agent \in confirmed /\ host.resetFile /\ ~broke
  /\ "release" \in start.lags => host.plan = "done" \/ host.booted = "recovery"
  => ~host.nm.inUse
=============================================================================
