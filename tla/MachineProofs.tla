--------------------------- MODULE MachineProofs ---------------------------
(***************************************************************************)
(* What holds of the machine, for any number of registrations,             *)
(* inventories and faults, wherever the power fails and whenever a         *)
(* connection is lost: its agent has an inventory as long as it needs one, *)
(* its addresses are free once the reset plan is confirmed, and a machine  *)
(* that has registered never gets a second inventory on its own.           *)
(***************************************************************************)
EXTENDS RegistrationProofs

NetworkPhases == {"files", "reload", "restart", "online", "agent"}

\* The phases after the config has arrived.
HasConfig == proc.phase \notin {"idle", "dial", "wait"}
HasInventory(s) == sess[s].phase \in {"committed", "config"}

OperatorTypes ==
  /\ regQueue \subseteq Regs /\ rbac \in [Regs -> SUBSET RbacObjects]
  /\ saNote \subseteq Regs
  /\ serverURL \in BOOLEAN
  /\ moves \in [Kinds -> Nat] /\ faults \in 0..MaxFaults
  /\ invCache \in [Inventories -> Inventory] /\ seen \subseteq Inventories
  /\ \A r \in Regs : reg[r].ready = "True" => reg[r].sa /\ reg[r].url # None

MachineTypes ==
  /\ sess \in [Sessions -> Session]
  /\ host \in Host /\ proc \in Process
  /\ confirmed \subseteq Inventories /\ broke \in BOOLEAN

\* A session that waits for MsgGet of a machine that has registered before
\* has its inventory, and so has one that has committed; one that creates an
\* inventory is of a machine that has not.
SessionsShaped ==
  \A s \in Sessions :
    /\ HasInventory(s) => sess[s].inv # 0
    /\ sess[s].phase = "get" /\ sess[s].known => sess[s].inv # 0
    /\ sess[s].phase = "create" => ~sess[s].known

ProcessShaped ==
  /\ proc.phase = "wait" => proc.sess # 0
  /\ HasConfig => proc.inv # 0
  /\ proc.phase \in NetworkPhases => proc.mode = "network"
  /\ proc.phase = "cleanup" => proc.mode = "reset"

\* The plan runs on an installed machine that has its file, once for each
\* inventory, and each elemental-register in its own part of the cycle.
PlanShaped ==
  /\ host.plan # "none" =>
       host.agent # 0 /\ host.booted = "active" /\ host.resetFile
  /\ host.plan = "running" => host.agent \notin confirmed /\ start.network
  /\ host.next => host.plan = "done"
  /\ proc.mode = "network" => host.plan = "running"
  /\ proc.mode = "install" => host.agent = 0
  /\ proc.mode = "reset" => host.booted = "recovery"
  /\ host.agent = 0 => confirmed = {}

MachineShaped == MachineTypes /\ SessionsShaped /\ ProcessShaped /\ PlanShaped

\* What every step can rely on.
Shaped == IInv /\ InvIInv /\ OperatorTypes /\ MachineShaped

----------------------------------------------------------------------------
(***************************************************************************)
(* The types of what the operator keeps.                                   *)
(***************************************************************************)
LEMMA MovesTyped ==
  ASSUME moves \in [Kinds -> Nat], NEW kind \in Kinds, Move(kind)
  PROVE  moves' \in [Kinds -> Nat]
BY DEF Move

LEMMA FaultTyped ==
  ASSUME faults \in 0..MaxFaults, Fault \/ NoFault
  PROVE  faults' \in 0..MaxFaults
BY RegistrationBoundsAssumption DEF Fault, NoFault

\* A registration is only made ready with its ServiceAccount and a URL.
ReadyComplete(c) == c.ready = "True" => c.sa /\ c.url # None

LEMMA FinishTyped ==
  ASSUME Shaped, NEW r \in Regs, NEW c, ReadyComplete(c),
         NEW failed, NEW failures \in Nat,
         FinishRegistration(r, c, failed, failures)
  PROVE  /\ regQueue' \subseteq Regs /\ faults' \in 0..MaxFaults
         /\ \A o \in Regs : ReadyComplete(reg'[o])
<1>1. PICK stored \in {regCache[r] = reg[r], FALSE} :
        LET lost == IF regCache[r] = reg[r] /\ ~stored THEN 1 ELSE 0 IN
        /\ faults + failures + lost <= MaxFaults
        /\ faults' = faults + failures + lost
        /\ reg' = IF stored THEN [reg EXCEPT ![r] = c] ELSE reg
        /\ regQueue' = IF failed \/ (reg[r].exists /\ ~stored) THEN regQueue
                       ELSE regQueue \ {r}
  BY DEF FinishRegistration
<1>2. faults' \in 0..MaxFaults
  BY <1>1, RegistrationBoundsAssumption DEF Shaped, OperatorTypes
<1>3. regQueue' \subseteq Regs
  BY <1>1 DEF Shaped, OperatorTypes
<1>4. \A o \in Regs : ReadyComplete(reg[o])
  BY DEF Shaped, OperatorTypes, ReadyComplete
<1>5. \A o \in Regs : ReadyComplete(reg'[o])
  BY <1>1, <1>4 DEF Shaped, IInv
<1> QED
  BY <1>2, <1>3, <1>5

LEMMA CreatedTyped ==
  ASSUME Shaped, NEW r \in Regs, NEW objects \in SUBSET RbacObjects,
         Created(r, objects)
  PROVE  rbac' \in [Regs -> SUBSET RbacObjects] /\ saNote' \subseteq Regs
BY DEF Shaped, OperatorTypes, Created

\* The copy RegistrationReady stores has a URL.
LEMMA URLSet ==
  ASSUME Shaped, NEW r \in Regs
  PROVE  LET c == setURL(setToken(r, isReady(regCache[r]))) IN
         c \in Registration /\ c.url # None
<1> DEFINE b == isReady(regCache[r])
           c == setToken(r, b)
<1>1. b \in Registration
  BY DEF Shaped, IInv, isReady, Registration, AnyToken
<1> HIDE DEF b
<1>2. c \in Registration /\ c.token # None
  BY <1>1, RegistrationNamesAssumption DEF setToken, Registration, AnyToken
<1> HIDE DEF c
<1>3. setURL(c) \in Registration /\ setURL(c).url # None
  BY <1>2 DEF setURL, Registration
<1> QED
  BY <1>3 DEF b, c

LEMMA ReconcileTyped ==
  ASSUME Shaped, NEW r \in Regs, ReconcileRegistration(r), UNCHANGED invVars
  PROVE  OperatorTypes'
<1> DEFINE b == isReady(regCache[r])
           d == setToken(r, b)
<1> SUFFICES /\ rbac' \in [Regs -> SUBSET RbacObjects] /\ saNote' \subseteq Regs
             /\ regQueue' \subseteq Regs /\ faults' \in 0..MaxFaults
             /\ \A o \in Regs : ReadyComplete(reg'[o])
             /\ UNCHANGED <<serverURL, moves>>
  BY DEF OperatorTypes, Shaped, ReadyComplete, invVars
<1>1. UNCHANGED <<serverURL, moves>>
  BY DEF ReconcileRegistration, RegistrationGone, RegistrationDeleted, TokenRefused,
         ServerURLMissing, createRBACObjectsFails, RegistrationReady
<1>2. \A o \in Regs : ReadyComplete(reg[o])
  BY DEF Shaped, OperatorTypes, ReadyComplete
<1>3. CASE RegistrationGone(r)
  BY <1>1, <1>2, <1>3 DEF RegistrationGone, Shaped, OperatorTypes
<1>4. CASE RegistrationDeleted(r)
  <2>1. ReadyComplete(NoRegistration)
    BY DEF ReadyComplete, NoRegistration
  <2>2. \A o \in Regs : ReadyComplete(reg'[o])
    BY <1>2, <1>4, <2>1 DEF RegistrationDeleted, Shaped, IInv
  <2> QED
    BY <1>1, <1>4, <2>2 DEF RegistrationDeleted, Shaped, OperatorTypes
<1>5. b \in Registration /\ d \in Registration /\ setURL(d) \in Registration
        /\ setURL(d).url # None
  <2>1. b \in Registration
    BY DEF Shaped, IInv, isReady, Registration, AnyToken
  <2> HIDE DEF b
  <2>2. d \in Registration
    BY <2>1 DEF setToken, Registration, AnyToken
  <2> QED
    BY <2>1, <2>2, URLSet DEF b
<1> DEFINE Refused(c) == [c EXCEPT !.ready = "False"]
           Done(c) == [c EXCEPT !.ready = "True", !.sa = TRUE]
<1>6. \A c \in Registration :
        /\ ReadyComplete(Refused(c))
        /\ c.url # None => ReadyComplete(Done(c))
  BY DEF Registration, ReadyComplete
<1> HIDE DEF Refused, Done, b, d
<1>7. CASE TokenRefused(r)
  <2>1. FinishRegistration(r, Refused(b), TRUE, 0) /\ UNCHANGED <<rbac, saNote>>
    BY <1>7 DEF TokenRefused, Refused, b
  <2> QED
    BY <1>1, <1>5, <1>6, <2>1, FinishTyped DEF Shaped, OperatorTypes
<1>8. CASE ServerURLMissing(r)
  <2>1. PICK n \in Nat : FinishRegistration(r, Refused(d), TRUE, n)
    BY <1>8 DEF ServerURLMissing, Refused, b, d
  <2>2. UNCHANGED <<rbac, saNote>>
    BY <1>8 DEF ServerURLMissing
  <2> QED
    BY <1>1, <1>5, <1>6, <2>1, <2>2, FinishTyped DEF Shaped, OperatorTypes
<1>9. CASE createRBACObjectsFails(r)
  <2>1. FinishRegistration(r, Refused(setURL(d)), TRUE, 1)
    BY <1>9 DEF createRBACObjectsFails, Refused, b, d
  <2>2. rbac' \in [Regs -> SUBSET RbacObjects] /\ saNote' \subseteq Regs
    BY <1>9, CreatedTyped DEF createRBACObjectsFails, RbacObjects
  <2> QED
    BY <1>1, <1>5, <1>6, <2>1, <2>2, FinishTyped
<1>10. CASE RegistrationReady(r)
  <2>1. FinishRegistration(r, Done(setURL(d)), FALSE, 0)
    BY <1>10 DEF RegistrationReady, Done, b, d
  <2>2. rbac' \in [Regs -> SUBSET RbacObjects] /\ saNote' \subseteq Regs
    BY <1>10, CreatedTyped DEF RegistrationReady, RbacObjects
  <2> QED
    BY <1>1, <1>5, <1>6, <2>1, <2>2, FinishTyped
<1> QED
  BY <1>3, <1>4, <1>7, <1>8, <1>9, <1>10 DEF ReconcileRegistration

LEMMA RegistrationStepTyped ==
  ASSUME Shaped, RegistrationStep
  PROVE  OperatorTypes'
<1>1. UNCHANGED invVars
  BY DEF RegistrationStep
<1>2. \A o \in Regs : ReadyComplete(reg[o])
  BY DEF Shaped, OperatorTypes, ReadyComplete
<1>3. ASSUME NEW r \in Regs,
             SeeRegistration(r) \/ ServiceAccountEvent(r) \/ LoseRbac(r)
      PROVE  OperatorTypes'
  <2>1. UNCHANGED <<reg, serverURL>> /\ faults' = faults /\ regQueue' \subseteq Regs
    BY <1>3 DEF SeeRegistration, ServiceAccountEvent, LoseRbac, Shaped, OperatorTypes
  <2>2. moves' \in [Kinds -> Nat]
    BY <1>3, MovesTyped DEF SeeRegistration, ServiceAccountEvent, LoseRbac, Kinds,
                            Shaped, OperatorTypes
  <2>3. rbac' \in [Regs -> SUBSET RbacObjects] /\ saNote' \subseteq Regs
    BY <1>3 DEF SeeRegistration, ServiceAccountEvent, LoseRbac, Shaped, OperatorTypes
  <2> QED
    BY <1>1, <2>1, <2>2, <2>3 DEF Shaped, OperatorTypes, invVars
<1>4. ASSUME NEW r \in Regs, EditToken(r) \/ DeleteRegistration(r)
      PROVE  OperatorTypes'
  <2>1. PICK c : /\ reg' = [reg EXCEPT ![r] = c] /\ ReadyComplete(c)
    <3>1. reg[r] \in Registration /\ ReadyComplete(reg[r])
      BY <1>2 DEF Shaped, IInv
    <3>2. CASE EditToken(r)
      <4>1. PICK t \in Tokens \cup {None} :
              reg' = [reg EXCEPT ![r] = [reg[r] EXCEPT !.want = t]]
        BY <3>2 DEF EditToken
      <4>2. ReadyComplete([reg[r] EXCEPT !.want = t])
        BY <3>1 DEF ReadyComplete, Registration
      <4> QED
        BY <4>1, <4>2
    <3>3. CASE DeleteRegistration(r)
      <4>1. ReadyComplete([reg[r] EXCEPT !.deleting = TRUE])
              /\ ReadyComplete(NoRegistration)
        BY <3>1 DEF ReadyComplete, Registration, NoRegistration
      <4> QED
        BY <3>3, <4>1 DEF DeleteRegistration
    <3> QED
      BY <1>4, <3>2, <3>3
  <2>2. \A o \in Regs : ReadyComplete(reg'[o])
    BY <1>2, <2>1 DEF Shaped, IInv
  <2>3. moves' \in [Kinds -> Nat]
    BY <1>4, MovesTyped DEF EditToken, DeleteRegistration, Kinds, Shaped, OperatorTypes
  <2>4. rbac' \in [Regs -> SUBSET RbacObjects] /\ regQueue' \subseteq Regs
          /\ saNote' \subseteq Regs
          /\ UNCHANGED <<serverURL, faults>>
    BY <1>4 DEF EditToken, DeleteRegistration, Queued, Shaped, OperatorTypes
  <2> QED
    BY <1>1, <2>2, <2>3, <2>4 DEF Shaped, OperatorTypes, ReadyComplete, invVars
<1>5. CASE SetServerURL
  BY <1>1, <1>5 DEF SetServerURL, Shaped, OperatorTypes, invVars
<1> QED
  BY <1>1, <1>3, <1>4, <1>5, ReconcileTyped DEF RegistrationStep

----------------------------------------------------------------------------
(***************************************************************************)
(* The sessions.                                                           *)
(***************************************************************************)
\* A write only changes whether a session's copy is the latest.
SameButFresh(a, b) ==
  a.phase = b.phase /\ a.inv = b.inv /\ a.known = b.known

LEMMA WriteTyped ==
  ASSUME Shaped, NEW i \in Inventories, NEW o \in Inventory,
         NEW ss \in [Sessions -> Session], Write(i, o, ss)
  PROVE  /\ inv' \in [Inventories -> Inventory]
         /\ invCache' \in [Inventories -> Inventory] /\ seen' \subseteq Inventories
         /\ sess' \in [Sessions -> Session]
         /\ \A s \in Sessions : SameButFresh(sess'[s], ss[s])
<1>1. inv' \in [Inventories -> Inventory]
  BY DEF Write, Shaped, InvIInv
<1>2. invCache' \in [Inventories -> Inventory] /\ seen' \subseteq Inventories
  BY <1>1 DEF Write, Shaped, OperatorTypes
<1>3. \A s \in Sessions : [ss[s] EXCEPT !.fresh = FALSE] \in Session
  BY DEF Session
<1>4. sess' \in [Sessions -> Session]
  BY <1>3 DEF Write
<1>5. \A s \in Sessions : SameButFresh([ss[s] EXCEPT !.fresh = FALSE], ss[s])
  BY DEF Session, SameButFresh
<1>6. \A s \in Sessions : SameButFresh(sess'[s], ss[s])
  BY <1>5 DEF Write, SameButFresh
<1> QED
  BY <1>1, <1>2, <1>4, <1>6

\* A session that ends keeps its inventory with the reply, or is none.
LEMMA EndTyped ==
  ASSUME sess \in [Sessions -> Session], NEW s \in Sessions,
         NEW reply \in {"config", "error"}, End(s, reply)
  PROVE  /\ sess' \in [Sessions -> Session]
         /\ \A o \in Sessions \ {s} : sess'[o] = sess[o]
         /\ sess'[s].phase \in {"none", reply}
         /\ sess'[s].phase = reply => sess'[s].inv = sess[s].inv
BY DEF End, Session, NoSession

LEMMA UntiedTyped ==
  ASSUME sess \in [Sessions -> Session], NEW s \in Sessions \cup {0}
  PROVE  /\ Untied(s) \in [Sessions -> Session]
         /\ \A o \in Sessions : \/ Untied(s)[o] = NoSession
                               \/ SameButFresh(Untied(s)[o], sess[o])
BY DEF Untied, Session, NoSession, SameButFresh, Sessions

LEMMA OpenedTyped ==
  ASSUME Accepts(start.token), NEW known \in BOOLEAN
  PROVE  Opened(start.token, known) \in Session
<1>1. getMachineRegistration(start.token) # {}
  BY DEF Accepts
<1>2. (CHOOSE r \in getMachineRegistration(start.token) : TRUE)
        \in getMachineRegistration(start.token)
  BY <1>1
<1>3. getMachineRegistration(start.token) \subseteq Regs
  BY DEF getMachineRegistration
<1>4. authMachine # {} => (CHOOSE i \in authMachine : TRUE) \in authMachine
  OBVIOUS
<1>5. authMachine \subseteq Inventories
  BY DEF authMachine
<1> QED
  BY <1>2, <1>3, <1>4, <1>5 DEF Opened, Session

LEMMA CreateTyped ==
  ASSUME Shaped, NEW s \in Sessions, createMachineInventory(s)
  PROVE  /\ OperatorTypes' /\ sess' \in [Sessions -> Session]
         /\ SessionsShaped'
<1>1. PICK i \in Inventories :
        Write(i, [Unborn EXCEPT !.life = "exists"],
              [sess EXCEPT ![s].phase = "committed", ![s].inv = i,
                           ![s].fresh = TRUE])
  BY DEF createMachineInventory
<1> DEFINE ss == [sess EXCEPT ![s].phase = "committed", ![s].inv = i, ![s].fresh = TRUE]
<1>2. ss \in [Sessions -> Session] /\ ss[s].phase = "committed" /\ ss[s].inv = i
        /\ \A o \in Sessions \ {s} : ss[o] = sess[o]
  BY DEF Shaped, MachineShaped, MachineTypes, Session
<1>3. [Unborn EXCEPT !.life = "exists"] \in Inventory
  BY DEF Unborn, Inventory
<1> HIDE DEF ss
<1>4. /\ invCache' \in [Inventories -> Inventory] /\ seen' \subseteq Inventories
      /\ sess' \in [Sessions -> Session]
      /\ \A o \in Sessions : SameButFresh(sess'[o], ss[o])
  BY <1>1, <1>2, <1>3, WriteTyped DEF ss
<1>5. OperatorTypes'
  BY <1>4 DEF createMachineInventory, regVars, Shaped, OperatorTypes
<1>6. i # 0
  BY DEF Inventories
<1>7. SessionsShaped'
  BY <1>2, <1>4, <1>6 DEF Shaped, MachineShaped, SessionsShaped, HasInventory, SameButFresh
<1> QED
  BY <1>4, <1>5, <1>7

LEMMA UpdateTyped ==
  ASSUME Shaped, NEW s \in Sessions, updateMachineInventory(s)
  PROVE  /\ OperatorTypes' /\ sess' \in [Sessions -> Session]
         /\ SessionsShaped'
<1> DEFINE i == sess[s].inv
           ss == [sess EXCEPT ![s].phase = "committed", ![s].fresh = TRUE]
<1>1. i \in Inventories /\ inv[i] \in Inventory /\ i # 0
  BY DEF Shaped, MachineShaped, MachineTypes, Session, InvIInv, updateMachineInventory
<1>2. ss \in [Sessions -> Session] /\ ss[s].phase = "committed" /\ ss[s].inv = i
        /\ \A o \in Sessions \ {s} : ss[o] = sess[o]
  BY DEF Shaped, MachineShaped, MachineTypes, Session
<1>3. Write(i, inv[i], ss)
  BY DEF updateMachineInventory
<1> HIDE DEF i, ss
<1>4. /\ invCache' \in [Inventories -> Inventory] /\ seen' \subseteq Inventories
      /\ sess' \in [Sessions -> Session]
      /\ \A o \in Sessions : SameButFresh(sess'[o], ss[o])
  BY <1>1, <1>2, <1>3, WriteTyped
<1>5. OperatorTypes'
  BY <1>4 DEF updateMachineInventory, regVars, Shaped, OperatorTypes
<1>6. SessionsShaped'
  BY <1>1, <1>2, <1>4 DEF Shaped, MachineShaped, SessionsShaped, HasInventory, SameButFresh
<1> QED
  BY <1>4, <1>5, <1>6

LEMMA ServerTyped ==
  ASSUME Shaped, ServerSteps
  PROVE  /\ OperatorTypes' /\ sess' \in [Sessions -> Session]
         /\ SessionsShaped'
<1>1. PICK s \in Sessions : ServerStep(s)
  BY DEF ServerSteps
<1>2. sess \in [Sessions -> Session] /\ sess[s] \in Session
  BY DEF Shaped, MachineShaped, MachineTypes
<1>3. CASE Serve(s)
  <2>1. OperatorTypes'
    BY <1>3 DEF Serve, regVars, invVars, Shaped, OperatorTypes
  <2>2. CASE sess[s].known /\ ~handleUpdate(s)
    <3>1. End(s, "error")
      BY <1>3, <2>2 DEF Serve
    <3>2. SessionsShaped'
      BY <1>2, <3>1, EndTyped DEF Shaped, MachineShaped, SessionsShaped, HasInventory
    <3> QED
      BY <1>2, <2>1, <3>1, <3>2, EndTyped
  <2>3. CASE ~(sess[s].known /\ ~handleUpdate(s))
    <3>1. sess' = [sess EXCEPT ![s].phase = "get"]
      BY <1>3, <2>3 DEF Serve
    <3>2. sess' \in [Sessions -> Session]
      BY <1>2, <3>1 DEF Session
    <3>3. SessionsShaped'
      BY <1>2, <2>3, <3>1 DEF Shaped, MachineShaped, SessionsShaped, HasInventory, handleUpdate, Session
    <3> QED
      BY <2>1, <3>2, <3>3
  <2> QED
    BY <2>2, <2>3
<1>6. CASE listMachineInventories(s)
  <2>1. OperatorTypes'
    BY <1>6 DEF listMachineInventories, regVars, invVars, Shaped, OperatorTypes
  <2>2. sess' = [sess EXCEPT ![s].phase = "create"] /\ sess[s].phase = "get"
        /\ sess[s].inv = 0
    BY <1>6 DEF listMachineInventories
  <2>3. sess' \in [Sessions -> Session]
    BY <1>2, <2>2 DEF Session
  <2>4. SessionsShaped'
    BY <1>2, <2>2 DEF Shaped, MachineShaped, SessionsShaped, HasInventory, Session
  <2> QED
    BY <2>1, <2>3, <2>4
<1>4. CASE ReadFails(s)
  <2>1. OperatorTypes'
    BY <1>4 DEF ReadFails, regVars, invVars, Shaped, OperatorTypes
  <2>2. sess' \in [Sessions -> Session]
    BY <1>2, <1>4 DEF ReadFails, NoSession, Session
  <2>3. SessionsShaped'
    BY <1>2, <1>4 DEF ReadFails, Shaped, MachineShaped, SessionsShaped, HasInventory, NoSession
  <2> QED
    BY <2>1, <2>2, <2>3
<1>5. CASE commitFails(s) \/ writeMachineInventoryCloudConfig(s) \/ handleGetFails(s)
  <2>1. faults' \in 0..MaxFaults
    BY <1>5, FaultTyped DEF commitFails, writeMachineInventoryCloudConfig,
                            handleGetFails, NoFault, Shaped, OperatorTypes
  <2>2. OperatorTypes'
    BY <1>5, <2>1 DEF commitFails, writeMachineInventoryCloudConfig,
                      handleGetFails, regVars, invVars, Shaped, OperatorTypes
  <2>3. PICK reply \in {"config", "error"} :
          End(s, reply) /\ (reply = "config" => sess[s].phase = "committed")
    BY <1>5 DEF commitFails, writeMachineInventoryCloudConfig, handleGetFails
  <2>4. SessionsShaped'
    BY <1>2, <2>3, EndTyped DEF Shaped, MachineShaped, SessionsShaped, HasInventory
  <2> QED
    BY <1>2, <2>2, <2>3, <2>4, EndTyped
<1> QED
  BY <1>1, <1>3, <1>4, <1>5, <1>6, CreateTyped, UpdateTyped DEF ServerStep

----------------------------------------------------------------------------
(***************************************************************************)
(* The machine.  Its own steps leave what the operator keeps alone, but    *)
(* for the faults and the moves that are left.                             *)
(***************************************************************************)
LEMMA OperatorUntouched ==
  ASSUME Shaped, UNCHANGED <<regVars, invVars>>,
         UNCHANGED moves \/ \E kind \in Kinds : Move(kind),
         Fault \/ NoFault
  PROVE  OperatorTypes'
<1>1. moves' \in [Kinds -> Nat] /\ faults' \in 0..MaxFaults
  BY MovesTyped, FaultTyped DEF Shaped, OperatorTypes
<1> QED
  BY <1>1 DEF Shaped, OperatorTypes, regVars, invVars

\* As long as host and confirmed stay, a process that keeps its mode, or
\* ends, keeps the shape of the plan.
LEMMA ProcessStep ==
  ASSUME Shaped, UNCHANGED <<host, confirmed, broke, start>>,
         proc' \in Process, proc'.mode \in {proc.mode, "none"},
         ProcessShaped', SessionsShaped', sess' \in [Sessions -> Session]
  PROVE  MachineShaped'
BY DEF Shaped, MachineShaped, MachineTypes, PlanShaped

LEMMA NoProcessShaped ==
  /\ NoProcess \in Process
  /\ proc' = NoProcess => ProcessShaped'
BY DEF NoProcess, Process, ProcessShaped, HasConfig, NetworkPhases

LEMMA RunTyped ==
  ASSUME Shaped, NEW mode \in {"update", "install", "network", "reset"}, Run(mode)
  PROVE  OperatorTypes' /\ MachineShaped'
<1>1. OperatorTypes'
  BY OperatorUntouched DEF Run, NoFault
<1>2. host' \in Host /\ UNCHANGED <<sess, confirmed, broke, start>>
  BY DEF Run, Shaped, MachineShaped, MachineTypes, Host
<1>3. /\ host'.plan = host.plan /\ host'.next = host.next /\ host'.agent = host.agent
      /\ host'.booted = host.booted /\ host'.resetFile = host.resetFile
  BY DEF Run, Shaped, MachineShaped, MachineTypes, Host
<1>4. proc' \in Process /\ proc'.mode = mode /\ proc'.phase = "dial"
  BY DEF Run, NoProcess, Process, getRegistrationState
<1>5. ProcessShaped'
  BY <1>4 DEF ProcessShaped, HasConfig, NetworkPhases
<1>6. /\ mode = "network" => host.plan = "running"
      /\ mode = "install" => host.agent = 0
      /\ mode = "reset" => host.booted = "recovery"
  BY DEF Run, Runs
<1>7. PlanShaped'
  BY <1>2, <1>3, <1>4, <1>6 DEF Shaped, MachineShaped, PlanShaped
<1>8. SessionsShaped'
  BY <1>2 DEF Shaped, MachineShaped, SessionsShaped, HasInventory
<1> QED
  BY <1>1, <1>2, <1>4, <1>5, <1>7, <1>8 DEF Shaped, MachineShaped, MachineTypes

LEMMA DialTyped ==
  ASSUME Shaped, Dial
  PROVE  OperatorTypes' /\ MachineShaped'
<1>1. OperatorTypes'
  BY OperatorUntouched DEF Dial, NoFault
<1>2. PICK s \in Sessions :
        /\ sess' = [sess EXCEPT ![s] = Opened(start.token, proc.known)]
        /\ proc' = [proc EXCEPT !.phase = "wait", !.sess = s]
  BY DEF Dial
<1>3. Opened(start.token, proc.known) \in Session
  BY OpenedTyped DEF Dial, Shaped, MachineShaped, MachineTypes, Process
<1>4. sess' \in [Sessions -> Session]
  BY <1>2, <1>3 DEF Shaped, MachineShaped, MachineTypes
<1>5. SessionsShaped'
  BY <1>2 DEF Shaped, MachineShaped, MachineTypes, SessionsShaped, HasInventory, Opened
<1>6. proc' \in Process /\ proc'.mode = proc.mode /\ proc'.phase = "wait"
        /\ proc'.sess = s
  BY <1>2 DEF Shaped, MachineShaped, MachineTypes, Process
<1>7. ProcessShaped'
  BY <1>6 DEF ProcessShaped, HasConfig, NetworkPhases, Sessions
<1> QED
  BY <1>1, <1>4, <1>5, <1>6, <1>7, ProcessStep DEF Dial

\* The config comes with the inventory the session has committed.
LEMMA ReceiveTyped ==
  ASSUME Shaped, Receive
  PROVE  OperatorTypes' /\ MachineShaped'
<1> DEFINE s == proc.sess
<1>1. OperatorTypes'
  BY OperatorUntouched DEF Receive, NoFault
<1>2. s \in Sessions /\ sess[s] \in Session
  BY DEF Receive, Shaped, MachineShaped, MachineTypes, Process, ProcessShaped
<1>3. sess' = Untied(s)
  BY DEF Receive
<1>4. sess' \in [Sessions -> Session] /\ SessionsShaped'
  BY <1>2, <1>3, UntiedTyped
     DEF Shaped, MachineShaped, MachineTypes, SessionsShaped, HasInventory,
         SameButFresh, NoSession
<1>5. CASE sess[s].phase = "error"
  BY <1>1, <1>4, <1>5, NoProcessShaped, ProcessStep DEF Receive, NoProcess
<1>6. CASE sess[s].phase = "config"
  <2>1. proc' = [proc EXCEPT !.phase = "save", !.inv = sess[s].inv, !.sess = 0]
    BY <1>6 DEF Receive
  <2>2. sess[s].inv # 0
    BY <1>2, <1>6 DEF Shaped, MachineShaped, SessionsShaped, HasInventory
  <2>3. proc' \in Process /\ proc'.mode = proc.mode /\ ProcessShaped'
    BY <1>2, <2>1, <2>2 DEF Shaped, MachineShaped, MachineTypes, Process, Session,
                            ProcessShaped, HasConfig, NetworkPhases
  <2> QED
    BY <1>1, <1>4, <2>3, ProcessStep DEF Receive
<1> QED
  BY <1>5, <1>6 DEF Receive

\* An elemental-register that ends without an effect on the machine.
LEMMA ProcessEndsTyped ==
  ASSUME Shaped, DialFails \/ LoseConnection \/ InstallFails \/ ResetFails
  PROVE  OperatorTypes' /\ MachineShaped'
<1>1. OperatorTypes'
  BY OperatorUntouched DEF DialFails, LoseConnection, InstallFails, ResetFails,
                           NoFault, Kinds
<1>2. proc.sess \in Sessions \cup {0} /\ sess \in [Sessions -> Session]
  BY DEF Shaped, MachineShaped, MachineTypes, Process
<1>3. sess' = sess \/ sess' = Untied(proc.sess)
  BY DEF DialFails, LoseConnection, InstallFails, ResetFails
<1>4. sess' \in [Sessions -> Session] /\ SessionsShaped'
  BY <1>2, <1>3, UntiedTyped
     DEF Shaped, MachineShaped, SessionsShaped, HasInventory, SameButFresh, NoSession
<1>5. proc' = NoProcess /\ UNCHANGED <<host, confirmed, broke, start>>
  BY DEF DialFails, LoseConnection, InstallFails, ResetFails
<1> QED
  BY <1>1, <1>4, <1>5, NoProcessShaped, ProcessStep DEF NoProcess

\* What a boot does to the machine.
LEMMA BootTyped ==
  ASSUME NEW h \in Host, NEW env \in {"live", "active", "recovery"}
  PROVE  LET b == Boot(h, env) IN
         /\ b \in Host
         /\ b.booted = env /\ b.plan = "none" /\ ~b.next
         /\ b.agent = h.agent /\ b.resetFile = h.resetFile
         /\ b.nm = [h.nm EXCEPT !.files = h.nm.files \/ h.nm.app,
                                !.loaded = h.nm.files \/ h.nm.app,
                                !.inUse = h.nm.files \/ h.nm.app]
<1> DEFINE f == h.nm.files \/ h.nm.app
           n == [h.nm EXCEPT !.files = f, !.loaded = f, !.inUse = f]
<1>1. h.nm \in Network /\ f \in BOOLEAN
  BY DEF Host, Network
<1>2. n \in Network
  BY <1>1 DEF Network
<1>3. Boot(h, env) = [h EXCEPT !.booted = env, !.next = FALSE, !.plan = "none",
                               !.state = IF env = "live" THEN "absent" ELSE @,
                               !.nm = n]
  BY DEF Boot
<1> HIDE DEF n, f
<1>4. /\ Boot(h, env) \in Host
      /\ Boot(h, env).booted = env /\ Boot(h, env).plan = "none" /\ ~Boot(h, env).next
      /\ Boot(h, env).agent = h.agent /\ Boot(h, env).resetFile = h.resetFile
      /\ Boot(h, env).nm = n
  BY <1>2, <1>3 DEF Host
<1> QED
  BY <1>4 DEF n, f

\* The steps that keep the sessions: what is left to show of them.
LEMMA SessionsKept ==
  ASSUME Shaped, UNCHANGED sess, host' \in Host, proc' \in Process,
         confirmed' \subseteq Inventories, broke' \in BOOLEAN,
         ProcessShaped', PlanShaped'
  PROVE  MachineShaped'
BY DEF Shaped, MachineShaped, MachineTypes, SessionsShaped, HasInventory

LEMMA SaveTyped ==
  ASSUME Shaped, Save
  PROVE  OperatorTypes' /\ MachineShaped'
<1>1. OperatorTypes'
  BY OperatorUntouched DEF Save, NoFault
<1>2. host' \in Host
  BY DEF Save, Shaped, MachineShaped, MachineTypes, Host
<1>3. /\ host'.plan = host.plan /\ host'.next = host.next /\ host'.agent = host.agent
      /\ host'.booted = host.booted /\ host'.resetFile = host.resetFile
  BY DEF Save, Shaped, MachineShaped, MachineTypes, Host
<1>4. \/ proc' = NoProcess
      \/ /\ proc' \in Process /\ proc'.phase = "run"
         /\ proc'.mode = proc.mode /\ proc'.inv = proc.inv
  BY DEF Save, Goto, Shaped, MachineShaped, MachineTypes, Process
<1>5. ProcessShaped' /\ proc' \in Process
  BY <1>4, NoProcessShaped
     DEF Save, Shaped, MachineShaped, ProcessShaped, HasConfig, NetworkPhases
<1>6. PlanShaped'
  BY <1>3, <1>4 DEF Save, NoProcess, Shaped, MachineShaped, PlanShaped
<1> QED
  BY <1>1, <1>2, <1>5, <1>6, SessionsKept DEF Save, Shaped, MachineShaped, MachineTypes

LEMMA InstallTyped ==
  ASSUME Shaped, Install
  PROVE  OperatorTypes' /\ MachineShaped'
<1> DEFINE h == [host EXCEPT !.agent = proc.inv, !.nm.app = start.network]
           k == [host EXCEPT !.agent = proc.inv]
<1>1. OperatorTypes'
  BY OperatorUntouched DEF Install, NoFault
<1>2. host \in Host /\ proc.inv \in Inventories \cup {0} /\ proc.inv # 0
        /\ start.network \in BOOLEAN
  <2>1. start.network \in BOOLEAN
    BY RegistrationStartsAssumption DEF Shaped, IInv
  <2> QED
    BY <2>1 DEF Install, Shaped, MachineShaped, MachineTypes, Process, ProcessShaped, HasConfig
<1>3. h \in Host /\ h.agent = proc.inv /\ h.resetFile = host.resetFile
  BY <1>2 DEF Host, Network
<1>4. /\ k \in Host /\ k.agent = proc.inv /\ k.resetFile = host.resetFile
      /\ k.plan = host.plan /\ k.next = host.next /\ k.booted = host.booted
  BY <1>2 DEF Host
<1>5. host' = Boot(h, "active") \/ host' = k
  BY DEF Install, InstalledHost
<1>6. host.agent = 0 /\ confirmed = {} /\ host.plan = "none" /\ ~host.next
  BY <1>2 DEF Install, Shaped, MachineShaped, PlanShaped, Host
<1> HIDE DEF h, k
<1>7. host' \in Host /\ host'.agent # 0 /\ host'.plan = "none" /\ ~host'.next
  <2>1. CASE host' = Boot(h, "active")
    <3>1. /\ host' \in Host /\ host'.agent = h.agent /\ host'.plan = "none"
          /\ ~host'.next
      BY <1>3, <2>1, BootTyped
    <3> QED
      BY <1>2, <1>3, <3>1
  <2>2. CASE host' = k
    BY <1>2, <1>4, <1>6, <2>2
  <2> QED
    BY <1>5, <2>1, <2>2
<1>8. proc' = NoProcess /\ UNCHANGED <<sess, confirmed, broke>>
  BY DEF Install
<1>9. PlanShaped'
  BY <1>7, <1>8 DEF PlanShaped, NoProcess
<1> QED
  BY <1>1, <1>7, <1>8, <1>9, NoProcessShaped, SessionsKept
     DEF Shaped, MachineShaped, MachineTypes

LEMMA ResetTyped ==
  ASSUME Shaped, Reset
  PROVE  OperatorTypes' /\ MachineShaped'
<1>1. OperatorTypes'
  BY OperatorUntouched DEF Reset, NoFault
<1>2. host \in Host /\ proc.inv \in Inventories \cup {0} /\ proc.inv # 0
        /\ start.network \in BOOLEAN
  <2>1. start.network \in BOOLEAN
    BY RegistrationStartsAssumption DEF Shaped, IInv
  <2> QED
    BY <2>1 DEF Reset, Shaped, MachineShaped, MachineTypes, Process, ProcessShaped, HasConfig
<1>3. host.booted = "recovery" /\ ~host.next /\ host.plan = "none"
  BY <1>2 DEF Reset, Shaped, MachineShaped, PlanShaped, Host
<1>4. /\ host' \in Host /\ host'.agent = proc.inv /\ host'.plan = "none"
      /\ ~host'.next /\ host'.booted = "recovery"
  BY <1>2, <1>3 DEF Reset, Host, Network
<1>5. /\ proc' \in Process /\ proc'.phase = "cleanup" /\ proc'.mode = "reset"
      /\ proc'.inv = proc.inv
  BY DEF Reset, Goto, Shaped, MachineShaped, MachineTypes, Process
<1>6. ProcessShaped'
  BY <1>2, <1>5 DEF ProcessShaped, HasConfig, NetworkPhases
<1>7. PlanShaped'
  BY <1>2, <1>4, <1>5 DEF PlanShaped
<1> QED
  BY <1>1, <1>4, <1>5, <1>6, <1>7, SessionsKept
     DEF Reset, Shaped, MachineShaped, MachineTypes

LEMMA CleanupTyped ==
  ASSUME Shaped, cleanupResetPlan
  PROVE  OperatorTypes' /\ MachineShaped'
<1> DEFINE h == [host EXCEPT !.resetFile = FALSE]
<1>1. OperatorTypes'
  BY OperatorUntouched DEF cleanupResetPlan, NoFault
<1>2. h \in Host /\ h.agent = host.agent
  BY DEF Shaped, MachineShaped, MachineTypes, Host
<1>3. host' = Boot(h, "active")
  BY DEF cleanupResetPlan
<1> HIDE DEF h
<1>4. host' \in Host /\ host'.agent = host.agent /\ host'.plan = "none" /\ ~host'.next
  BY <1>2, <1>3, BootTyped
<1>5. proc' = NoProcess /\ UNCHANGED <<sess, confirmed, broke>>
  BY DEF cleanupResetPlan
<1>6. PlanShaped'
  BY <1>4, <1>5 DEF Shaped, MachineShaped, PlanShaped, NoProcess
<1> QED
  BY <1>1, <1>4, <1>5, <1>6, NoProcessShaped, SessionsKept
     DEF Shaped, MachineShaped, MachineTypes

----------------------------------------------------------------------------
\* A command of ResetNetworkConfig that is followed by another one.
LEMMA NetworkStepTyped ==
  ASSUME Shaped, NEW phase \in NetworkPhases, NEW nm \in Network,
         proc.mode = "network", proc.phase \in NetworkPhases \cup {"run"},
         NetworkStep(nm, phase)
  PROVE  OperatorTypes' /\ MachineShaped'
<1>1. OperatorTypes'
  BY OperatorUntouched DEF NetworkStep, NoFault
<1>2. /\ host' \in Host
      /\ host'.plan = host.plan /\ host'.next = host.next /\ host'.agent = host.agent
      /\ host'.booted = host.booted /\ host'.resetFile = host.resetFile
  BY DEF NetworkStep, Shaped, MachineShaped, MachineTypes, Host
<1>3. /\ proc' \in Process /\ proc'.phase = phase /\ proc'.mode = "network"
      /\ proc'.inv = proc.inv
  BY DEF NetworkStep, Goto, Shaped, MachineShaped, MachineTypes, Process, NetworkPhases
<1>4. proc.inv # 0
  BY DEF Shaped, MachineShaped, ProcessShaped, HasConfig, NetworkPhases
<1>5. ProcessShaped'
  BY <1>3, <1>4 DEF ProcessShaped, NetworkPhases
<1>6. PlanShaped'
  BY <1>2, <1>3 DEF NetworkStep, Shaped, MachineShaped, PlanShaped
<1> QED
  BY <1>1, <1>2, <1>3, <1>5, <1>6, SessionsKept
     DEF NetworkStep, Shaped, MachineShaped, MachineTypes

LEMMA NetworkTyped ==
  ASSUME Shaped, ResetNetworkConfig
  PROVE  OperatorTypes' /\ MachineShaped'
<1>1. host \in Host /\ host.nm \in Network
  BY DEF Shaped, MachineShaped, MachineTypes, Host
<1>2. CASE \/ RemoveApplicator \/ DeleteConnections \/ ReloadConnections
           \/ RestartNetworkManager \/ WaitOnline
  <2>1. /\ [host.nm EXCEPT !.app = FALSE] \in Network
        /\ [host.nm EXCEPT !.files = FALSE] \in Network
        /\ [host.nm EXCEPT !.loaded = host.nm.files] \in Network
        /\ [host.nm EXCEPT !.inUse = host.nm.loaded] \in Network
    BY <1>1 DEF Network
  <2>2. PICK nm \in Network, phase \in NetworkPhases :
          /\ proc.mode = "network" /\ proc.phase \in NetworkPhases \cup {"run"}
          /\ NetworkStep(nm, phase)
    BY <1>1, <1>2, <2>1
       DEF RemoveApplicator, DeleteConnections, ReloadConnections,
           RestartNetworkManager, WaitOnline, NetworkPhase, NetworkPhases
  <2> QED
    BY <2>2, NetworkStepTyped
<1>3. CASE NetworkResetFails
  <2>1. OperatorTypes'
    BY <1>3, OperatorUntouched DEF NetworkResetFails
  <2>2. proc' = NoProcess /\ UNCHANGED <<sess, host, confirmed>> /\ broke' = TRUE
    BY <1>3 DEF NetworkResetFails
  <2>3. PlanShaped'
    BY <1>3, <2>2 DEF NetworkResetFails, Shaped, MachineShaped, PlanShaped, NoProcess
  <2> QED
    BY <2>1, <2>2, <2>3, NoProcessShaped, SessionsKept
       DEF Shaped, MachineShaped, MachineTypes
<1>4. CASE NetworkAlreadyReset \/ RestartAgent
  <2>1. OperatorTypes'
    BY <1>4, OperatorUntouched DEF NetworkAlreadyReset, RestartAgent, NoFault
  <2>2. host.plan = "running" /\ ~host.next
    BY <1>4 DEF NetworkAlreadyReset, RestartAgent, NetworkPhase, Shaped,
                MachineShaped, MachineTypes, PlanShaped, Host
  <2>3. /\ host' \in Host /\ host'.agent = host.agent /\ host'.booted = host.booted
        /\ host'.resetFile = host.resetFile
        /\ host'.plan \in {"none", "done"} /\ (host'.next => host'.plan = "done")
    BY <1>1, <1>4, <2>2 DEF NetworkAlreadyReset, RestartAgent, InstructionsDone, Host
  <2>4. proc' = NoProcess /\ UNCHANGED <<sess, confirmed, broke>>
    BY <1>4 DEF NetworkAlreadyReset, RestartAgent
  <2>5. PlanShaped'
    BY <2>2, <2>3, <2>4 DEF Shaped, MachineShaped, PlanShaped, NoProcess
  <2> QED
    BY <2>1, <2>3, <2>4, <2>5, NoProcessShaped, SessionsKept
       DEF Shaped, MachineShaped, MachineTypes
<1> QED
  BY <1>2, <1>3, <1>4 DEF ResetNetworkConfig

----------------------------------------------------------------------------
LEMMA ApplyTyped ==
  ASSUME Shaped, ApplyPlan
  PROVE  OperatorTypes' /\ MachineShaped'
<1>1. OperatorTypes'
  BY OperatorUntouched DEF ApplyPlan, NoFault
<1>2. start.network \in BOOLEAN
  BY RegistrationStartsAssumption DEF Shaped, IInv
<1>3. /\ host' \in Host /\ host'.agent = host.agent /\ host'.booted = host.booted
      /\ host'.resetFile
      /\ host'.plan = (IF start.network THEN "running" ELSE "done")
      /\ host'.next = ~start.network
  BY <1>2 DEF ApplyPlan, Shaped, MachineShaped, MachineTypes, Host
<1>4. /\ proc = NoProcess /\ UNCHANGED <<sess, proc, confirmed, broke, start>>
      /\ host.agent # 0 /\ host.booted = "active" /\ host.agent \notin confirmed
  BY DEF ApplyPlan, PlanPending
<1>5. PlanShaped'
  BY <1>2, <1>3, <1>4 DEF PlanShaped, NoProcess
<1>6. ProcessShaped'
  BY <1>4, NoProcessShaped
<1> QED
  BY <1>1, <1>3, <1>4, <1>5, <1>6, SessionsKept DEF Shaped, MachineShaped, MachineTypes

LEMMA ConfirmTyped ==
  ASSUME Shaped, ConfirmPlan
  PROVE  OperatorTypes' /\ MachineShaped'
<1>1. OperatorTypes'
  BY OperatorUntouched DEF ConfirmPlan, NoFault
<1>2. /\ host.plan = "done" /\ confirmed' = confirmed \cup {host.agent}
      /\ UNCHANGED <<sess, host, proc, broke, start>>
  BY DEF ConfirmPlan
<1>3. host.agent \in Inventories
  BY <1>2 DEF Shaped, MachineShaped, MachineTypes, PlanShaped, Host
<1>4. PlanShaped'
  BY <1>2 DEF Shaped, MachineShaped, PlanShaped
<1>5. ProcessShaped'
  BY <1>2 DEF Shaped, MachineShaped, ProcessShaped, HasConfig
<1> QED
  BY <1>1, <1>2, <1>3, <1>4, <1>5, SessionsKept DEF Shaped, MachineShaped, MachineTypes

LEMMA RebootTyped ==
  ASSUME Shaped, RebootToRecovery
  PROVE  OperatorTypes' /\ MachineShaped'
<1>1. OperatorTypes'
  BY OperatorUntouched DEF RebootToRecovery, NoFault
<1>2. /\ proc = NoProcess /\ host' = Boot(host, "recovery")
      /\ UNCHANGED <<sess, proc, confirmed, broke, start>>
  BY DEF RebootToRecovery
<1>3. host' \in Host /\ host'.agent = host.agent /\ host'.plan = "none" /\ ~host'.next
  BY <1>2, BootTyped DEF Shaped, MachineShaped, MachineTypes
<1>4. PlanShaped'
  BY <1>2, <1>3 DEF Shaped, MachineShaped, PlanShaped, NoProcess
<1>5. ProcessShaped'
  BY <1>2, NoProcessShaped
<1> QED
  BY <1>1, <1>2, <1>3, <1>4, <1>5, SessionsKept DEF Shaped, MachineShaped, MachineTypes

\* Where a machine boots after a failure of the power: into recovery only
\* when the plan was done.
LEMMA PowerLossBoots ==
  ASSUME Shaped, PowerLoss
  PROVE  \E h \in Host, env \in {"live", "active", "recovery"} :
           /\ host' = Boot(h, env)
           /\ h.agent = host.agent /\ h.resetFile = host.resetFile /\ h.nm = host.nm
           /\ env = "recovery" => host.plan = "done"
<1>1. PICK cut \in {proc.phase = "save", FALSE} :
        host' = Boot([host EXCEPT !.state = IF cut THEN "cut" ELSE @],
                     IF host.booted = "live" THEN "live"
                     ELSE IF host.next THEN "recovery" ELSE "active")
  BY DEF PowerLoss
<1> DEFINE h == [host EXCEPT !.state = IF cut THEN "cut" ELSE @]
           env == IF host.booted = "live" THEN "live"
                  ELSE IF host.next THEN "recovery" ELSE "active"
<1>2. /\ h \in Host
      /\ h.agent = host.agent /\ h.resetFile = host.resetFile /\ h.nm = host.nm
  BY DEF Shaped, MachineShaped, MachineTypes, Host
<1>3. env \in {"live", "active", "recovery"} /\ (env = "recovery" => host.plan = "done")
  BY DEF Shaped, MachineShaped, PlanShaped
<1>4. host' = Boot(h, env)
  BY <1>1
<1> HIDE DEF h, env
<1> QED
  BY <1>2, <1>3, <1>4

LEMMA PowerLossTyped ==
  ASSUME Shaped, PowerLoss
  PROVE  OperatorTypes' /\ MachineShaped'
<1>1. OperatorTypes'
  BY OperatorUntouched DEF PowerLoss, NoFault, Kinds
<1>2. host' \in Host /\ host'.agent = host.agent /\ host'.plan = "none" /\ ~host'.next
  <2>1. PICK h \in Host, env \in {"live", "active", "recovery"} :
          host' = Boot(h, env) /\ h.agent = host.agent
    BY PowerLossBoots
  <2> QED
    BY <2>1, BootTyped
<1>3. proc' = NoProcess /\ UNCHANGED <<confirmed, broke>> /\ sess' = Untied(proc.sess)
  BY DEF PowerLoss
<1>4. sess' \in [Sessions -> Session] /\ SessionsShaped'
  BY <1>3, UntiedTyped
     DEF Shaped, MachineShaped, MachineTypes, Process, SessionsShaped, HasInventory,
         SameButFresh, NoSession
<1>5. PlanShaped'
  BY <1>2, <1>3 DEF Shaped, MachineShaped, PlanShaped, NoProcess
<1> QED
  BY <1>1, <1>2, <1>3, <1>4, <1>5, NoProcessShaped DEF Shaped, MachineShaped, MachineTypes

\* What happens to an inventory does not touch the machine, and of its
\* sessions only whether their copy is the latest.
LEMMA InventoryTyped ==
  ASSUME Shaped, NEW i \in Inventories,
         \/ ReleaseInventory(i) \/ DeleteInventory(i)
         \/ NetworkConfigured(i) \/ SeeInventory(i)
  PROVE  /\ OperatorTypes' /\ MachineShaped' /\ UNCHANGED <<hostVars, start>>
         /\ \A s \in Sessions : SameButFresh(sess'[s], sess[s])
<1>1. inv[i] \in Inventory /\ sess \in [Sessions -> Session]
  BY DEF Shaped, InvIInv, MachineShaped, MachineTypes
<1>2. /\ [inv[i] EXCEPT !.life = "gone"] \in Inventory
      /\ [inv[i] EXCEPT !.deleting = TRUE] \in Inventory
      /\ [inv[i] EXCEPT !.net = TRUE] \in Inventory
  BY <1>1 DEF Inventory
<1>3. UNCHANGED <<regVars, hostVars, start, faults>>
  BY DEF ReleaseInventory, DeleteInventory, NetworkConfigured, SeeInventory
<1>4. moves' \in [Kinds -> Nat]
  BY MovesTyped DEF ReleaseInventory, DeleteInventory, NetworkConfigured, SeeInventory,
                    Kinds, Shaped, OperatorTypes
<1>5. /\ invCache' \in [Inventories -> Inventory] /\ seen' \subseteq Inventories
      /\ sess' \in [Sessions -> Session]
      /\ \A s \in Sessions : SameButFresh(sess'[s], sess[s])
  <2>1. CASE SeeInventory(i)
    BY <1>1, <2>1 DEF SeeInventory, Shaped, OperatorTypes, SameButFresh
  <2>2. CASE ~SeeInventory(i)
    <3>1. PICK o \in Inventory : Write(i, o, sess)
      BY <1>2, <2>2 DEF ReleaseInventory, DeleteInventory, NetworkConfigured
    <3> QED
      BY <1>1, <3>1, WriteTyped
  <2> QED
    BY <2>1, <2>2
<1>6. OperatorTypes'
  BY <1>3, <1>4, <1>5 DEF regVars, Shaped, OperatorTypes
<1>7. MachineShaped'
  BY <1>3, <1>5 DEF hostVars, Shaped, MachineShaped, MachineTypes, SessionsShaped,
       ProcessShaped, PlanShaped, HasInventory, HasConfig, SameButFresh
<1> QED
  BY <1>3, <1>5, <1>6, <1>7

----------------------------------------------------------------------------
LEMMA MachineTyped ==
  ASSUME Shaped,
         \/ \E mode \in {"update", "install", "network", "reset"} : Run(mode)
         \/ Dial \/ DialFails \/ Receive \/ LoseConnection \/ Save
         \/ Install \/ InstallFails \/ Reset \/ ResetFails \/ cleanupResetPlan
         \/ ResetNetworkConfig
         \/ ApplyPlan \/ ConfirmPlan \/ RebootToRecovery \/ PowerLoss
  PROVE  OperatorTypes' /\ MachineShaped'
BY RunTyped, DialTyped, ReceiveTyped, ProcessEndsTyped, SaveTyped, InstallTyped,
   ResetTyped, CleanupTyped, NetworkTyped, ApplyTyped, ConfirmTyped, RebootTyped,
   PowerLossTyped

LEMMA NextShaped == Shaped /\ [Next]_vars => Shaped'
<1> SUFFICES ASSUME Shaped, [Next]_vars PROVE Shaped'
  OBVIOUS
<1>1. IInv' /\ InvIInv'
  BY NextSafe, NextCurrent DEF Shaped
<1>2. CASE UNCHANGED vars
  BY <1>1, <1>2 DEF vars, regVars, invVars, hostVars, Shaped, OperatorTypes,
       MachineShaped, MachineTypes, SessionsShaped, ProcessShaped, PlanShaped,
       HasInventory, HasConfig
<1>3. CASE RegistrationStep
  <2>1. UNCHANGED <<sess, hostVars, start>>
    BY <1>3 DEF RegistrationStep, ReconcileRegistration, RegistrationGone,
         RegistrationDeleted, TokenRefused, ServerURLMissing,
         createRBACObjectsFails, RegistrationReady, SeeRegistration,
         ServiceAccountEvent, EditToken, DeleteRegistration, LoseRbac,
         SetServerURL
  <2>2. MachineShaped'
    BY <2>1 DEF hostVars, Shaped, MachineShaped, MachineTypes, SessionsShaped,
         ProcessShaped, PlanShaped, HasInventory, HasConfig
  <2> QED
    BY <1>1, <1>3, <2>2, RegistrationStepTyped DEF Shaped
<1>4. CASE ServerSteps
  <2>1. UNCHANGED <<hostVars, start>>
    BY <1>4 DEF ServerSteps, ServerStep, Serve, ReadFails, listMachineInventories,
         createMachineInventory, updateMachineInventory, commitFails,
         writeMachineInventoryCloudConfig, handleGetFails
  <2>2. MachineShaped'
    BY <1>4, <2>1, ServerTyped DEF hostVars, Shaped, MachineShaped, MachineTypes,
         ProcessShaped, PlanShaped, HasConfig
  <2> QED
    BY <1>1, <1>4, <2>2, ServerTyped DEF Shaped
<1> QED
  BY <1>1, <1>2, <1>3, <1>4, MachineTyped, InventoryTyped DEF Next, Shaped

LEMMA InitShaped == Init => Shaped
<1> SUFFICES ASSUME Init PROVE Shaped
  OBVIOUS
<1>1. IInv /\ InvIInv
  BY InitSafe, InitCurrent
<1>2. start \in Starts
  BY DEF Init
<1>3. OperatorTypes
  <2>1. \A r \in Regs : reg[r].ready = "True" => reg[r].sa /\ reg[r].url # None
    BY <1>2, RegistrationTokensAssumption DEF Init
  <2> QED
    BY <1>1, <1>2, <2>1, RegistrationStartsAssumption, RegistrationBoundsAssumption
       DEF Init, OperatorTypes, InvIInv
<1>4. MachineTypes
  BY <1>2, RegistrationStartsAssumption, NoProcessShaped
     DEF Init, MachineTypes, Session, NoSession
<1>5. SessionsShaped /\ ProcessShaped
  BY DEF Init, SessionsShaped, ProcessShaped, HasInventory, HasConfig, NoSession,
         NoProcess, NetworkPhases
<1>6. PlanShaped
  BY <1>2, RegistrationHostsAssumption DEF Init, PlanShaped, NoProcess
<1> QED
  BY <1>1, <1>3, <1>4, <1>5, <1>6 DEF Shaped, MachineShaped

\* Every variable keeps its type, and elemental-register, its session, the
\* reset plan and what the machine booted agree on what is going on.
THEOREM ShapedAlways == Spec => []Shaped
BY InitShaped, NextShaped, PTL DEF Spec

\* Every variable keeps its type, and a registration is only ever ready with
\* the ServiceAccount and the URL the server takes from it unlooked.
THEOREM RegistrationTypes == Spec => []TypeOK
<1>1. Shaped => TypeOK
  BY DEF Shaped, IInv, InvIInv, OperatorTypes, MachineShaped, MachineTypes, TypeOK
<1> QED
  BY ShapedAlways, <1>1, PTL

----------------------------------------------------------------------------
(***************************************************************************)
(* Who creates inventories.                                                *)
(***************************************************************************)
\* A write over an inventory that is there, or of one that is not, brings
\* none into being.
NoneCreated == \A i \in Inventories : Exists(inv'[i]) => Exists(inv[i])

LEMMA WriteCreatesNone ==
  ASSUME Shaped, NEW i \in Inventories, NEW o, NEW ss, Write(i, o, ss), Exists(inv[i])
  PROVE  NoneCreated
BY DEF Write, Shaped, InvIInv, NoneCreated

LEMMA InventoryCreatesNone ==
  ASSUME Shaped, NEW i \in Inventories,
         \/ ReleaseInventory(i) \/ DeleteInventory(i)
         \/ NetworkConfigured(i) \/ SeeInventory(i)
  PROVE  NoneCreated
<1>1. CASE SeeInventory(i)
  BY <1>1 DEF SeeInventory, NoneCreated
<1>2. CASE ~SeeInventory(i)
  <2>1. PICK o : Write(i, o, sess) /\ Exists(inv[i])
    BY <1>2 DEF ReleaseInventory, DeleteInventory, NetworkConfigured
  <2> QED
    BY <2>1, WriteCreatesNone
<1> QED
  BY <1>1, <1>2

LEMMA ServerCreates ==
  ASSUME Shaped, NEW s \in Sessions, ServerStep(s)
  PROVE  \/ NoneCreated
         \/ sess[s].phase = "create" /\ sess'[s] # sess[s] /\ ~sess[s].known
<1>1. sess[s] \in Session
  BY DEF Shaped, MachineShaped, MachineTypes
<1>2. CASE createMachineInventory(s)
  <2> DEFINE ss(i) == [sess EXCEPT ![s].phase = "committed", ![s].inv = i, ![s].fresh = TRUE]
  <2>1. PICK i \in Inventories : Write(i, [Unborn EXCEPT !.life = "exists"], ss(i))
    BY <1>2 DEF createMachineInventory
  <2>2. ss(i) \in [Sessions -> Session] /\ ss(i)[s].phase = "committed"
    BY <2>1 DEF Shaped, MachineShaped, MachineTypes, Session
  <2>3. [Unborn EXCEPT !.life = "exists"] \in Inventory
    BY DEF Unborn, Inventory
  <2> HIDE DEF ss
  <2>4. sess'[s].phase = "committed"
    BY <2>1, <2>2, <2>3, WriteTyped DEF SameButFresh
  <2>5. sess[s].phase = "create"
    BY <1>2 DEF createMachineInventory
  <2>6. ~sess[s].known
    BY <2>5 DEF Shaped, MachineShaped, SessionsShaped
  <2> QED
    BY <2>4, <2>5, <2>6
<1>3. CASE updateMachineInventory(s)
  <2>1. /\ sess[s].inv \in Inventories /\ Exists(inv[sess[s].inv])
        /\ \E o, ss : Write(sess[s].inv, o, ss)
    BY <1>1, <1>3 DEF updateMachineInventory, UpdateAccepted, Session
  <2> QED
    BY <2>1, WriteCreatesNone
<1>4. CASE \/ Serve(s) \/ ReadFails(s) \/ listMachineInventories(s) \/ commitFails(s)
           \/ writeMachineInventoryCloudConfig(s) \/ handleGetFails(s)
  BY <1>4 DEF Serve, ReadFails, listMachineInventories, commitFails,
              writeMachineInventoryCloudConfig, handleGetFails, invVars, NoneCreated
<1> QED
  BY <1>2, <1>3, <1>4 DEF ServerStep

\* Everything else leaves the inventories as they are.
LEMMA OthersKeepInventories ==
  ASSUME \/ UNCHANGED vars
         \/ RegistrationStep
         \/ \E mode \in {"update", "install", "network", "reset"} : Run(mode)
         \/ Dial \/ DialFails \/ Receive \/ LoseConnection \/ Save
         \/ Install \/ InstallFails \/ Reset \/ ResetFails \/ cleanupResetPlan
         \/ ResetNetworkConfig
         \/ ApplyPlan \/ ConfirmPlan \/ RebootToRecovery \/ PowerLoss
  PROVE  UNCHANGED invVars
<1>1. CASE ResetNetworkConfig
  BY <1>1 DEF ResetNetworkConfig, NetworkAlreadyReset, RemoveApplicator,
         DeleteConnections, ReloadConnections, RestartNetworkManager,
         WaitOnline, RestartAgent, NetworkResetFails, NetworkStep
<1>2. CASE UNCHANGED vars
  BY <1>2 DEF vars
<1> QED
  BY <1>1, <1>2 DEF RegistrationStep, Run, Dial, DialFails, Receive, LoseConnection,
         Save, Install, InstallFails, Reset, ResetFails, cleanupResetPlan,
         ApplyPlan, ConfirmPlan, RebootToRecovery, PowerLoss

\* An inventory is only ever created in a session of a machine that has not
\* registered before, or has forgotten it with a reset.
THEOREM NewMachinesCreate == Spec => OnlyNewMachinesCreate
<1> DEFINE A == \A i \in Inventories : Exists(inv'[i]) /\ ~Exists(inv[i]) =>
                  \E s \in Sessions : sess[s].phase = "create" /\ sess'[s] # sess[s]
                                        /\ ~sess[s].known
<1>1. Shaped /\ [Next]_vars => [A]_vars
  <2> SUFFICES ASSUME Shaped, [Next]_vars PROVE A
    OBVIOUS
  <2>1. NoneCreated => A
    BY DEF NoneCreated
  <2>2. UNCHANGED invVars => NoneCreated
    BY DEF invVars, NoneCreated
  <2>3. CASE ServerSteps
    BY <2>1, <2>3, ServerCreates DEF ServerSteps
  <2> QED
    BY <2>1, <2>2, <2>3, InventoryCreatesNone, OthersKeepInventories DEF Next
<1> QED
  BY ShapedAlways, <1>1, PTL DEF Spec, OnlyNewMachinesCreate

----------------------------------------------------------------------------
(***************************************************************************)
(* How many inventories there are.  A session that is about to create one  *)
(* has found none in the list, which is current; only another session that *)
(* is about to do so could come in between.  With a fixed name the API     *)
(* server sees to it.                                                      *)
(***************************************************************************)
Single == \A i, j \in Inventories : Exists(inv[i]) /\ Exists(inv[j]) => i = j
NoInventory == \A i \in Inventories : ~Exists(inv[i])

Guarded == (Apart /\ "inv" \notin start.lags) \/ start.fixed

SingleInv ==
  /\ Single
  /\ \A s \in Sessions : sess[s].phase = "create" => start.fixed \/ NoInventory

\* No step but the look at the list brings a session to the creation.
NoneBegins ==
  \A s \in Sessions : sess'[s].phase = "create" => sess[s].phase = "create"

LEMMA QuietSingle ==
  ASSUME Shaped, Shaped', SingleInv, NoneCreated, NoneBegins, UNCHANGED start
  PROVE  SingleInv'
BY DEF SingleInv, Single, NoInventory, NoneCreated, NoneBegins

LEMMA CreateSingle ==
  ASSUME Shaped, Shaped', SingleInv, Guarded, NEW s \in Sessions, createMachineInventory(s)
  PROVE  SingleInv'
<1> DEFINE ss(i) == [sess EXCEPT ![s].phase = "committed", ![s].inv = i, ![s].fresh = TRUE]
<1>1. PICK i \in Inventories : Write(i, [Unborn EXCEPT !.life = "exists"], ss(i))
  BY DEF createMachineInventory
<1>2. NoInventory /\ UNCHANGED start /\ sess[s].phase = "create"
  BY DEF createMachineInventory, NameTaken, SingleInv, NoInventory
<1>3. Single'
  <2>1. inv' = [inv EXCEPT ![i] = [Unborn EXCEPT !.life = "exists"]]
    BY <1>1 DEF Write
  <2>2. \A j \in Inventories \ {i} : inv'[j] = inv[j]
    BY <2>1 DEF Shaped, InvIInv
  <2> QED
    BY <1>2, <2>2 DEF NoInventory, Single, Exists
<1>4. ss(i) \in [Sessions -> Session] /\ ss(i)[s].phase = "committed"
        /\ \A o \in Sessions \ {s} : ss(i)[o] = sess[o]
  BY <1>1 DEF Shaped, MachineShaped, MachineTypes, Session
<1>5. [Unborn EXCEPT !.life = "exists"] \in Inventory
  BY DEF Unborn, Inventory
<1> HIDE DEF ss
<1>6. /\ sess'[s].phase = "committed"
      /\ \A o \in Sessions \ {s} : sess'[o].phase = sess[o].phase
  BY <1>1, <1>4, <1>5, WriteTyped DEF SameButFresh
<1>7. start.fixed \/ \A o \in Sessions \ {s} : sess[o].phase # "create"
  BY <1>2 DEF Guarded, Apart
<1> QED
  BY <1>2, <1>3, <1>6, <1>7 DEF SingleInv

LEMMA ServerSingle ==
  ASSUME Shaped, Shaped', SingleInv, Guarded, NEW s \in Sessions, ServerStep(s)
  PROVE  SingleInv'
<1>1. sess[s] \in Session /\ sess \in [Sessions -> Session]
  BY DEF Shaped, MachineShaped, MachineTypes
<1>2. CASE createMachineInventory(s)
  BY <1>2, CreateSingle
<1>3. CASE listMachineInventories(s)
  <2>1. UNCHANGED <<inv, start>> /\ \A i \in Inventories : ~Exists(invCache[i])
    BY <1>3 DEF listMachineInventories, alreadyPresent, authMachine, invVars
  <2>2. start.fixed \/ NoInventory
    BY <2>1 DEF Guarded, Shaped, InvIInv, NoInventory
  <2> QED
    BY <2>1, <2>2 DEF SingleInv, Single, NoInventory
<1>4. CASE updateMachineInventory(s)
  <2>1. sess[s].inv \in Inventories /\ Exists(inv[sess[s].inv])
          /\ inv[sess[s].inv] \in Inventory
    BY <1>1, <1>4 DEF updateMachineInventory, UpdateAccepted, Session, Shaped, InvIInv
  <2> DEFINE ss == [sess EXCEPT ![s].phase = "committed", ![s].fresh = TRUE]
  <2>2. Write(sess[s].inv, inv[sess[s].inv], ss) /\ UNCHANGED start
    BY <1>4 DEF updateMachineInventory
  <2>3. ss \in [Sessions -> Session] /\ ss[s].phase = "committed"
          /\ \A o \in Sessions \ {s} : ss[o] = sess[o]
    BY <1>1 DEF Session
  <2> HIDE DEF ss
  <2>4. NoneCreated
    BY <2>1, <2>2, WriteCreatesNone
  <2>5. NoneBegins
    BY <2>1, <2>2, <2>3, WriteTyped DEF SameButFresh, NoneBegins
  <2> QED
    BY <2>2, <2>4, <2>5, QuietSingle
<1>5. CASE \/ Serve(s) \/ ReadFails(s) \/ commitFails(s)
           \/ writeMachineInventoryCloudConfig(s) \/ handleGetFails(s)
  <2>1. UNCHANGED <<inv, start>>
    BY <1>5 DEF Serve, ReadFails, commitFails, writeMachineInventoryCloudConfig,
                handleGetFails, invVars
  <2>2. \/ \E reply \in {"config", "error"} : End(s, reply)
        \/ sess' = [sess EXCEPT ![s].phase = "get"]
        \/ sess' = [sess EXCEPT ![s] = NoSession]
    BY <1>5 DEF Serve, ReadFails, commitFails, writeMachineInventoryCloudConfig,
                handleGetFails
  <2>3. NoneBegins
    BY <1>1, <2>2 DEF End, NoneBegins, NoSession, Session
  <2> QED
    BY <2>1, <2>3, QuietSingle DEF NoneCreated
<1> QED
  BY <1>2, <1>3, <1>4, <1>5 DEF ServerStep

\* A machine that dials, receives or goes away does not make its session
\* create anything.
LEMMA OthersSingle ==
  ASSUME Shaped, Shaped', SingleInv,
         \/ UNCHANGED vars
         \/ RegistrationStep
         \/ \E mode \in {"update", "install", "network", "reset"} : Run(mode)
         \/ Dial \/ DialFails \/ Receive \/ LoseConnection \/ Save
         \/ Install \/ InstallFails \/ Reset \/ ResetFails \/ cleanupResetPlan
         \/ ResetNetworkConfig
         \/ ApplyPlan \/ ConfirmPlan \/ RebootToRecovery \/ PowerLoss
  PROVE  SingleInv'
<1>1. NoneCreated
  BY OthersKeepInventories DEF invVars, NoneCreated
<1>2. UNCHANGED start
  <2>1. CASE ResetNetworkConfig
    BY <2>1 DEF ResetNetworkConfig, NetworkAlreadyReset, RemoveApplicator,
         DeleteConnections, ReloadConnections, RestartNetworkManager,
         WaitOnline, RestartAgent, NetworkResetFails, NetworkStep
  <2>2. CASE RegistrationStep
    BY <2>2 DEF RegistrationStep, ReconcileRegistration, RegistrationGone,
         RegistrationDeleted, TokenRefused, ServerURLMissing,
         createRBACObjectsFails, RegistrationReady, SeeRegistration,
         ServiceAccountEvent, EditToken, DeleteRegistration, LoseRbac,
         SetServerURL
  <2> QED
    BY <2>1, <2>2 DEF vars, Run, Dial, DialFails, Receive, LoseConnection, Save, Install,
         InstallFails, Reset, ResetFails, cleanupResetPlan, ApplyPlan, ConfirmPlan,
         RebootToRecovery, PowerLoss
<1>3. /\ sess \in [Sessions -> Session] /\ proc \in Process
      /\ proc.phase = "wait" => proc.sess \in Sessions
  BY DEF Shaped, MachineShaped, MachineTypes, ProcessShaped, Process
<1>4. \/ UNCHANGED sess
      \/ \E s \in Sessions : sess' = [sess EXCEPT ![s] = Opened(start.token, proc.known)]
      \/ sess' = Untied(proc.sess)
  <2>1. CASE ResetNetworkConfig
    BY <2>1 DEF ResetNetworkConfig, NetworkAlreadyReset, RemoveApplicator,
         DeleteConnections, ReloadConnections, RestartNetworkManager,
         WaitOnline, RestartAgent, NetworkResetFails, NetworkStep
  <2> QED
    BY <2>1 DEF vars, RegistrationStep, Run, Dial, DialFails, Receive, LoseConnection,
         Save, Install, InstallFails, Reset, ResetFails, cleanupResetPlan, ApplyPlan,
         ConfirmPlan, RebootToRecovery, PowerLoss
<1>5. NoneBegins
  <2>1. CASE UNCHANGED sess
    BY <2>1 DEF NoneBegins
  <2>2. CASE \E s \in Sessions : sess' = [sess EXCEPT ![s] = Opened(start.token, proc.known)]
    BY <1>3, <2>2 DEF NoneBegins, Opened
  <2>3. CASE sess' = Untied(proc.sess)
    <3>1. proc.sess \in Sessions \cup {0}
      BY <1>3 DEF Process
    <3> QED
      BY <1>3, <2>3, <3>1, UntiedTyped DEF NoneBegins, SameButFresh, NoSession
  <2> QED
    BY <1>4, <2>1, <2>2, <2>3
<1> QED
  BY <1>1, <1>2, <1>5, QuietSingle

LEMMA NextSingle ==
  Shaped /\ Shaped' /\ SingleInv /\ Guarded /\ [Next]_vars => SingleInv'
<1> SUFFICES ASSUME Shaped, Shaped', SingleInv, Guarded, [Next]_vars PROVE SingleInv'
  OBVIOUS
<1>1. ASSUME NEW i \in Inventories,
             \/ ReleaseInventory(i) \/ DeleteInventory(i)
             \/ NetworkConfigured(i) \/ SeeInventory(i)
      PROVE  SingleInv'
  <2>1. NoneBegins /\ UNCHANGED start
    BY <1>1, InventoryTyped DEF NoneBegins, SameButFresh
  <2> QED
    BY <1>1, <2>1, InventoryCreatesNone, QuietSingle
<1>2. CASE ServerSteps
  BY <1>2, ServerSingle DEF ServerSteps
<1> QED
  BY <1>1, <1>2, OthersSingle DEF Next

LEMMA InitSingle == Init => SingleInv
BY RegistrationInventoriesAssumption DEF Init, SingleInv, Single, NoSession

\* A machine has one inventory at most, whichever sessions are served, given
\* up and retried, unless two of them are past the list at once or the list
\* lags: with a fixed name not even then.
THEOREM OneInventoryAtMost == Spec => OneInventoryPerMachine
<1>1. Spec => ([]Guarded => []SingleInv)
  BY InitSingle, NextSingle, ShapedAlways, PTL DEF Spec
<1>2. SingleInv => OneInventory
  <2> SUFFICES ASSUME Single
               PROVE  Cardinality({i \in Inventories : Exists(inv[i])}) <= 1
    BY DEF SingleInv, OneInventory
  <2> DEFINE S == {i \in Inventories : Exists(inv[i])}
  <2>1. CASE S = {}
    BY <2>1, FS_EmptySet
  <2>2. CASE S # {}
    <3>1. PICK i \in S : TRUE
      BY <2>2
    <3>2. S = {i}
      BY <3>1 DEF Single
    <3>3. Cardinality({i}) = 1
      BY FS_Singleton
    <3> HIDE DEF S
    <3>4. Cardinality(S) <= 1
      BY <3>2, <3>3
    <3> QED
      BY <3>4 DEF S
  <2> QED
    BY <2>1, <2>2
<1> QED
  BY <1>1, <1>2, PTL DEF OneInventoryPerMachine, Guarded
=============================================================================
