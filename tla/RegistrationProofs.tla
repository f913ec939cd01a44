------------------------- MODULE RegistrationProofs -------------------------
(***************************************************************************)
(* What checkTokenUniqueness guarantees as long as the cached list it      *)
(* looks at is current: no two registrations ever hold one token.          *)
(***************************************************************************)
EXTENDS Registration, FiniteSetTheorems, TLAPS

\* A registration holds a token it asked for or its own, and is not another's.
Own(objects) == \A r \in Regs : OwnToken(r, objects[r])

IInv ==
  /\ start \in Starts
  /\ reg \in [Regs -> Registration] /\ regCache \in [Regs -> Registration]
  /\ Own(reg) /\ Own(regCache)
  /\ "reg" \notin start.lags => regCache = reg
  /\ DistinctTokens

\* c can be stored as registration r: no other one holds its token.
Storable(r, c) ==
  /\ c \in Registration /\ OwnToken(r, c)
  /\ "reg" \notin start.lags =>
       \A o \in Regs \ {r} : c.token # None => c.token # reg[o].token

----------------------------------------------------------------------------
LEMMA StoreSafe ==
  ASSUME IInv, NEW r \in Regs, NEW c, Storable(r, c),
         reg' = [reg EXCEPT ![r] = c], RegCacheFollows, UNCHANGED start
  PROVE  IInv'
<1> USE DEF IInv
<1>1. reg' \in [Regs -> Registration] /\ Own(reg)'
  BY DEF Storable, Own
<1>2. regCache' \in [Regs -> Registration] /\ Own(regCache)'
  BY <1>1 DEF RegCacheFollows, Own
<1>3. "reg" \notin start.lags => regCache' = reg'
  BY DEF RegCacheFollows
<1>4. DistinctTokens'
  <2> SUFFICES ASSUME "reg" \notin start.lags, NEW a \in Regs, NEW o \in Regs,
                      a # o, reg'[a].token # None
               PROVE  reg'[a].token # reg'[o].token
    BY DEF DistinctTokens
  <2>1. CASE a = r
    BY <2>1 DEF Storable
  <2>2. CASE o = r
    BY <2>2 DEF Storable
  <2>3. CASE a # r /\ o # r
    BY <2>3 DEF DistinctTokens
  <2> QED
    BY <2>1, <2>2, <2>3
<1> QED
  BY <1>1, <1>2, <1>3, <1>4

\* A write that was refused leaves everything as it is, or shows the cache
\* what is there.
LEMMA RefusedSafe ==
  ASSUME IInv, UNCHANGED <<reg, start>>, RegCacheFollows
  PROVE  IInv'
<1> USE DEF IInv
<1>1. regCache' \in [Regs -> Registration] /\ Own(regCache)'
  BY DEF RegCacheFollows, Own
<1> QED
  BY <1>1 DEF RegCacheFollows, Own, DistinctTokens

LEMMA FinishSafe ==
  ASSUME IInv, NEW r \in Regs, NEW c, Storable(r, c), UNCHANGED start,
         NEW failed, NEW failures, FinishRegistration(r, c, failed, failures)
  PROVE  IInv'
<1>1. PICK stored \in {regCache[r] = reg[r], FALSE} :
        /\ reg' = IF stored THEN [reg EXCEPT ![r] = c] ELSE reg
        /\ RegCacheFollows
  BY DEF FinishRegistration
<1>2. CASE stored
  BY <1>1, <1>2, StoreSafe
<1>3. CASE ~stored
  BY <1>1, <1>3, RefusedSafe
<1> QED
  BY <1>2, <1>3

----------------------------------------------------------------------------
\* What isReady leaves of a registration, and the token it is given next.
LEMMA KeptSafe ==
  ASSUME IInv, NEW r \in Regs
  PROVE  Storable(r, isReady(regCache[r]))
<1>1. regCache[r] \in Registration /\ OwnToken(r, regCache[r])
  BY DEF IInv, Own
<1>2. isReady(regCache[r]) \in Registration
  BY <1>1 DEF isReady, Registration, AnyToken
<1>3. OwnToken(r, isReady(regCache[r]))
  BY <1>1 DEF isReady, Registration, OwnToken
<1>4. \/ isReady(regCache[r]).token = None
      \/ isReady(regCache[r]).token = regCache[r].token
  BY <1>1 DEF isReady, Registration
<1>5. "reg" \notin start.lags /\ isReady(regCache[r]).token # None =>
        \A o \in Regs \ {r} : isReady(regCache[r]).token # reg[o].token
  <2>1. "reg" \notin start.lags =>
          \A o \in Regs \ {r} : regCache[r].token # None =>
            regCache[r].token # reg[o].token
    BY DEF IInv, DistinctTokens
  <2> QED
    BY <1>4, <2>1
<1> QED
  BY <1>2, <1>3, <1>5 DEF Storable

LEMMA TokenSafe ==
  ASSUME IInv, NEW r \in Regs, regCache[r].exists,
         ~Duplicate(r, isReady(regCache[r]))
  PROVE  Storable(r, setToken(r, isReady(regCache[r])))
<1> DEFINE c == isReady(regCache[r])
           d == setToken(r, c)
<1>1. regCache[r] \in Registration
  BY DEF IInv
<1>2. c \in Registration /\ c.exists /\ Storable(r, c)
  BY <1>1, KeptSafe DEF isReady, Registration, Storable
<1>3. ~Duplicate(r, c)
  OBVIOUS
<1> SUFFICES Storable(r, d)
  OBVIOUS
<1> HIDE DEF c
<1>4. CASE c.token # None
  <2>1. d = c
    BY <1>4 DEF setToken
  <2> QED
    BY <1>2, <2>1
<1>5. CASE c.token = None /\ c.want # None
  <2>1. d = [c EXCEPT !.token = c.want] /\ c.want \in Tokens
    BY <1>2, <1>5 DEF setToken, Registration
  <2>2. d \in Registration /\ OwnToken(r, d)
    BY <2>1, <1>2 DEF Registration, AnyToken, OwnToken
  <2>3. d.token = c.want
    BY <2>1, <1>2 DEF Registration
  <2>4. \A o \in Regs \ {r} : ~(regCache[o].exists /\ regCache[o].token = c.want)
    BY <1>5, <1>3 DEF Duplicate, checkTokenUniqueness
  <2>5. \A o \in Regs : OwnToken(o, regCache[o]) /\ regCache[o] \in Registration
    BY DEF IInv, Own
  <2>6. \A o \in Regs \ {r} : regCache[o].token # c.want
    BY <2>4, <2>5, <1>5 DEF OwnToken, Registration
  <2> QED
    BY <2>2, <2>3, <2>6 DEF Storable, IInv
<1>6. CASE c.token = None /\ c.want = None
  <2>1. d = [c EXCEPT !.token = r]
    BY <1>6 DEF setToken
  <2>2. d \in Registration /\ OwnToken(r, d) /\ d.token = r
    BY <2>1, <1>2 DEF Registration, AnyToken, OwnToken
  <2>3. \A o \in Regs : reg[o].token \in Tokens \cup {o, None}
    BY DEF IInv, Own, OwnToken
  <2> QED
    BY <2>2, <2>3, RegistrationNamesAssumption DEF Storable
<1> QED
  BY <1>4, <1>5, <1>6

\* Fields other than the token do not matter, as long as it stays there.
LEMMA SameTokenSafe ==
  ASSUME NEW r \in Regs, NEW c, NEW d \in Registration, Storable(r, c),
         d.token = c.token, d.exists = c.exists
  PROVE  Storable(r, d)
BY DEF Storable, OwnToken

----------------------------------------------------------------------------
LEMMA ReconcileSafe ==
  ASSUME IInv, NEW r \in Regs, ReconcileRegistration(r)
  PROVE  IInv'
<1> DEFINE c == isReady(regCache[r])
           d == setToken(r, c)
<1>1. CASE RegistrationGone(r)
  BY <1>1 DEF RegistrationGone, IInv, Own, DistinctTokens
<1>2. CASE RegistrationDeleted(r)
  <2>1. NoRegistration \in Registration /\ Storable(r, NoRegistration)
    BY DEF NoRegistration, Registration, AnyToken, Storable, OwnToken
  <2> QED
    BY <1>2, <2>1, StoreSafe DEF RegistrationDeleted
<1>3. CASE TokenRefused(r)
  <2> DEFINE e == [c EXCEPT !.ready = "False"]
  <2>1. Storable(r, c) /\ c \in Registration
    BY KeptSafe DEF Storable
  <2> HIDE DEF c
  <2>2. e \in Registration /\ e.token = c.token /\ e.exists = c.exists
    BY <2>1 DEF Registration
  <2>3. Storable(r, e)
    BY <2>1, <2>2, SameTokenSafe
  <2>4. FinishRegistration(r, e, TRUE, 0) /\ UNCHANGED start
    BY <1>3 DEF TokenRefused, c
  <2> QED
    BY <2>3, <2>4, FinishSafe
<1>4. ASSUME Reconcilable(r), ~Duplicate(r, c)
      PROVE  Storable(r, d) /\ d \in Registration
  BY <1>4, TokenSafe DEF Reconcilable, Storable
<1>5. CASE ServerURLMissing(r)
  <2> DEFINE e == [d EXCEPT !.ready = "False"]
  <2>1. Storable(r, d) /\ d \in Registration
    BY <1>4, <1>5 DEF ServerURLMissing
  <2>2. FinishRegistration(r, e, TRUE, IF serverURL THEN 1 ELSE 0)
          /\ UNCHANGED start
    BY <1>5 DEF ServerURLMissing
  <2> HIDE DEF d
  <2>3. e \in Registration /\ e.token = d.token /\ e.exists = d.exists
    BY <2>1 DEF Registration
  <2>4. Storable(r, e)
    BY <2>1, <2>3, SameTokenSafe
  <2> QED
    BY <2>2, <2>4, FinishSafe
<1>6. ASSUME Storable(r, d), d \in Registration
      PROVE  /\ Storable(r, [setURL(d) EXCEPT !.ready = "False"])
             /\ Storable(r, [setURL(d) EXCEPT !.ready = "True", !.sa = TRUE])
  <2> HIDE DEF d
  <2>1. setURL(d) \in Registration
    BY <1>6 DEF setURL, Registration
  <2>2. setURL(d).token = d.token /\ setURL(d).exists = d.exists
    BY <1>6 DEF setURL, Registration
  <2>3. Storable(r, setURL(d))
    BY <1>6, <2>1, <2>2, SameTokenSafe
  <2> DEFINE f == [setURL(d) EXCEPT !.ready = "False"]
             t == [setURL(d) EXCEPT !.ready = "True", !.sa = TRUE]
  <2>4. f \in Registration /\ f.token = setURL(d).token /\ f.exists = setURL(d).exists
    BY <2>1 DEF Registration
  <2>5. t \in Registration /\ t.token = setURL(d).token /\ t.exists = setURL(d).exists
    BY <2>1 DEF Registration
  <2> QED
    BY <2>3, <2>4, <2>5, SameTokenSafe
<1>7. CASE createRBACObjectsFails(r)
  <2>1. Storable(r, [setURL(d) EXCEPT !.ready = "False"])
    BY <1>4, <1>6, <1>7 DEF createRBACObjectsFails
  <2>2. FinishRegistration(r, [setURL(d) EXCEPT !.ready = "False"], TRUE, 1)
          /\ UNCHANGED start
    BY <1>7 DEF createRBACObjectsFails
  <2> QED
    BY <2>1, <2>2, FinishSafe
<1>8. CASE RegistrationReady(r)
  <2>1. Storable(r, [setURL(d) EXCEPT !.ready = "True", !.sa = TRUE])
    BY <1>4, <1>6, <1>8 DEF RegistrationReady
  <2>2. FinishRegistration(r, [setURL(d) EXCEPT !.ready = "True", !.sa = TRUE],
                           FALSE, 0) /\ UNCHANGED start
    BY <1>8 DEF RegistrationReady
  <2> QED
    BY <2>1, <2>2, FinishSafe
<1> QED
  BY <1>1, <1>2, <1>3, <1>5, <1>7, <1>8 DEF ReconcileRegistration

LEMMA SeeSafe ==
  ASSUME IInv, NEW r \in Regs, SeeRegistration(r)
  PROVE  IInv'
<1>1. regCache' = [regCache EXCEPT ![r] = reg[r]] /\ UNCHANGED <<reg, start>>
  BY DEF SeeRegistration
<1>2. regCache' \in [Regs -> Registration] /\ Own(regCache)'
  BY <1>1 DEF IInv, Own
<1>3. "reg" \notin start.lags => regCache' = reg
  BY <1>1 DEF IInv
<1> QED
  BY <1>1, <1>2, <1>3 DEF IInv, Own, DistinctTokens

LEMMA UserSafe ==
  ASSUME IInv, NEW r \in Regs, EditToken(r) \/ DeleteRegistration(r)
  PROVE  IInv'
<1>1. reg[r] \in Registration /\ Storable(r, reg[r])
  BY DEF IInv, Own, Storable, DistinctTokens
<1>2. CASE EditToken(r)
  <2>1. PICK t \in (Tokens \cup {None}) \ {reg[r].want} :
          reg' = [reg EXCEPT ![r].want = t]
    BY <1>2 DEF EditToken
  <2> DEFINE e == [reg[r] EXCEPT !.want = t]
  <2>2. e \in Registration /\ e.token = reg[r].token /\ e.exists = reg[r].exists
    BY <1>1 DEF Registration
  <2>3. Storable(r, e)
    BY <1>1, <2>2, SameTokenSafe
  <2>4. reg' = [reg EXCEPT ![r] = e]
    BY <2>1
  <2> QED
    BY <1>2, <2>3, <2>4, StoreSafe DEF EditToken
<1>3. CASE DeleteRegistration(r)
  <2> DEFINE g == [reg[r] EXCEPT !.deleting = TRUE]
  <2>1. g \in Registration /\ g.token = reg[r].token /\ g.exists = reg[r].exists
    BY <1>1 DEF Registration
  <2>2. Storable(r, g)
    BY <1>1, <2>1, SameTokenSafe
  <2>3. Storable(r, NoRegistration)
    BY DEF NoRegistration, Registration, AnyToken, Storable, OwnToken
  <2>4. \/ reg' = [reg EXCEPT ![r] = g]
        \/ reg' = [reg EXCEPT ![r] = NoRegistration]
    BY <1>3 DEF DeleteRegistration
  <2>5. RegCacheFollows /\ UNCHANGED start
    BY <1>3 DEF DeleteRegistration
  <2> QED
    BY <2>2, <2>3, <2>4, <2>5, StoreSafe
<1> QED
  BY <1>2, <1>3

----------------------------------------------------------------------------
\* The server and the machine leave the registrations alone.
LEMMA OthersSafe ==
  ASSUME IInv, UNCHANGED <<reg, regCache, start>>
  PROVE  IInv'
BY DEF IInv, Own, DistinctTokens

LEMMA RegistrationStepSafe ==
  ASSUME IInv, RegistrationStep
  PROVE  IInv'
<1>1. ASSUME NEW r \in Regs, ServiceAccountEvent(r) \/ LoseRbac(r)
      PROVE  IInv'
  BY <1>1, OthersSafe DEF ServiceAccountEvent, LoseRbac
<1>2. CASE SetServerURL
  BY <1>2, OthersSafe DEF SetServerURL
<1> QED
  BY <1>1, <1>2, ReconcileSafe, SeeSafe, UserSafe DEF RegistrationStep

LEMMA ServerSafe ==
  ASSUME IInv, ServerSteps
  PROVE  IInv'
<1>1. PICK s \in Sessions : ServerStep(s)
  BY DEF ServerSteps
<1>2. UNCHANGED <<reg, regCache, start>>
  BY <1>1 DEF ServerStep, Serve, ReadFails, listMachineInventories, createMachineInventory,
              updateMachineInventory, commitFails,
              writeMachineInventoryCloudConfig, handleGetFails, regVars
<1> QED
  BY <1>2, OthersSafe

LEMMA HostSafe ==
  ASSUME IInv,
         \/ \E mode \in {"update", "install", "network", "reset"} : Run(mode)
         \/ Dial \/ DialFails \/ Receive \/ LoseConnection \/ Save
         \/ Install \/ InstallFails \/ Reset \/ ResetFails \/ cleanupResetPlan
  PROVE  IInv'
<1>1. UNCHANGED <<reg, regCache, start>>
  BY DEF Run, Dial, DialFails, Receive, LoseConnection, Save, Install,
         InstallFails, Reset, ResetFails, cleanupResetPlan, regVars
<1> QED
  BY <1>1, OthersSafe

LEMMA ResetSafe ==
  ASSUME IInv,
         \/ ResetNetworkConfig
         \/ ApplyPlan \/ ConfirmPlan \/ RebootToRecovery \/ PowerLoss
  PROVE  IInv'
<1>1. CASE ResetNetworkConfig
  <2>1. UNCHANGED <<reg, regCache, start>>
    BY <1>1 DEF ResetNetworkConfig, NetworkAlreadyReset, RemoveApplicator,
                DeleteConnections, ReloadConnections, RestartNetworkManager,
                WaitOnline, RestartAgent, NetworkResetFails, NetworkStep, regVars
  <2> QED
    BY <2>1, OthersSafe
<1>2. CASE ApplyPlan \/ ConfirmPlan \/ RebootToRecovery \/ PowerLoss
  <2>1. UNCHANGED <<reg, regCache, start>>
    BY <1>2 DEF ApplyPlan, ConfirmPlan, RebootToRecovery, PowerLoss, regVars
  <2> QED
    BY <2>1, OthersSafe
<1> QED
  BY <1>1, <1>2

LEMMA InventorySafe ==
  ASSUME IInv, NEW i \in Inventories,
         \/ ReleaseInventory(i) \/ DeleteInventory(i)
         \/ NetworkConfigured(i) \/ SeeInventory(i)
  PROVE  IInv'
<1>1. UNCHANGED <<reg, regCache, start>>
  BY DEF ReleaseInventory, DeleteInventory, NetworkConfigured, SeeInventory, regVars
<1> QED
  BY <1>1, OthersSafe

----------------------------------------------------------------------------
LEMMA InitSafe == Init => IInv
<1> SUFFICES ASSUME Init PROVE IInv
  OBVIOUS
<1>1. start \in Starts /\ reg = start.regs /\ regCache = reg
  BY DEF Init
<1>2. reg \in [Regs -> Registration]
  BY <1>1, RegistrationStartsAssumption
<1>3. \A r, o \in Regs :
        /\ OwnToken(r, reg[r])
        /\ r # o /\ reg[r].token # None => reg[r].token # reg[o].token
  BY <1>1, RegistrationTokensAssumption
<1> QED
  BY <1>1, <1>2, <1>3 DEF IInv, Own, DistinctTokens

LEMMA NextSafe == IInv /\ [Next]_vars => IInv'
<1> SUFFICES ASSUME IInv, [Next]_vars PROVE IInv'
  OBVIOUS
<1>1. CASE UNCHANGED vars
  BY <1>1, OthersSafe DEF vars, regVars
<1>2. CASE Next
  BY <1>2, RegistrationStepSafe, ServerSafe, HostSafe, ResetSafe, InventorySafe
     DEF Next
<1> QED
  BY <1>1, <1>2

\* With a current cache two registrations never hold one token, whatever
\* the number of registrations, the tokens asked for and the faults.
THEOREM TokensAreDistinct == Spec => []DistinctTokens
<1>1. IInv => DistinctTokens
  BY DEF IInv
<1> QED
  BY InitSafe, NextSafe, <1>1, PTL DEF Spec

----------------------------------------------------------------------------
(***************************************************************************)
(* The inventories and the cached list, which is current unless it lags.   *)
(***************************************************************************)
InvIInv ==
  /\ inv \in [Inventories -> Inventory]
  /\ "inv" \notin start.lags => invCache = inv

LEMMA WriteCurrent ==
  ASSUME InvIInv, NEW i, NEW o \in Inventory, NEW ss, Write(i, o, ss),
         UNCHANGED start
  PROVE  InvIInv'
<1>1. inv' = [inv EXCEPT ![i] = o]
  BY DEF Write
<1>2. inv' \in [Inventories -> Inventory]
  BY <1>1 DEF InvIInv
<1>3. "inv" \notin start.lags => invCache' = inv'
  BY DEF Write
<1> QED
  BY <1>2, <1>3 DEF InvIInv

LEMMA CreateCurrent ==
  ASSUME InvIInv, NEW s \in Sessions, createMachineInventory(s)
  PROVE  InvIInv'
<1>1. \E i \in Inventories : \E ss : Write(i, [Unborn EXCEPT !.life = "exists"], ss)
  BY DEF createMachineInventory
<1>2. [Unborn EXCEPT !.life = "exists"] \in Inventory
  BY DEF Unborn, Inventory
<1> QED
  BY <1>1, <1>2, WriteCurrent DEF createMachineInventory

LEMMA ServerCurrent ==
  ASSUME InvIInv, ServerSteps
  PROVE  InvIInv'
<1>1. PICK s \in Sessions : ServerStep(s)
  BY DEF ServerSteps
<1>2. CASE updateMachineInventory(s)
  <2> DEFINE i == sess[s].inv
             ss == [sess EXCEPT ![s].phase = "committed", ![s].fresh = TRUE]
  <2>1. Write(i, inv[i], ss) /\ UNCHANGED start
    BY <1>2 DEF updateMachineInventory
  <2>2. CASE i \in Inventories
    <3>1. inv[i] \in Inventory
      BY <2>2 DEF InvIInv
    <3> HIDE DEF ss, i
    <3> QED
      BY <2>1, <3>1, WriteCurrent
  <2>3. CASE i \notin Inventories
    <3>1. inv' = inv
      BY <2>1, <2>3 DEF Write, InvIInv
    <3> QED
      BY <2>1, <3>1 DEF Write, InvIInv
  <2> QED
    BY <2>2, <2>3
<1>3. CASE \/ Serve(s) \/ ReadFails(s) \/ listMachineInventories(s) \/ commitFails(s)
           \/ writeMachineInventoryCloudConfig(s) \/ handleGetFails(s)
  BY <1>3 DEF Serve, ReadFails, listMachineInventories, commitFails,
              writeMachineInventoryCloudConfig, handleGetFails, invVars, InvIInv
<1> QED
  BY <1>1, <1>2, <1>3, CreateCurrent DEF ServerStep

LEMMA InventoryCurrent ==
  ASSUME InvIInv, NEW i \in Inventories,
         \/ ReleaseInventory(i) \/ DeleteInventory(i)
         \/ NetworkConfigured(i) \/ SeeInventory(i)
  PROVE  InvIInv'
<1>1. inv[i] \in Inventory
  BY DEF InvIInv
<1>2. /\ [inv[i] EXCEPT !.life = "gone"] \in Inventory
      /\ [inv[i] EXCEPT !.deleting = TRUE] \in Inventory
      /\ [inv[i] EXCEPT !.net = TRUE] \in Inventory
  BY <1>1 DEF Inventory
<1>3. CASE ReleaseInventory(i)
  BY <1>2, <1>3, WriteCurrent DEF ReleaseInventory
<1>4. CASE DeleteInventory(i)
  BY <1>2, <1>4, WriteCurrent DEF DeleteInventory
<1>5. CASE NetworkConfigured(i)
  BY <1>2, <1>5, WriteCurrent DEF NetworkConfigured
<1>6. CASE SeeInventory(i)
  BY <1>6 DEF SeeInventory, InvIInv
<1> QED
  BY <1>3, <1>4, <1>5, <1>6

\* Everything else leaves the inventories alone.
LEMMA OthersCurrent ==
  ASSUME InvIInv,
         \/ RegistrationStep
         \/ \E mode \in {"update", "install", "network", "reset"} : Run(mode)
         \/ Dial \/ DialFails \/ Receive \/ LoseConnection \/ Save
         \/ Install \/ InstallFails \/ Reset \/ ResetFails \/ cleanupResetPlan
         \/ ResetNetworkConfig
         \/ ApplyPlan \/ ConfirmPlan \/ RebootToRecovery \/ PowerLoss
  PROVE  InvIInv'
<1>1. UNCHANGED <<inv, invCache, start>> => InvIInv'
  BY DEF InvIInv
<1>2. CASE RegistrationStep
  <2>1. UNCHANGED start
    BY <1>2 DEF RegistrationStep, ReconcileRegistration, RegistrationGone,
         RegistrationDeleted, TokenRefused, ServerURLMissing,
         createRBACObjectsFails, RegistrationReady, SeeRegistration,
         ServiceAccountEvent, EditToken, DeleteRegistration, LoseRbac,
         SetServerURL
  <2> QED
    BY <1>1, <1>2, <2>1 DEF RegistrationStep, invVars
<1>3. CASE \/ \E mode \in {"update", "install", "network", "reset"} : Run(mode)
           \/ Dial \/ DialFails \/ Receive \/ LoseConnection \/ Save
           \/ Install \/ InstallFails \/ Reset \/ ResetFails \/ cleanupResetPlan
  BY <1>1, <1>3 DEF Run, Dial, DialFails, Receive, LoseConnection, Save, Install,
         InstallFails, Reset, ResetFails, cleanupResetPlan, invVars
<1>4. CASE ResetNetworkConfig
  BY <1>1, <1>4 DEF ResetNetworkConfig, NetworkAlreadyReset, RemoveApplicator,
         DeleteConnections, ReloadConnections, RestartNetworkManager,
         WaitOnline, RestartAgent, NetworkResetFails, NetworkStep, invVars
<1>5. CASE ApplyPlan \/ ConfirmPlan \/ RebootToRecovery \/ PowerLoss
  BY <1>1, <1>5 DEF ApplyPlan, ConfirmPlan, RebootToRecovery, PowerLoss, invVars
<1> QED
  BY <1>2, <1>3, <1>4, <1>5

LEMMA InitCurrent == Init => InvIInv
<1> SUFFICES ASSUME Init PROVE InvIInv
  OBVIOUS
<1>1. start \in Starts /\ inv = start.invs /\ invCache = inv
  BY DEF Init
<1>2. inv \in [Inventories -> Inventory]
  BY <1>1, RegistrationStartsAssumption
<1> QED
  BY <1>1, <1>2, RegistrationInventoriesAssumption DEF InvIInv

LEMMA NextCurrent == InvIInv /\ [Next]_vars => InvIInv'
<1> SUFFICES ASSUME InvIInv, [Next]_vars PROVE InvIInv'
  OBVIOUS
<1>1. CASE UNCHANGED vars
  BY <1>1 DEF vars, invVars, InvIInv
<1> QED
  BY <1>1, ServerCurrent, InventoryCurrent, OthersCurrent DEF Next
=============================================================================
