------------------------- MODULE RegistrationServer -------------------------
(***************************************************************************)
(* The registration API of the operator: the sessions of one machine, each *)
(* served by a goroutine of its own, and the MachineInventories they       *)
(* commit.  Server and machine take turns, so a session is a phase and not *)
(* a pair of channels; a step of the server covers what it reads, does and *)
(* writes between two answers of the machine.                              *)
(*                                                                         *)
(* What the machine sends is merged into labels and annotations, and names *)
(* are made from templates; only whether MachineName is fixed matters.     *)
(***************************************************************************)
EXTENDS MachineRegistration

Inventories == 1..MaxInventories
Sessions    == {1, 2}

\* All of them have the hash of the one machine.  A slot is used once; net: the
\* NetworkConfigReady condition is there.
Inventory == [life : {"unborn", "exists", "gone"}, deleting : BOOLEAN, net : BOOLEAN]
Unborn == [life |-> "unborn", deleting |-> FALSE, net |-> FALSE]
Exists(o) == o.life = "exists"

(***************************************************************************)
(* phase: what the session waits for, or the reply it ended with.  inv: 0  *)
(* for a new inventory.  fresh: its copy of inv is the latest.  known: the *)
(* machine's state says it has registered before.  tied: the machine has   *)
(* not gone away.                                                          *)
(***************************************************************************)
Session ==
  [phase : {"none", "open", "get", "create", "committed", "config", "error"},
   reg : Regs \cup {None}, inv : Inventories \cup {0}, fresh : BOOLEAN,
   known : BOOLEAN, tied : BOOLEAN]
NoSession ==
  [phase |-> "none", reg |-> None, inv |-> 0, fresh |-> FALSE,
   known |-> FALSE, tied |-> FALSE]

VARIABLES
  inv,        \* inv[i]: the i-th MachineInventory on the server
  invCache,   \* the same objects in the informer cache
  seen,       \* inventories of which the cache has the latest version
  sess        \* sess[s]: a session and the goroutine that serves it

invVars == <<inv, invCache, seen>>

\* A write of inventory i; the session that makes it, if any, has the result.
Write(i, o, ss) ==
  /\ inv' = [inv EXCEPT ![i] = o]
  /\ IF "inv" \in start.lags
       THEN invCache' = invCache /\ seen' = seen \ {i}
       ELSE invCache' = inv' /\ seen' = seen
  /\ sess' = [s \in Sessions |->
               IF ss[s].inv = i /\ ss[s] = sess[s] /\ ss[s].phase # "none"
                 THEN [ss[s] EXCEPT !.fresh = FALSE] ELSE ss[s]]

\* The session ends; a machine that still waits gets the reply.
End(s, reply) ==
  sess' = [sess EXCEPT ![s] = IF @.tied THEN [@ EXCEPT !.phase = reply]
                              ELSE NoSession]

----------------------------------------------------------------------------
\* Two registrations with one token are refused, as is one that is not ready.
getMachineRegistration(t) ==
  LET found == {r \in Regs : regCache[r].exists /\ regCache[r].token = t} IN
  IF Cardinality(found) = 1 THEN {r \in found : regCache[r].ready = "True"} ELSE {}

\* The inventories with the machine's hash: two of them are refused, too.
authMachine == {i \in Inventories : Exists(invCache[i])}

Accepts(t) == getMachineRegistration(t) # {} /\ Cardinality(authMachine) <= 1

\* apiRegistration up to MsgReady.
Opened(t, known) ==
  [phase |-> "open", known |-> known, tied |-> TRUE,
   reg |-> CHOOSE r \in getMachineRegistration(t) : TRUE,
   inv |-> IF authMachine = {} THEN 0 ELSE CHOOSE i \in authMachine : TRUE,
   fresh |-> authMachine \subseteq seen]

\* Mutant: a machine without inventory may update it.
handleUpdateAlways(s) == TRUE

handleUpdate(s) == sess[s].inv # 0

\* serveLoop: the machine sends MsgUpdate if it has registered before, then
\* its data and MsgGet.
Serve(s) ==
  /\ sess[s].phase = "open" /\ sess[s].tied
  /\ IF sess[s].known /\ ~handleUpdate(s)
       THEN End(s, "error")
       ELSE sess' = [sess EXCEPT ![s].phase = "get"]
  /\ UNCHANGED <<regVars, invVars, start, moves, faults>>

\* The machine has gone: the next read fails.
ReadFails(s) ==
  /\ sess[s].phase = "open" /\ ~sess[s].tied
  /\ sess' = [sess EXCEPT ![s] = NoSession]
  /\ UNCHANGED <<regVars, invVars, start, moves, faults>>

(***************************************************************************)
(* commitMachineInventory, whether the machine still waits or not.  A new  *)
(* inventory is looked for in the cached list once more; nothing keeps     *)
(* another session from doing the same before this one creates it.         *)
(***************************************************************************)
\* Mutant: the list is not looked at a second time.
alreadyPresentNever(s) == FALSE

alreadyPresent(s) == authMachine # {}

NameTaken == start.fixed /\ \E i \in Inventories : Exists(inv[i])

listMachineInventories(s) ==
  /\ sess[s].phase = "get" /\ sess[s].inv = 0
  /\ ~alreadyPresent(s)
  /\ sess' = [sess EXCEPT ![s].phase = "create"]
  /\ UNCHANGED <<regVars, invVars, start, moves, faults>>

createMachineInventory(s) ==
  /\ sess[s].phase = "create"
  /\ ~NameTaken
  /\ \E i \in Inventories :
       /\ inv[i] = Unborn /\ \A j \in 1..(i - 1) : inv[j] # Unborn
       /\ Write(i, [Unborn EXCEPT !.life = "exists"],
                [sess EXCEPT ![s].phase = "committed", ![s].inv = i,
                             ![s].fresh = TRUE])
  /\ UNCHANGED <<regVars, start, moves, faults>>

\* Mutant: a conflict, or an inventory that is gone, is no error.
UpdateAcceptedAlways(s) == TRUE

\* Mutant: the copy has lost the resourceVersion an update must have.
UpdateAcceptedNever(s) == FALSE

\* The API server compares the resourceVersion the copy was read with.
UpdateAccepted(s) == sess[s].fresh /\ Exists(inv[sess[s].inv])

updateMachineInventory(s) ==
  /\ sess[s].phase = "get" /\ sess[s].inv # 0
  /\ UpdateAccepted(s)
  /\ Write(sess[s].inv, inv[sess[s].inv],
           [sess EXCEPT ![s].phase = "committed", ![s].fresh = TRUE])
  /\ UNCHANGED <<regVars, start, moves, faults>>

CommitRefused(s) ==
  \/ sess[s].phase = "create" /\ NameTaken
  \/ sess[s].phase = "get" /\ sess[s].inv = 0 /\ alreadyPresent(s)
  \/ sess[s].phase = "get" /\ sess[s].inv # 0 /\ ~UpdateAccepted(s)

commitFails(s) ==
  /\ sess[s].phase \in {"get", "create"}
  /\ (CommitRefused(s) /\ NoFault) \/ Fault
  /\ End(s, "error")
  /\ UNCHANGED <<regVars, invVars, start, moves>>

(***************************************************************************)
(* handleGet after the commit: the NetworkConfigReady condition is waited  *)
(* for, with either status, on cached copies of the inventory; the config  *)
(* takes the token of the registration's ServiceAccount and the setting.   *)
(***************************************************************************)
NetworkKnown(s) == Exists(invCache[sess[s].inv]) /\ invCache[sess[s].inv].net

CanConfigure(s) == {"sa", "secret"} \subseteq rbac[sess[s].reg] /\ serverURL

writeMachineInventoryCloudConfig(s) ==
  /\ sess[s].phase = "committed"
  /\ NetworkKnown(s) /\ CanConfigure(s)
  /\ End(s, "config")
  /\ UNCHANGED <<regVars, invVars, start, moves, faults>>

handleGetFails(s) ==
  /\ sess[s].phase = "committed"
  /\ \/ ~NetworkKnown(s) /\ NoFault   \* not in the cache, or the time is up
     \/ ~CanConfigure(s) /\ NoFault
     \/ Fault
  /\ End(s, "error")
  /\ UNCHANGED <<regVars, invVars, start, moves>>

ServerStep(s) ==
  \/ Serve(s) \/ ReadFails(s)
  \/ listMachineInventories(s) \/ createMachineInventory(s)
  \/ updateMachineInventory(s) \/ commitFails(s)
  \/ writeMachineInventoryCloudConfig(s) \/ handleGetFails(s)
=============================================================================
