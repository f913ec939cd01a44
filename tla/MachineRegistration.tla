------------------------ MODULE MachineRegistration ------------------------
(***************************************************************************)
(* MachineRegistrations and their controller: the registration token and   *)
(* URL, and the RBAC objects whose token secret registered machines use.   *)
(*                                                                         *)
(* Registrations are read from an informer cache.  A reconcile patches its *)
(* registration last, with the resourceVersion it read, so it is one step; *)
(* what ends it half-way is a Fault.                                       *)
(***************************************************************************)
EXTENDS Naturals, FiniteSets

CONSTANTS
  Regs,            \* names of MachineRegistrations
  Tokens,          \* tokens the user may ask for in Spec.Token
  None,            \* no token
  MaxInventories,  \* bound: MachineInventories ever created
  MaxFaults,       \* bound: calls and commands that fail
  Starts           \* where to start from, with bounds on what others do

\* The token randomtoken.Generate makes for a registration is its own: r.
AnyToken == Tokens \cup Regs \cup {None}

RbacObjects == {"role", "sa", "secret", "binding"}

\* held: a finalizer; want: Spec.Token; url: the token the URL ends with;
\* sa: Status.ServiceAccountRef is set.
Registration ==
  [exists : BOOLEAN, deleting : BOOLEAN, held : BOOLEAN,
   want : Tokens \cup {None}, ready : {"none", "True", "False"},
   token : AnyToken, url : AnyToken, sa : BOOLEAN]

NoRegistration ==
  [exists |-> FALSE, deleting |-> FALSE, held |-> FALSE, want |-> None,
   ready |-> "none", token |-> None, url |-> None, sa |-> FALSE]

NewRegistration(t) == [NoRegistration EXCEPT !.exists = TRUE, !.want = t]

ReadyRegistration(t) ==
  [NewRegistration(t) EXCEPT !.ready = "True", !.token = t, !.url = t, !.sa = TRUE]

\* What others do: edit Spec.Token, delete a registration, delete its RBAC
\* objects, delete a MachineInventory, cut a connection, cut the power.
Kinds == {"token", "remove", "rbac", "delete", "lose", "power"}

ASSUME RegistrationBoundsAssumption ==
  MaxInventories \in Nat /\ MaxFaults \in Nat

ASSUME RegistrationNamesAssumption ==
  /\ Tokens \cap Regs = {}
  /\ None \notin Tokens \cup Regs

VARIABLES
  reg,        \* reg[r]: the MachineRegistration on the server
  regCache,   \* the same objects in the informer cache
  regQueue,   \* registrations in the work queue of the controller
  rbac,       \* rbac[r]: the RBAC objects of registration r that exist
  saNote,     \* registrations with an undelivered event of their ServiceAccount
  serverURL,  \* the server-url setting has a value
  start,      \* where the behaviour started
  moves,      \* moves of each kind others have left
  faults      \* faults so far

regVars == <<reg, regCache, regQueue, rbac, saNote, serverURL>>

Fault   == faults < MaxFaults /\ faults' = faults + 1
NoFault == UNCHANGED faults
Move(kind) == moves[kind] > 0 /\ moves' = [moves EXCEPT ![kind] = @ - 1]

\* The cache after a write, when it does not lag.
RegCacheFollows ==
  regCache' = IF "reg" \in start.lags THEN regCache ELSE reg'

(***************************************************************************)
(* Update events of a registration are only queued when something other    *)
(* than its status has changed.                                            *)
(***************************************************************************)
SpecPart(c) == <<c.exists, c.deleting, c.held, c.want>>
ignoreIncrementalStatusUpdate(old, new) == SpecPart(old) # SpecPart(new)

----------------------------------------------------------------------------
(***************************************************************************)
(* isReady forgets the token and the URL of a ready registration whose     *)
(* Spec.Token names another token.  Otherwise it looks for a Secret with   *)
(* the name of the registration itself.  createRBACObjects appends a       *)
(* suffix to that name, so there is none and isReady never holds.          *)
(***************************************************************************)
\* Mutant: the URL with the old token is kept.
isReadyKeepingURL(c) ==
  IF c.ready = "True" /\ c.want # None /\ c.token # c.want
    THEN [c EXCEPT !.token = None] ELSE c

isReady(c) ==
  IF c.ready = "True" /\ c.want # None /\ c.token # c.want
    THEN [c EXCEPT !.token = None, !.url = None] ELSE c

\* Mutant: a token in use by another registration is accepted.
checkTokenUniquenessNever(r, t) == TRUE

checkTokenUniqueness(r, t) ==
  \A o \in Regs \ {r} : ~(regCache[o].exists /\ regCache[o].token = t)

\* A token once set is kept here, whatever Spec.Token says.
setToken(r, c) ==
  IF c.token # None THEN c
  ELSE [c EXCEPT !.token = IF c.want # None THEN c.want ELSE r]

\* Mutant: the URL is not made with the token.
setURLForgotten(c) == c

setURL(c) == IF c.url # None THEN c ELSE [c EXCEPT !.url = c.token]

Duplicate(r, c) ==
  c.token = None /\ c.want # None /\ ~checkTokenUniqueness(r, c.want)

(***************************************************************************)
(* The closing patches of Reconcile, c being the copy to store: refused if *)
(* the copy it was made from is not the latest, and then, as after an      *)
(* error, the registration is queued again.  That it is not found is no    *)
(* error.                                                                  *)
(***************************************************************************)
FinishRegistration(r, c, failed, failures) ==
  \E stored \in {regCache[r] = reg[r], FALSE} :
    LET lost == IF regCache[r] = reg[r] /\ ~stored THEN 1 ELSE 0 IN
    /\ faults + failures + lost <= MaxFaults
    /\ faults' = faults + failures + lost
    /\ reg' = IF stored THEN [reg EXCEPT ![r] = c] ELSE reg
    /\ regQueue' = IF failed \/ (reg[r].exists /\ ~stored) THEN regQueue
                   ELSE regQueue \ {r}
    /\ RegCacheFollows

\* Objects created for a registration that is gone are collected at once.
\* ServiceAccounts are watched without a filter.
Created(r, objects) ==
  /\ rbac' = IF reg[r].exists THEN [rbac EXCEPT ![r] = @ \cup objects] ELSE rbac
  /\ saNote' = IF "sa" \in objects \ rbac[r] THEN saNote \cup {r} ELSE saNote

RegistrationGone(r) ==
  /\ r \in regQueue /\ ~regCache[r].exists
  /\ regQueue' = regQueue \ {r}
  /\ UNCHANGED <<reg, regCache, rbac, saNote, serverURL, start, moves, faults>>

\* The finalizer older versions have set is removed: the registration goes.
RegistrationDeleted(r) ==
  /\ r \in regQueue /\ regCache[r].deleting
  /\ reg' = [reg EXCEPT ![r] = NoRegistration]
  /\ rbac' = [rbac EXCEPT ![r] = {}]
  /\ regQueue' = regQueue \ {r}
  /\ RegCacheFollows
  /\ UNCHANGED <<saNote, serverURL, start, moves, faults>>

Reconcilable(r) == r \in regQueue /\ regCache[r].exists /\ ~regCache[r].deleting

\* DuplicateToken: what isReady has forgotten stays forgotten.
TokenRefused(r) ==
  LET c == isReady(regCache[r]) IN
  /\ Reconcilable(r) /\ Duplicate(r, c)
  /\ FinishRegistration(r, [c EXCEPT !.ready = "False"], TRUE, 0)
  /\ UNCHANGED <<rbac, saNote, serverURL, start, moves>>

\* MissingTokenOrServerURL: the setting has no value, or cannot be read.
ServerURLMissing(r) ==
  LET c == isReady(regCache[r]) IN
  /\ Reconcilable(r) /\ ~Duplicate(r, c)
  /\ c.url = None
  /\ FinishRegistration(r, [setToken(r, c) EXCEPT !.ready = "False"], TRUE,
                        IF serverURL THEN 1 ELSE 0)
  /\ UNCHANGED <<rbac, saNote, serverURL, start, moves>>

\* RbacCreationFailure: the objects before the one that failed exist now.
createRBACObjectsFails(r) ==
  LET c == setURL(setToken(r, isReady(regCache[r]))) IN
  /\ Reconcilable(r) /\ ~Duplicate(r, isReady(regCache[r]))
  /\ serverURL \/ isReady(regCache[r]).url # None
  /\ \E objects \in {{}, {"role"}, {"role", "sa"}, {"role", "sa", "secret"}} :
       Created(r, objects)
  /\ FinishRegistration(r, [c EXCEPT !.ready = "False"], TRUE, 1)
  /\ UNCHANGED <<serverURL, start, moves>>

RegistrationReady(r) ==
  LET c == setURL(setToken(r, isReady(regCache[r]))) IN
  /\ Reconcilable(r) /\ ~Duplicate(r, isReady(regCache[r]))
  /\ serverURL \/ isReady(regCache[r]).url # None
  /\ Created(r, RbacObjects)
  /\ FinishRegistration(r, [c EXCEPT !.ready = "True", !.sa = TRUE], FALSE, 0)
  /\ UNCHANGED <<serverURL, start, moves>>

ReconcileRegistration(r) ==
  \/ RegistrationGone(r) \/ RegistrationDeleted(r)
  \/ TokenRefused(r) \/ ServerURLMissing(r)
  \/ createRBACObjectsFails(r) \/ RegistrationReady(r)

----------------------------------------------------------------------------
(***************************************************************************)
(* The informers.  A ServiceAccount that was created or deleted queues its *)
(* registration.                                                           *)
(***************************************************************************)
SeeRegistration(r) ==
  /\ regCache[r] # reg[r]
  /\ regCache' = [regCache EXCEPT ![r] = reg[r]]
  /\ regQueue' = IF ignoreIncrementalStatusUpdate(regCache[r], reg[r])
                   THEN regQueue \cup {r} ELSE regQueue
  /\ UNCHANGED <<reg, rbac, saNote, serverURL, start, moves, faults>>

ServiceAccountEvent(r) ==
  /\ r \in saNote
  /\ saNote' = saNote \ {r}
  /\ regQueue' = regQueue \cup {r}
  /\ UNCHANGED <<reg, regCache, rbac, serverURL, start, moves, faults>>

----------------------------------------------------------------------------
(***************************************************************************)
(* The user edits and deletes registrations; a restored backup lacks the   *)
(* token secret or the ServiceAccount; the server-url gets its value.      *)
(***************************************************************************)
Queued(r) == IF "reg" \in start.lags THEN regQueue ELSE regQueue \cup {r}

EditToken(r) ==
  /\ Move("token")
  /\ reg[r].exists /\ ~reg[r].deleting
  /\ \E t \in (Tokens \cup {None}) \ {reg[r].want} :
       reg' = [reg EXCEPT ![r].want = t]
  /\ regQueue' = Queued(r)
  /\ RegCacheFollows
  /\ UNCHANGED <<rbac, saNote, serverURL, start, faults>>

DeleteRegistration(r) ==
  /\ Move("remove")
  /\ reg[r].exists /\ ~reg[r].deleting
  /\ reg' = [reg EXCEPT ![r] = IF @.held THEN [@ EXCEPT !.deleting = TRUE]
                               ELSE NoRegistration]
  /\ rbac' = [rbac EXCEPT ![r] = IF reg[r].held THEN @ ELSE {}]
  /\ regQueue' = Queued(r)
  /\ RegCacheFollows
  /\ UNCHANGED <<saNote, serverURL, start, faults>>

\* The Secret is not watched; the ServiceAccount takes its Secret along.
LoseRbac(r) ==
  /\ Move("rbac")
  /\ \E objects \in {{"secret"}, {"sa", "secret"}} :
       /\ objects \subseteq rbac[r]
       /\ rbac' = [rbac EXCEPT ![r] = @ \ objects]
       /\ saNote' = IF "sa" \in objects THEN saNote \cup {r} ELSE saNote
  /\ UNCHANGED <<reg, regCache, regQueue, serverURL, start, faults>>

SetServerURL ==
  /\ ~serverURL /\ serverURL' = TRUE
  /\ UNCHANGED <<reg, regCache, regQueue, rbac, saNote, start, moves, faults>>
=============================================================================
