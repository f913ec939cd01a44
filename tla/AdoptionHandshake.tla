--------------------------- MODULE AdoptionHandshake ---------------------------
(***************************************************************************)
(* What the two adoption controllers promise together: a selector claims a *)
(* free machine, the machine confirms the claim, and only then the         *)
(* selector is bound to it and may bootstrap it.  An unconfirmed claim may *)
(* be dropped by either side; confirmation and binding are for ever.       *)
(*                                                                         *)
(* Nothing here knows of caches, versions, deadlines or lost patches.      *)
(***************************************************************************)
CONSTANTS Selectors, Machines, None

VARIABLES
  owner,      \* owner[m]: the selector that claims machine m, or None
  confirmed,  \* machines that confirmed the claim of their owner
  bound       \* bound[s]: no machine, or the one s may bootstrap

handshakeVars == <<owner, confirmed, bound>>

HandshakeTypeOK ==
  /\ owner \in [Machines -> Selectors \cup {None}]
  /\ confirmed \subseteq Machines
  /\ bound \in [Selectors -> SUBSET Machines]

Init ==
  /\ owner = [m \in Machines |-> None]
  /\ confirmed = {}
  /\ bound = [s \in Selectors |-> {}]

Claim(s, m) ==
  /\ owner[m] = None
  /\ owner' = [owner EXCEPT ![m] = s]
  /\ UNCHANGED <<confirmed, bound>>

Drop(m) ==
  /\ m \notin confirmed
  /\ owner' = [owner EXCEPT ![m] = None]
  /\ UNCHANGED <<confirmed, bound>>

Confirm(m) ==
  /\ owner[m] # None
  /\ confirmed' = confirmed \cup {m}
  /\ UNCHANGED <<owner, bound>>

Bind(s, m) ==
  /\ m \in confirmed
  /\ owner[m] = s
  /\ bound[s] = {}
  /\ bound' = [bound EXCEPT ![s] = {m}]
  /\ UNCHANGED <<owner, confirmed>>

Next ==
  \E m \in Machines :
    \/ Drop(m)
    \/ Confirm(m)
    \/ \E s \in Selectors : Claim(s, m) \/ Bind(s, m)

Spec == Init /\ [][Next]_handshakeVars

----------------------------------------------------------------------------
\* No machine is bound to two selectors.
Exclusive ==
  \A s, t \in Selectors : s # t => bound[s] \cap bound[t] = {}

\* A bound machine confirmed the claim of the selector it is bound to, and a
\* machine that confirmed a claim has an owner.
Agreed ==
  /\ \A m \in confirmed : owner[m] # None
  /\ \A s \in Selectors : \A m \in bound[s] : m \in confirmed /\ owner[m] = s
=============================================================================
