--------------------------- MODULE HandshakeProofs ---------------------------
(***************************************************************************)
(* What the handshake of AdoptionHandshake guarantees, whoever takes part. *)
(***************************************************************************)
EXTENDS AdoptionHandshake, TLAPS

\* Agreed is inductive together with the types: a claim is only dropped
\* before it is confirmed.
LEMMA HandshakeStep ==
  ASSUME None \notin Selectors, HandshakeTypeOK, Agreed, [Next]_handshakeVars
  PROVE  HandshakeTypeOK' /\ Agreed'
<1> USE DEF HandshakeTypeOK, Agreed
<1>1. CASE UNCHANGED handshakeVars
  BY <1>1 DEF handshakeVars
<1>2. ASSUME NEW m \in Machines, Drop(m) PROVE HandshakeTypeOK' /\ Agreed'
  BY <1>2 DEF Drop
<1>3. ASSUME NEW m \in Machines, Confirm(m) PROVE HandshakeTypeOK' /\ Agreed'
  BY <1>3 DEF Confirm
<1>4. ASSUME NEW m \in Machines, NEW s \in Selectors, Claim(s, m)
      PROVE  HandshakeTypeOK' /\ Agreed'
  <2>1. m \notin confirmed
    BY <1>4 DEF Claim
  <2> QED
    BY <1>4, <2>1 DEF Claim
<1>5. ASSUME NEW m \in Machines, NEW s \in Selectors, Bind(s, m)
      PROVE  HandshakeTypeOK' /\ Agreed'
  BY <1>5 DEF Bind
<1> QED
  BY <1>1, <1>2, <1>3, <1>4, <1>5 DEF Next

\* A machine is bound only to the selector whose claim it confirmed, and to
\* no other: this is what a step-by-step implementation inherits.
THEOREM HandshakeIsSafe ==
  ASSUME None \notin Selectors
  PROVE  Spec => [](Agreed /\ Exclusive)
<1>1. Init => HandshakeTypeOK /\ Agreed
  BY DEF Init, HandshakeTypeOK, Agreed
<1>2. HandshakeTypeOK /\ Agreed /\ [Next]_handshakeVars
        => HandshakeTypeOK' /\ Agreed'
  BY HandshakeStep
<1>3. Agreed => Exclusive
  BY DEF Agreed, Exclusive
<1> QED
  BY <1>1, <1>2, <1>3, PTL DEF Spec
=============================================================================
