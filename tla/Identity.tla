------------------------------ MODULE Identity ------------------------------
(***************************************************************************)
(* The identity badge (idCardVerifiedAt) as the provider's webhooks set and *)
(* clear it.  A webhook that only asks for input leaves the badge alone.    *)
(***************************************************************************)
EXTENDS Store

\* handleWebhook, verified and canceled: each one transaction.
BadgeGranted(u) ==
  /\ "badge" \in Ops
  /\ u \notin kyc
  /\ kyc' = kyc \union {u}
  /\ UNCHANGED <<ad, mission, conv, offer, payment, dispute, proof, pkg, req>>

BadgeRevoked(u) ==
  /\ "revoke" \in Ops
  /\ u \in kyc
  /\ kyc' = kyc \ {u}
  /\ UNCHANGED <<ad, mission, conv, offer, payment, dispute, proof, pkg, req>>
=============================================================================
