------------------------------- MODULE Offers -------------------------------
(***************************************************************************)
(* OffersService: the counterpart accepts or rejects a PENDING offer.       *)
(***************************************************************************)
EXTENDS Store

\* Fault: a conversation that lost its mission is not refused.
AcceptWithoutMission(s, o, u) ==
  LET c == offer[o].conv
  IN /\ "accept" \in Ops
     /\ offer[o].status = "PENDING"
     /\ u \in Parties(c)
     /\ u # offer[o].author
     /\ Begin(s, [Idle EXCEPT !.at = "accept_kyc", !.offer = o, !.conv = c,
                              !.mission = conv[c].mission,
                              !.price = offer[o].price])
     /\ UNCHANGED db

\* accept: loadPendingOffer and the party checks.  The price, the
\* conversation and its mission are the ones of this read until the commit.
AcceptOffer(s, o, u) ==
  LET c == offer[o].conv
  IN /\ "accept" \in Ops
     /\ offer[o].status = "PENDING"
     /\ u \in Parties(c)
     /\ u # offer[o].author
     /\ conv[c].mission # None
     /\ Begin(s, [Idle EXCEPT !.at = "accept_kyc", !.offer = o, !.conv = c,
                              !.mission = conv[c].mission,
                              !.price = offer[o].price])
     /\ UNCHANGED db

\* assertCarrierKycVerified.
CheckCarrierKyc(s) ==
  /\ At(s, "accept_kyc")
  /\ IF Carrier(req[s].conv) \in kyc THEN Goto(s, "accept_read") ELSE Reply(s)
  /\ UNCHANGED db

\* applyAcceptance: the unlocked read at the head of the transaction.
ReadMissionToAccept(s) ==
  /\ At(s, "accept_read")
  /\ IF mission[req[s].mission].status = "PENDING"
     THEN Goto(s, "accept_commit") ELSE Reply(s)
  /\ UNCHANGED db

\* Fault: the commit relies on the unlocked read.
CanEngageAnyway(m) == MissionExists(m)

\* The updateMany that carries PENDING, and the unique mission of a transaction.
CanEngage(m) ==
  mission[m].status = "PENDING" /\ payment[m].status = "absent"

\* settleConversationOffers.
SettledOffer(x, o, m) ==
  IF x = o THEN [offer[x] EXCEPT !.status = "ACCEPTED", !.mission = m]
  ELSE IF offer[x].status = "PENDING" /\ offer[x].conv = offer[o].conv
       THEN [offer[x] EXCEPT !.status = "REJECTED"]
       ELSE offer[x]

\* Fault: the negotiated price is not written.
EngagedWithoutPrice(x, m, u, p) ==
  IF x = m THEN [mission[x] EXCEPT !.status = "ACCEPTED", !.carrier = u]
  ELSE IF mission[x].ad = mission[m].ad /\ mission[x].status = "PENDING"
       THEN [mission[x] EXCEPT !.status = "CANCELLED"]
       ELSE mission[x]

\* The mission is engaged, the other PENDING missions of its advertisement
\* are cancelled (closeCompetingMissions).
EngagedMission(x, m, u, p) ==
  IF x = m THEN [mission[x] EXCEPT !.status = "ACCEPTED", !.carrier = u,
                                   !.price = p]
  ELSE IF mission[x].ad = mission[m].ad /\ mission[x].status = "PENDING"
       THEN [mission[x] EXCEPT !.status = "CANCELLED"]
       ELSE mission[x]

\* The conversations of the other candidates are archived.
ClosedConv(x, c) ==
  IF x[1] = c[1] /\ x # c /\ conv[x].status = "ACTIVE"
  THEN [conv[x] EXCEPT !.status = "ARCHIVED"] ELSE conv[x]

\* applyAcceptance, committed.  An offer deleted meanwhile rolls it back; one
\* rejected or edited meanwhile does not.
CommitAcceptance(s) ==
  LET f == req[s]
      m == f.mission
  IN /\ At(s, "accept_commit")
     /\ IF CanEngage(m) /\ OfferExists(f.offer)
        THEN /\ mission' = [x \in Missions |->
                  EngagedMission(x, m, Carrier(f.conv), f.price)]
             /\ ad' = [ad EXCEPT ![mission[m].ad] = "IN_PROGRESS"]
             /\ offer' = [x \in Offers |-> SettledOffer(x, f.offer, m)]
             /\ payment' = [payment EXCEPT ![m] =
                  [status |-> "PENDING", amount |-> f.price]]
             /\ conv' = [x \in Convs |-> ClosedConv(x, f.conv)]
             /\ Reply(s)
             /\ UNCHANGED <<dispute, proof, pkg, kyc>>
        ELSE Refuse(s)

\* update with REJECTED: the read and the party checks.
RejectOffer(s, o, u) ==
  /\ "reject" \in Ops
  /\ offer[o].status = "PENDING"
  /\ u \in Parties(offer[o].conv)
  /\ u # offer[o].author
  /\ Begin(s, [Idle EXCEPT !.at = "offer_reject", !.offer = o])
  /\ UNCHANGED db

\* Fault: the write has lost its WHERE.
WriteRejectionAnyway(s) ==
  LET o == req[s].offer
  IN /\ At(s, "offer_reject")
     /\ IF OfferExists(o)
        THEN /\ offer' = [offer EXCEPT ![o].status = "REJECTED"]
             /\ Reply(s)
             /\ UNCHANGED <<ad, mission, conv, payment, dispute, proof, pkg,
                            kyc>>
        ELSE Refuse(s)

\* The write carries PENDING in its WHERE.
WriteRejection(s) ==
  LET o == req[s].offer
  IN /\ At(s, "offer_reject")
     /\ IF offer[o].status = "PENDING"
        THEN /\ offer' = [offer EXCEPT ![o].status = "REJECTED"]
             /\ Reply(s)
             /\ UNCHANGED <<ad, mission, conv, payment, dispute, proof, pkg,
                            kyc>>
        ELSE Refuse(s)
=============================================================================
