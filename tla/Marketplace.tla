---------------------------- MODULE Marketplace ----------------------------
(***************************************************************************)
(* The back end as a whole: every slot serves any of the requests that Ops  *)
(* enables, against the one database, and the process may restart.          *)
(***************************************************************************)
EXTENDS Advertisements, Conversations, Messages, Offers, Disputes, Proofs,
        Identity

\* The process stops and restarts: requests in flight are lost with what
\* they still had to write, the tables stay.
Restart ==
  /\ "restart" \in Ops
  /\ \E s \in Slots : req[s] # Idle
  /\ req' = [s \in Slots |-> Idle]
  /\ UNCHANGED db

\* A request arrives at a free slot.
Arrive(s) ==
  \/ \E c \in Convs : OpenConversation(s, c)
  \/ \E c \in Convs, u \in Users : RemoveConversation(s, c, u)
  \/ \E c \in Convs, u \in Users, p \in Prices : SendOffer(s, c, u, p)
  \/ \E o \in Offers, p \in Prices : EditOffer(s, o, p)
  \/ \E o \in Offers, u \in Users : AcceptOffer(s, o, u)
  \/ \E o \in Offers, u \in Users : RejectOffer(s, o, u)
  \/ \E a \in Ads, u \in Users : CreateMission(s, a, u)
  \/ \E m \in Missions, p \in Packages :
       \E step \in {"package_add", "package_remove"} :
         ChangePackages(s, m, p, step)
  \/ \E m \in Missions : DeleteMission(s, m)
  \/ \E m \in Missions : CancelMission(s, m)
  \/ \E m \in Missions, k \in ProofKinds : GenerateCode(s, m, k)
  \/ \E m \in Missions, k \in ProofKinds : SubmitCode(s, m, k)
  \/ \E m \in Missions : OpenDispute(s, m)
  \/ \E m \in Missions, outcome \in {"COMPLETED", "CANCELLED"} :
       ResolveDispute(s, m, outcome)

\* The next statement of the request in slot s.
Continue(s) ==
  \/ WriteConversation(s)
  \/ HideConversation(s)
  \/ EraseConversation(s)
  \/ InsertOffer(s)
  \/ WakeConversation(s)
  \/ ReviveConversation(s)
  \/ WriteOfferEdit(s)
  \/ CheckCarrierKyc(s)
  \/ ReadMissionToAccept(s)
  \/ CommitAcceptance(s)
  \/ WriteRejection(s)
  \/ InsertMission(s)
  \/ WritePackages(s)
  \/ EraseMission(s)
  \/ WriteCancellation(s)
  \/ RereadMission(s)
  \/ CancelEffects(s)
  \/ WriteCode(s)
  \/ LoadProof(s)
  \/ CountAttempt(s)
  \/ CommitVerification(s)
  \/ CommitDispute(s)
  \/ CommitResolution(s)
  \/ ResolveEffects(s)

\* Requests of a single statement, and the provider's webhooks.
OneStatement ==
  \/ \E a \in Ads : PublishAd(a) \/ DeleteAd(a)
  \/ \E o \in Offers : DeleteMessage(o)
  \/ \E u \in Users : BadgeGranted(u) \/ BadgeRevoked(u)

Init == StoreInit

Next ==
  \/ \E s \in Slots : Arrive(s) \/ Continue(s)
  \/ OneStatement
  \/ Restart

Spec == Init /\ [][Next]_vars

\* A statement that was sent to the database is answered: the handler of a
\* request that began goes on.  Nobody has to send a request.
FairSpec == Spec /\ \A s \in Slots : WF_vars(Continue(s))

----------------------------------------------------------------------------
(* Safety *)

\* Negotiation may run in several conversations and slots at once, but no
\* two ACCEPTED offers ever name the same mission (OffersService: "deux
\* acceptations concurrentes ne peuvent pas écrire toutes deux").
OneAcceptedOfferPerMission ==
  \A o1, o2 \in Offers :
    /\ offer[o1].status = "ACCEPTED" /\ offer[o2].status = "ACCEPTED"
    /\ offer[o1].mission = offer[o2].mission
    => o1 = o2

\* An ACCEPTED offer stays the contract of a mission that exists and is
\* engaged with the carrier of the offer's conversation: neither deletions
\* nor later negotiation detach it.
AcceptedOfferBinds ==
  \A o \in Offers : offer[o].status = "ACCEPTED" =>
    /\ offer[o].mission # None
    /\ mission[offer[o].mission].carrier = Carrier(offer[o].conv)

\* No step turns an ACCEPTED offer back: a rejection or an edit that read it
\* PENDING does not land after the acceptance.
AcceptedOfferStands ==
  [][\A o \in Offers : offer[o].status = "ACCEPTED" =>
       \/ offer'[o].status = "erased"
       \/ /\ offer'[o].status = "ACCEPTED"
          /\ offer'[o].price = offer[o].price]_offer

\* A conversation is attached to a mission of its own advertisement and of
\* its own shipper, so an acceptance engages the right parties.
PartiesConsistent ==
  \A c \in Convs : conv[c].mission # None =>
    /\ mission[conv[c].mission].ad = c[1]
    /\ mission[conv[c].mission].shipper = Shipper(c)

\* A mission under dispute has the open dispute an admin can resolve; nothing
\* else leads out of DISPUTED but a code that was already being checked.
DisputedHasOpenDispute ==
  \A m \in Missions :
    mission[m].status = "DISPUTED" => dispute[m] = "OPEN"

\* A cancelled mission whose payment is still PENDING is owed its side
\* effects by a request in flight (MissionsService.update and
\* DisputesService.resolve write the status first).
OwesSettlement(m) ==
  \E s \in Slots :
    /\ req[s].mission = m
    /\ \/ At(s, "cancel_reread")
       \/ /\ At(s, "cancel_effects") \/ At(s, "resolve_effects")
          /\ req[s].status = "CANCELLED"

CancelledIsSettledOrOwed ==
  \A m \in Missions :
    mission[m].status = "CANCELLED" /\ payment[m].status = "PENDING"
      => OwesSettlement(m)

\* The foreign key of a dispute: a row of disputes, open or resolved, belongs
\* to a mission that exists, so a resolution never revives a deleted one.
DisputesAttached ==
  \A m \in Missions : dispute[m] # "absent" => MissionExists(m)

\* A mission has a carrier exactly when a payment was recorded for it, and
\* the payment is of the mission's price: cancellations, deliveries,
\* arbitrations and deletions never leave one without the other.
PaymentMatchesDeal ==
  \A m \in Missions :
    /\ payment[m].status = "absent" <=> mission[m].carrier = None
    /\ payment[m].amount = mission[m].price

\* The attempts on one code exceed MAX_OTP_ATTEMPTS by at most the number of
\* other submissions that were being checked at the same time.
AttemptsBounded ==
  \A x \in Missions \X ProofKinds :
    proof[x].attempts <= MAX_OTP_ATTEMPTS - 1 + Cardinality(Slots)

\* A row that was never inserted has no payment, an accepted offer names a
\* mission that has one, and the request that accepts an offer works on the
\* conversation the offer is in.
DealsArePaid ==
  /\ \A m \in Missions :
       mission[m].status = "absent" => payment[m].status = "absent"
  /\ \A o \in Offers : offer[o].status = "ACCEPTED" =>
       /\ offer[o].mission # None
       /\ payment[offer[o].mission].status # "absent"
  /\ \A s \in Slots : req[s].at \in AcceptSteps =>
       /\ offer[req[s].offer].status # "absent"
       /\ OfferExists(req[s].offer) =>
            offer[req[s].offer].conv = req[s].conv

\* The inductive invariant: what every request preserves at every step.
EngagementInv ==
  /\ TypeOK
  /\ DisputesAttached
  /\ PaymentMatchesDeal
  /\ DealsArePaid
  /\ OneAcceptedOfferPerMission
  /\ AcceptedOfferBinds

\* The deal of each mission, as the ledger reads it.
Deals == [m \in Missions |->
            [carrier |-> mission[m].carrier, price |-> mission[m].price]]

Ledger == INSTANCE EngagementLedger WITH deal <- Deals

\* Every behaviour is one of the ledger: deals are made once, payments
\* mirror them and are settled once, across races and restarts.
ImplementsLedger == Ledger!Spec

\* A mission that stays cancelled does not keep its payment PENDING for ever.
CancelledIsEventuallySettled ==
  \A m \in Missions :
    (mission[m].status = "CANCELLED" /\ payment[m].status = "PENDING")
      ~> (mission[m].status # "CANCELLED" \/ payment[m].status # "PENDING")
=============================================================================
