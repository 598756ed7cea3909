------------------------------ MODULE Messages ------------------------------
(***************************************************************************)
(* Messages that carry an offer.  The message and its offer share one id    *)
(* and are inserted and deleted together.  A message wakes its conversation *)
(* up with two more statements.                                             *)
(***************************************************************************)
EXTENDS Store

\* POST /messages: participant, and the advertisement still available.
SendOffer(s, c, u, p) ==
  /\ "offer" \in Ops
  /\ ConvExists(c)
  /\ u \in Parties(c)
  /\ ad[c[1]] \in {"OPEN", "IN_PROGRESS"}
  /\ Begin(s, [Idle EXCEPT !.at = "offer_insert", !.conv = c, !.who = u,
                           !.price = p])
  /\ UNCHANGED db

\* MessagesService.create: the insert fails on a conversation that is gone.
InsertOffer(s) ==
  LET f == req[s]
      free == {o \in Offers : offer[o].status = "absent"}  \* bound
  IN /\ At(s, "offer_insert")
     /\ IF ConvExists(f.conv) /\ free # {}
        THEN /\ \E o \in free :
                  offer' = [offer EXCEPT ![o] =
                    [status |-> "PENDING", conv |-> f.conv, author |-> f.who,
                     price |-> f.price, mission |-> None]]
             /\ Goto(s, "offer_wake")
             /\ UNCHANGED <<ad, mission, conv, payment, dispute, proof, pkg,
                            kyc>>
        ELSE Refuse(s)

\* touchConversation, first statement: nobody hides the conversation.
WakeConversation(s) ==
  LET c == req[s].conv
  IN /\ At(s, "offer_wake")
     /\ IF ConvExists(c)
        THEN /\ conv' = [conv EXCEPT ![c].hidden = {}]
             /\ Goto(s, "offer_revive")
             /\ UNCHANGED <<ad, mission, offer, payment, dispute, proof, pkg,
                            kyc>>
        ELSE Refuse(s)

\* touchConversation, second statement: DELETED becomes ACTIVE.
ReviveConversation(s) ==
  LET c == req[s].conv
  IN /\ At(s, "offer_revive")
     /\ conv' = IF conv[c].status = "DELETED"
                THEN [conv EXCEPT ![c].status = "ACTIVE"] ELSE conv
     /\ Reply(s)
     /\ UNCHANGED <<ad, mission, offer, payment, dispute, proof, pkg, kyc>>

\* PATCH /messages/:id with an offer: the author edits a PENDING offer.
EditOffer(s, o, p) ==
  /\ "edit" \in Ops
  /\ offer[o].status = "PENDING"
  /\ Begin(s, [Idle EXCEPT !.at = "offer_edit", !.offer = o, !.price = p])
  /\ UNCHANGED db

\* The write carries PENDING in its WHERE.
WriteOfferEdit(s) ==
  LET o == req[s].offer
  IN /\ At(s, "offer_edit")
     /\ IF offer[o].status = "PENDING"
        THEN /\ offer' = [offer EXCEPT ![o].price = req[s].price]
             /\ Reply(s)
             /\ UNCHANGED <<ad, mission, conv, payment, dispute, proof, pkg,
                            kyc>>
        ELSE Refuse(s)

\* DELETE /messages/:id by the author, whatever the status of the offer.
DeleteMessage(o) ==
  /\ "delete_message" \in Ops
  /\ OfferExists(o)
  /\ offer' = [offer EXCEPT ![o] = [NoOffer EXCEPT !.status = "erased"]]
  /\ UNCHANGED <<ad, mission, conv, payment, dispute, proof, pkg, kyc, req>>
=============================================================================
