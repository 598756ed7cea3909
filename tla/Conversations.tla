---------------------------- MODULE Conversations ----------------------------
(***************************************************************************)
(* Conversations: opening one on an advertisement, which attaches it to the *)
(* dossier mission or creates a mission, and removal by a participant.      *)
(* Blocks between users only refuse requests and are left out.              *)
(***************************************************************************)
EXTENDS Store

\* Fault: any PENDING mission of the advertisement passes for its dossier.
AnyPendingMission(m, a) ==
  mission[m].ad = a /\ mission[m].carrier = None /\ mission[m].status = "PENDING"

\* ConversationsService.findDossierMission.
IsDossier(m, a) ==
  /\ mission[m].ad = a
  /\ mission[m].shipper = AdAuthor[a]
  /\ mission[m].carrier = None
  /\ mission[m].status = "PENDING"

\* POST /conversations, first part: the advertisement is read, then its
\* dossier (findFirst: any of them, None when there is none or the
\* advertisement is of type DELIVERY).  Its status is not looked at.
OpenConversation(s, c) ==
  LET a == c[1]
      dossiers == IF AdType[a] = "SHIPPING"
                  THEN {m \in Missions : IsDossier(m, a)} ELSE {}
  IN /\ "converse" \in Ops
     /\ AdExists(a)
     /\ conv[c].status # "erased"  \* bound: a pair does not start over
     /\ \E m \in IF dossiers = {} THEN {None} ELSE dossiers :
          Begin(s, [Idle EXCEPT !.at = "dossier_write", !.conv = c,
                                !.mission = m])
     /\ UNCHANGED db

\* The row that conversations.create inserts, attached to mission m.
Attach(c, m) ==
  conv' = [conv EXCEPT ![c] =
             [status |-> "ACTIVE", mission |-> m, hidden |-> {}]]

\* ConversationsService.create.  A conversation of the trio that exists is
\* returned as it is; connecting a mission that is gone is an error.
WriteConversation(s) ==
  LET f == req[s]
      c == f.conv
      a == c[1]
  IN /\ At(s, "dossier_write")
     /\ Reply(s)
     /\ UNCHANGED <<ad, offer, payment, dispute, proof, pkg, kyc>>
     /\ \/ /\ ~AdExists(a) \/ conv[c].status # "absent"
           /\ UNCHANGED <<mission, conv>>
        \/ /\ AdExists(a)
           /\ conv[c].status = "absent"
           /\ f.mission # None
           /\ IF MissionExists(f.mission) THEN Attach(c, f.mission)
              ELSE UNCHANGED conv
           /\ UNCHANGED mission
        \/ /\ AdExists(a)
           /\ conv[c].status = "absent"
           /\ f.mission = None
           /\ \/ \E m \in Missions, ps \in SUBSET Owned(Shipper(c)) :
                   /\ FreshMission(m)
                   /\ mission' = [mission EXCEPT ![m] =
                                    Mission("PENDING", a, Shipper(c), ps)]
                   /\ Attach(c, m)
              \/ /\ \A m \in Missions : ~FreshMission(m)  \* bound
                 /\ UNCHANGED <<mission, conv>>

\* ACTIVE_MISSION_STATUSES.
MissionActive(m) ==
  m # None /\ mission[m].status \in {"ACCEPTED", "IN_TRANSIT", "DISPUTED"}

\* ConversationsService.removeForUser: what the read decides.
RemoveConversation(s, c, u) ==
  LET other == Parties(c) \ {u}
      step == IF ~(other \subseteq conv[c].hidden) THEN "conv_hide"
              ELSE IF MissionActive(conv[c].mission) THEN "conv_retain"
              ELSE "conv_delete"
  IN /\ "remove_conv" \in Ops
     /\ ConvExists(c)
     /\ u \in Parties(c)
     /\ Begin(s, [Idle EXCEPT !.at = step, !.conv = c, !.who = u])
     /\ UNCHANGED db

\* Soft delete; DELETED when the other side had deleted and the mission was
\* active at the read.
HideConversation(s) ==
  LET c == req[s].conv
      hidden == [conv[c] EXCEPT !.hidden = @ \union {req[s].who}]
  IN /\ At(s, "conv_hide") \/ At(s, "conv_retain")
     /\ IF ConvExists(c)
        THEN /\ conv' = [conv EXCEPT ![c] =
                  IF At(s, "conv_retain")
                  THEN [hidden EXCEPT !.status = "DELETED"] ELSE hidden]
             /\ Reply(s)
             /\ UNCHANGED <<ad, mission, offer, payment, dispute, proof,
                            pkg, kyc>>
        ELSE Refuse(s)

\* Hard delete: messages, and with them their offers, cascade.
EraseConversation(s) ==
  LET c == req[s].conv
  IN /\ At(s, "conv_delete")
     /\ IF ConvExists(c)
        THEN /\ conv' = [conv EXCEPT ![c] = [NoConv EXCEPT !.status = "erased"]]
             /\ offer' = [o \in Offers |->
                  IF offer[o].conv = c
                  THEN [NoOffer EXCEPT !.status = "erased"] ELSE offer[o]]
             /\ Reply(s)
             /\ UNCHANGED <<ad, mission, payment, dispute, proof, pkg, kyc>>
        ELSE Refuse(s)
=============================================================================
