------------------------------ MODULE Missions ------------------------------
(***************************************************************************)
(* MissionsController and MissionsService: creation, the packages of a      *)
(* mission, cancellation with its side effects, deletion.                   *)
(* Setting a recipient touches no column of the model.                      *)
(***************************************************************************)
EXTENDS Store

\* POST /missions: create's guards, on somebody else's OPEN advertisement.
CreateMission(s, a, u) ==
  /\ "create_mission" \in Ops
  /\ ad[a] = "OPEN"
  /\ u # AdAuthor[a]
  /\ Begin(s, [Idle EXCEPT !.at = "mission_insert", !.ad = a, !.who = u])
  /\ UNCHANGED db

InsertMission(s) ==
  LET f == req[s]
      free == {m \in Missions : FreshMission(m)}  \* bound
  IN /\ At(s, "mission_insert")
     /\ IF AdExists(f.ad) /\ free # {}
        THEN /\ \E m \in free, ps \in SUBSET Owned(f.who) :
                  mission' = [mission EXCEPT ![m] =
                                Mission("PENDING", f.ad, f.who, ps)]
             /\ Reply(s)
             /\ UNCHANGED <<ad, conv, offer, payment, dispute, proof, pkg,
                            kyc>>
        ELSE Refuse(s)

\* Fault: packages may change until the pickup.
ChangePackagesLate(s, m, p, step) ==
  /\ "packages" \in Ops
  /\ mission[m].status \in {"PENDING", "ACCEPTED"}
  /\ step = "package_remove" \/ p \in Owned(mission[m].shipper)
  /\ Begin(s, [Idle EXCEPT !.at = step, !.mission = m, !.pkg = p])
  /\ UNCHANGED db

\* POST /missions/:id/packages and DELETE /missions/:id/packages/:packageId:
\* the shipper, while the mission is PENDING.
ChangePackages(s, m, p, step) ==
  /\ "packages" \in Ops
  /\ mission[m].status = "PENDING"
  /\ step = "package_remove" \/ p \in Owned(mission[m].shipper)
  /\ Begin(s, [Idle EXCEPT !.at = step, !.mission = m, !.pkg = p])
  /\ UNCHANGED db

\* addPackages and removePackage: the mission is not looked at again.
WritePackages(s) ==
  LET m == req[s].mission
      p == req[s].pkg
  IN /\ At(s, "package_add") \/ At(s, "package_remove")
     /\ IF MissionExists(m)
        THEN /\ mission' = [mission EXCEPT ![m].packages =
                  IF At(s, "package_add") THEN @ \union {p} ELSE @ \ {p}]
             /\ Reply(s)
             /\ UNCHANGED <<ad, conv, offer, payment, dispute, proof, pkg,
                            kyc>>
        ELSE Refuse(s)

\* DELETE /missions/:id by the shipper: the controller's read.
DeleteMission(s, m) ==
  /\ "delete_mission" \in Ops
  /\ mission[m].status \in {"PENDING", "CANCELLED"}
  /\ Begin(s, [Idle EXCEPT !.at = "mission_delete", !.mission = m])
  /\ UNCHANGED db

EraseMission(s) ==
  LET m == req[s].mission
  IN /\ At(s, "mission_delete")
     /\ IF MissionExists(m) /\ Erasable({m})
        THEN /\ EraseMissions({m})
             /\ Reply(s)
             /\ UNCHANGED <<ad, payment, pkg, kyc>>
        ELSE Refuse(s)

----------------------------------------------------------------------------
\* Fault: a mission on the road may be cancelled.
AllowedOnTheRoad(status) ==
  IF status = "PENDING" THEN {"ACCEPTED", "CANCELLED"}
  ELSE IF status = "ACCEPTED" THEN {"IN_TRANSIT", "CANCELLED", "DISPUTED"}
  ELSE IF status = "IN_TRANSIT" THEN {"COMPLETED", "CANCELLED", "DISPUTED"}
  ELSE {}

\* Fault: a party may cancel a mission that awaits arbitration.
AllowedUnderDispute(status) ==
  IF status \in {"PENDING", "ACCEPTED", "DISPUTED"} THEN {"CANCELLED"} ELSE {}

\* validateStatusTransition.
Allowed(status) ==
  CASE status = "PENDING"    -> {"ACCEPTED", "CANCELLED"}
    [] status = "ACCEPTED"   -> {"IN_TRANSIT", "CANCELLED", "DISPUTED"}
    [] status = "IN_TRANSIT" -> {"COMPLETED", "DISPUTED"}
    [] OTHER                 -> {}

\* PATCH /missions/:id with CANCELLED, the one status a party may set.  The
\* controller's own read refuses less than the matrix does and is merged.
CancelMission(s, m) ==
  /\ "cancel" \in Ops
  /\ "CANCELLED" \in Allowed(mission[m].status)
  /\ Begin(s, [Idle EXCEPT !.at = "cancel_write", !.mission = m,
                           !.status = mission[m].status])
  /\ UNCHANGED db

\* Fault: the handler answers before the side effects.
CancelWithoutEffects(s) ==
  LET m == req[s].mission
  IN /\ At(s, "cancel_write")
     /\ IF mission[m].status = req[s].status
        THEN /\ mission' = [mission EXCEPT ![m].status = "CANCELLED"]
             /\ Reply(s)
             /\ UNCHANGED <<ad, conv, offer, payment, dispute, proof, pkg,
                            kyc>>
        ELSE Refuse(s)

\* The write carries the validated status in its WHERE.
WriteCancellation(s) ==
  LET m == req[s].mission
  IN /\ At(s, "cancel_write")
     /\ IF mission[m].status = req[s].status
        THEN /\ mission' = [mission EXCEPT ![m].status = "CANCELLED"]
             /\ Goto(s, "cancel_reread")
             /\ UNCHANGED <<ad, conv, offer, payment, dispute, proof, pkg,
                            kyc>>
        ELSE Refuse(s)

\* findUniqueOrThrow: the side effects follow the status found now.
RereadMission(s) ==
  LET m == req[s].mission
  IN /\ At(s, "cancel_reread")
     /\ IF MissionExists(m)
        THEN req' = [req EXCEPT ![s].at = "cancel_effects",
                                ![s].ad = mission[m].ad,
                                ![s].status = mission[m].status]
        ELSE Reply(s)
     /\ UNCHANGED db

\* Fault: a cancelled mission keeps its advertisement taken.
AdStatusKept(status, old) ==
  CASE status \in {"ACCEPTED", "IN_TRANSIT", "CANCELLED"} -> "IN_PROGRESS"
    [] status = "COMPLETED" -> "COMPLETED"
    [] OTHER -> old

\* The status applyStatusSideEffects gives the advertisement.
AdStatusAfter(status, old) ==
  CASE status \in {"ACCEPTED", "IN_TRANSIT"} -> "IN_PROGRESS"
    [] status = "COMPLETED"                  -> "COMPLETED"
    [] status = "CANCELLED"                  -> "OPEN"
    [] OTHER                                 -> old

\* Fault: a payment that was already made is cancelled too.
AnyPaymentCancelled(m, status) ==
  IF status = "CANCELLED" /\ payment[m].status # "absent"
  THEN [payment EXCEPT ![m].status = "CANCELLED"] ELSE payment

\* Fault: the transaction is forgotten.
PaymentForgotten(m, status) == payment

\* transaction.updateMany where PENDING.
SettledPayment(m, status) ==
  IF status = "CANCELLED" /\ payment[m].status = "PENDING"
  THEN [payment EXCEPT ![m].status = "CANCELLED"] ELSE payment

\* The conversations of a mission that ended are archived.
ArchivedConv(c, m, status) ==
  IF status \in {"COMPLETED", "CANCELLED"} /\ conv[c].mission = m
  THEN [conv[c] EXCEPT !.status = "ARCHIVED"] ELSE conv[c]

\* applyStatusSideEffects with the status its caller holds.  Updating an
\* advertisement that is gone rolls the three writes back.
ApplyStatusSideEffects(s) ==
  LET m == req[s].mission
      a == req[s].ad
      status == req[s].status
  IN IF AdExists(a)
     THEN /\ ad' = [ad EXCEPT ![a] = AdStatusAfter(status, @)]
          /\ payment' = SettledPayment(m, status)
          /\ conv' = [c \in Convs |-> ArchivedConv(c, m, status)]
          /\ Reply(s)
          /\ UNCHANGED <<mission, offer, dispute, proof, pkg, kyc>>
     ELSE Refuse(s)

CancelEffects(s) ==
  /\ At(s, "cancel_effects")
  /\ ApplyStatusSideEffects(s)
=============================================================================
