------------------------------ MODULE Disputes ------------------------------
(***************************************************************************)
(* DisputesService: a party opens the one dispute of a mission, an admin    *)
(* resolves it.  Emails and the ticket of the tracker are left out.         *)
(***************************************************************************)
EXTENDS Missions

\* loadDisputableMission.
OpenDispute(s, m) ==
  /\ "dispute" \in Ops
  /\ mission[m].status \in {"ACCEPTED", "IN_TRANSIT"}
  /\ Begin(s, [Idle EXCEPT !.at = "dispute_open", !.mission = m])
  /\ UNCHANGED db

\* Fault: an existing dispute is kept instead of refusing (an upsert).
CommitDisputeAgain(s) ==
  LET m == req[s].mission
  IN /\ At(s, "dispute_open")
     /\ IF MissionExists(m)
        THEN /\ dispute' = IF dispute[m] = "absent"
                           THEN [dispute EXCEPT ![m] = "OPEN"] ELSE dispute
             /\ mission' = [mission EXCEPT ![m].status = "DISPUTED"]
             /\ Reply(s)
             /\ UNCHANGED <<ad, conv, offer, payment, proof, pkg, kyc>>
        ELSE Refuse(s)

\* openDisputeTransaction: refused by the unique mission of a dispute, not by
\* the status of the mission.  The side effects of DISPUTED write nothing.
CommitDispute(s) ==
  LET m == req[s].mission
  IN /\ At(s, "dispute_open")
     /\ IF MissionExists(m) /\ dispute[m] = "absent"
        THEN /\ dispute' = [dispute EXCEPT ![m] = "OPEN"]
             /\ mission' = [mission EXCEPT ![m].status = "DISPUTED"]
             /\ Reply(s)
             /\ UNCHANGED <<ad, conv, offer, payment, proof, pkg, kyc>>
        ELSE Refuse(s)

\* resolve: loadResolvableDispute, with the outcome the admin decided.
ResolveDispute(s, m, outcome) ==
  /\ "resolve" \in Ops
  /\ dispute[m] = "OPEN"
  /\ Begin(s, [Idle EXCEPT !.at = "resolve_commit", !.mission = m,
                           !.ad = mission[m].ad, !.status = outcome])
  /\ UNCHANGED db

\* The transaction of resolve: the dispute is still OPEN, the mission takes
\* the outcome whatever its status has become.
CommitResolution(s) ==
  LET m == req[s].mission
  IN /\ At(s, "resolve_commit")
     /\ IF dispute[m] = "OPEN"
        THEN /\ dispute' = [dispute EXCEPT ![m] = "RESOLVED"]
             /\ mission' = [mission EXCEPT ![m].status = req[s].status]
             /\ Goto(s, "resolve_effects")
             /\ UNCHANGED <<ad, conv, offer, payment, proof, pkg, kyc>>
        ELSE Refuse(s)

ResolveEffects(s) ==
  /\ At(s, "resolve_effects")
  /\ ApplyStatusSideEffects(s)
=============================================================================
