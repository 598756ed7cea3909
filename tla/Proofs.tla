------------------------------- MODULE Proofs -------------------------------
(***************************************************************************)
(* Proofs of pickup and of delivery: the shipper generates a code, the      *)
(* carrier submits it.  A code is the number of its generation; expiry only *)
(* refuses a request and has no state, SMS delivery is left out.            *)
(***************************************************************************)
EXTENDS Store

\* The status in which a code is generated, and in which it is submitted.
StatusFor(k) == IF k = "PICKUP" THEN "ACCEPTED" ELSE "IN_TRANSIT"

\* createPickupProof and generateDeliveryCode: the guards.
GenerateCode(s, m, k) ==
  /\ "code" \in Ops
  /\ mission[m].status = StatusFor(k)
  /\ mission[m].carrier # None
  /\ proof[<<m, k>>].code < MaxCodes  \* bound
  /\ Begin(s, [Idle EXCEPT !.at = "code_write", !.mission = m, !.kind = k])
  /\ UNCHANGED db

\* ProofService.create: a fresh, unused code with its attempts reset.
WriteCode(s) ==
  LET x == <<req[s].mission, req[s].kind>>
  IN /\ At(s, "code_write")
     /\ IF MissionExists(x[1]) /\ proof[x].code < MaxCodes
        THEN /\ proof' = [proof EXCEPT ![x] =
                  [code |-> @.code + 1, used |-> FALSE, attempts |-> 0]]
             /\ Reply(s)
             /\ UNCHANGED <<ad, mission, conv, offer, payment, dispute, pkg,
                            kyc>>
        ELSE Refuse(s)

\* verifyPickUp and verifyDelivery: the controller's read of the mission.
SubmitCode(s, m, k) ==
  /\ "verify" \in Ops
  /\ mission[m].status = StatusFor(k)
  /\ mission[m].carrier # None
  /\ Begin(s, [Idle EXCEPT !.at = "verify_load", !.mission = m, !.kind = k])
  /\ UNCHANGED db

\* Fault: one attempt too many is let through.
VerifiableOnceMore(pr) ==
  pr.code > 0 /\ ~pr.used /\ pr.attempts <= MAX_OTP_ATTEMPTS

\* loadVerifiableProof.
Verifiable(pr) ==
  pr.code > 0 /\ ~pr.used /\ pr.attempts < MAX_OTP_ATTEMPTS

\* The proof is loaded and the submitted code compared with the loaded hash:
\* it is right or wrong.
LoadProof(s) ==
  LET pr == proof[<<req[s].mission, req[s].kind>>]
  IN /\ At(s, "verify_load")
     /\ IF Verifiable(pr)
        THEN \E step \in {"verify_count", "verify_commit"} :
               req' = [req EXCEPT ![s].at = step, ![s].code = pr.code]
        ELSE Reply(s)
     /\ UNCHANGED db

\* checkOtpOrCountAttempt on a wrong code.
CountAttempt(s) ==
  LET x == <<req[s].mission, req[s].kind>>
  IN /\ At(s, "verify_count")
     /\ IF MissionExists(x[1])
        THEN /\ proof' = [proof EXCEPT ![x].attempts = @ + 1]
             /\ Reply(s)
             /\ UNCHANGED <<ad, mission, conv, offer, payment, dispute, pkg,
                            kyc>>
        ELSE Refuse(s)

PackagesBecome(m, status) ==
  pkg' = [p \in Packages |->
            IF p \in mission[m].packages THEN status ELSE pkg[p]]

\* The transaction of verify.  Only otpUsedAt is looked at again; the status
\* of the mission is written whatever it has become.
CommitVerification(s) ==
  LET m == req[s].mission
      k == req[s].kind
  IN /\ At(s, "verify_commit")
     /\ IF MissionExists(m) /\ ~proof[<<m, k>>].used
        THEN /\ proof' = [proof EXCEPT ![<<m, k>>].used = TRUE]
             /\ \/ /\ k = "PICKUP"
                   /\ PackagesBecome(m, "PICKED_UP")
                   /\ mission' = [mission EXCEPT ![m].status = "IN_TRANSIT"]
                   /\ UNCHANGED <<ad, payment>>
                \/ /\ k = "DELIVERY"
                   /\ PackagesBecome(m, "DELIVERED")
                   /\ mission' = [mission EXCEPT ![m].status = "COMPLETED"]
                   /\ ad' = [ad EXCEPT ![mission[m].ad] = "COMPLETED"]
                   /\ payment' = IF payment[m].status = "PENDING"
                        THEN [payment EXCEPT ![m].status = "COMPLETED"]
                        ELSE payment
             /\ Reply(s)
             /\ UNCHANGED <<conv, offer, dispute, kyc>>
        ELSE Refuse(s)
=============================================================================
