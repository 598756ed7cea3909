--------------------------- MODULE AftercareProofs ---------------------------
(***************************************************************************)
(* What follows a mission, for any number of users, rows and requests: a    *)
(* rating stays true to its deal and a ticket tells the verdict that was    *)
(* written.  Both rest on what an engaged mission may still become.         *)
(***************************************************************************)
EXTENDS Aftercare, StandingProofs

\* A payment was recorded for mission m.
Paid(m) == payment[m].status # "absent"

\* The pickup code of mission m was used, or replaced since.
PickedUp(m) ==
  proof[<<m, "PICKUP">>].used \/ proof[<<m, "PICKUP">>].code > 1

\* The statuses of a mission with a deal.
EngagedStatus == {"ACCEPTED", "IN_TRANSIT", "COMPLETED", "DISPUTED"}
CarriedStatuses == {"IN_TRANSIT", "COMPLETED"}

\* What holds of the row of a mission, its dispute and its codes.
LifeStands(m) ==
  /\ mission[m].status \in EngagedStatus => Paid(m)
  /\ dispute[m] # "absent" => Paid(m)
  /\ \A k \in ProofKinds : proof[<<m, k>>].used => proof[<<m, k>>].code > 0
  /\ mission[m].status \in CarriedStatuses =>
       dispute[m] # "absent" \/ PickedUp(m)
  /\ mission[m].carrier # None => mission[m].carrier # mission[m].shipper

\* What a request that was let through has read stays true until it writes.
PaidSteps   == CodeSteps \union {"dispute_open", "resolve_commit", "resolve_effects"}
VerifySteps == {"verify_load", "verify_count", "verify_commit"}
LifeSteps   == PaidSteps \union AcceptSteps \union {"cancel_write"}
FrameLives(s) ==
  LET m == req[s].mission
  IN /\ req[s].at \in PaidSteps => Paid(m)
     /\ At(s, "cancel_write") => req[s].status \in {"PENDING", "ACCEPTED"}
     /\ req[s].at \in VerifySteps /\ req[s].kind = "DELIVERY" =>
          dispute[m] # "absent" \/ PickedUp(m)
     /\ At(s, "verify_commit") => proof[<<m, req[s].kind>>].code > 0
     /\ req[s].at \in AcceptSteps =>
          ~FreshMission(m) /\ (MissionExists(m) => Suits(m, req[s].conv))

\* What engaged missions are like, and what requests may rely on.
LifeInv ==
  /\ StandingInv
  /\ \A m \in Missions : LifeStands(m)
  /\ \A s \in Slots : FrameLives(s)

\* A rating of v by u is of the deal of mission m.
RatedWell(m, u, v) ==
  /\ MissionExists(m) /\ Paid(m)
  /\ u # v /\ {u, v} = {mission[m].shipper, mission[m].carrier}
  /\ StaysDelivered(m)

\* What the tracker is told, and was told, is the verdict.
ToldWell(m) ==
  /\ closing[m] \subseteq {verdict[m]} /\ ticket[m].outcome \in {None, verdict[m]}
  /\ dispute[m] # "RESOLVED" =>
       closing[m] = {} /\ ticket[m].outcome = None /\ ticket[m].state # "closed"

\* The outcome a resolution still has to apply and to tell is the verdict.
FrameTells(s) ==
  At(s, "resolve_effects") =>
    /\ dispute[req[s].mission] = "RESOLVED"
    /\ verdict[req[s].mission] = req[s].status

\* The tables of this module.
Verdicts == MissionStatus \union {None}
CareTypeOK ==
  /\ DOMAIN rating = Missions \X Users
  /\ rater \subseteq Missions \X Users \X Users
  /\ ticket \in [Missions -> [state : {"none", "open", "closed"},
                              outcome : Verdicts]]
  /\ closing \in [Missions -> SUBSET Verdicts]
  /\ verdict \in [Missions -> Verdicts]

\* The inductive invariant.
CareInv ==
  /\ LifeInv
  /\ CareTypeOK
  /\ \A m \in Missions : ToldWell(m)
  /\ \A s \in Slots : FrameTells(s)
  /\ \A x \in rater : RatedWell(x[1], x[2], x[3])
  /\ \A m \in Missions, u \in Users :
       rating[<<m, u>>] # None => RatedWell(m, u, rating[<<m, u>>])

----------------------------------------------------------------------------
(* What a step may do with an engaged mission *)

\* A deal is for ever: its mission stays, with its two parties.
PaidLasts ==
  \A m \in Missions : Paid(m) =>
    /\ Paid(m)' /\ MissionExists(m) /\ MissionExists(m)'
    /\ mission'[m].shipper = mission[m].shipper
    /\ mission'[m].carrier = mission[m].carrier

\* What was achieved in a mission with a deal is not undone.
LifeMove(m) ==
  /\ LifeStands(m)'
  /\ Paid(m) =>
       /\ dispute[m] # "absent" => dispute'[m] # "absent"
       /\ dispute[m] = "RESOLVED" => dispute'[m] = "RESOLVED"
       /\ \A k \in ProofKinds : proof[<<m, k>>].code > 0 => proof'[<<m, k>>].code > 0
       /\ PickedUp(m) => PickedUp(m)'
       /\ StaysDelivered(m) => StaysDelivered(m)'
LifeMoves == \A m \in Missions : LifeMove(m)

\* A request goes on with what is true of its mission.
FramesLive == \A s \in Slots : req'[s] = req[s] \/ FrameLives(s)'

\* A payment is never taken back, and its mission keeps its parties.
LEMMA PaidStays ==
  ASSUME StandingInv, [Next]_vars
  PROVE  PaidLasts
<1> SUFFICES ASSUME NEW m \in Missions, Paid(m)
             PROVE  /\ Paid(m)' /\ MissionExists(m) /\ MissionExists(m)'
                    /\ mission'[m].shipper = mission[m].shipper
                    /\ mission'[m].carrier = mission[m].carrier
  BY DEF PaidLasts
<1>1. MissionExists(m) /\ mission[m].status \notin {"absent", "PENDING"}
  BY DEF StandingInv, PaidStand, Paid, MissionExists, NoRow
<1>2. MissionExists(m)' /\ mission'[m].shipper = mission[m].shipper
  BY <1>1, StepIsSteady DEF Steady, RowsSteady, Paid, FreshMission
<1>3. [Ledger!Next]_<<Deals, payment>>
  BY StepRefines DEF StandingInv
<1>4. payment \in [Missions -> PaymentRows] /\ DOMAIN Deals = Missions
  BY DEF StandingInv, EngagementInv, TypeOK, Deals
<1>5. Paid(m)' /\ Deals'[m] = Deals[m]
  <2>1. CASE UNCHANGED <<Deals, payment>>
    BY <2>1 DEF Paid
  <2>2. ASSUME NEW x \in Missions, NEW u \in Users, NEW p \in Prices,
               Ledger!Engage(x, u, p)
        PROVE  Paid(m)' /\ Deals'[m] = Deals[m]
    BY <1>4, <2>2 DEF Ledger!Engage, Paid
  <2>3. ASSUME NEW x \in Missions, NEW outcome \in {"COMPLETED", "CANCELLED"},
               Ledger!Settle(x, outcome)
        PROVE  Paid(m)' /\ Deals'[m] = Deals[m]
    BY <1>4, <2>3 DEF Ledger!Settle, Paid, PaymentRows
  <2> QED
    BY <1>3, <2>1, <2>2, <2>3 DEF Ledger!Next
<1>6. mission'[m].carrier = mission[m].carrier
  BY <1>5 DEF Deals
<1> QED
  BY <1>1, <1>2, <1>5, <1>6

\* The operands of requests whose frames the invariant speaks of.
LEMMA LifeOperand ==
  ASSUME TypeOK, NEW s \in Slots, req[s].at \in LifeSteps
  PROVE  /\ req[s].mission \in Missions
         /\ req[s].at \in CodeSteps => req[s].kind \in ProofKinds
<1>1. req[s].at \in MissionSteps
  BY DEF LifeSteps, PaidSteps, MissionSteps, CancelSteps
<1> QED
  BY <1>1, MissionOperand DEF TypeOK, Frames, FrameRecords

\* The invariant is kept by steps that move this way.
LEMMA LifeKept ==
  ASSUME LifeInv, StandingInv', Steady, PaidLasts, LifeMoves, FramesLive
  PROVE  LifeInv'
<1>1. \A m \in Missions : LifeStands(m)'
  BY DEF LifeMoves, LifeMove
<1>2. ASSUME NEW s \in Slots PROVE FrameLives(s)'
  <2>1. CASE req'[s] = req[s] /\ req[s].at \in LifeSteps
    <3>1. PICK m \in Missions : m = req[s].mission
      BY <2>1, LifeOperand DEF LifeInv, StandingInv, EngagementInv
    <3>2. FrameLives(s) /\ LifeMove(m)
      BY DEF LifeInv, LifeMoves
    <3>3. req[s].at \in PaidSteps => Paid(m) /\ Paid(m)'
      BY <3>1, <3>2 DEF FrameLives, PaidLasts
    <3>4. At(s, "cancel_write") => req[s].status \in {"PENDING", "ACCEPTED"}
      BY <3>2 DEF FrameLives
    <3>5. req[s].at \in VerifySteps /\ req[s].kind = "DELIVERY" =>
            dispute'[m] # "absent" \/ PickedUp(m)'
      BY <3>1, <3>2, <3>3 DEF FrameLives, LifeMove, VerifySteps, PaidSteps,
                              CodeSteps
    <3>6. At(s, "verify_commit") => proof'[<<m, req[s].kind>>].code > 0
      <4> SUFFICES ASSUME At(s, "verify_commit")
                   PROVE  proof'[<<m, req[s].kind>>].code > 0
        OBVIOUS
      <4>1. req[s].kind \in ProofKinds
        BY <2>1, LifeOperand
        DEF LifeInv, StandingInv, EngagementInv, At, CodeSteps
      <4> QED
        BY <3>1, <3>2, <3>3, <4>1 DEF FrameLives, LifeMove, At, PaidSteps,
                                      CodeSteps
    <3>7. req[s].at \in AcceptSteps =>
            ~FreshMission(m)' /\ (MissionExists(m)' => Suits(m, req[s].conv)')
      <4> SUFFICES ASSUME req[s].at \in AcceptSteps
                   PROVE  /\ ~FreshMission(m)'
                          /\ MissionExists(m)' => Suits(m, req[s].conv)'
        OBVIOUS
      <4>1. ~FreshMission(m) /\ (MissionExists(m) => Suits(m, req[s].conv))
        BY <3>1, <3>2 DEF FrameLives
      <4> QED
        BY <2>1, <4>1 DEF Steady, RowsSteady, Suits
    <3> QED
      BY <2>1, <3>1, <3>3, <3>4, <3>5, <3>6, <3>7 DEF FrameLives, At
  <2>2. CASE req'[s] = req[s] /\ req[s].at \notin LifeSteps
    BY <2>2 DEF FrameLives, LifeSteps, PaidSteps, VerifySteps, CodeSteps, At
  <2> QED
    BY <2>1, <2>2 DEF FramesLive
<1> QED
  BY <1>1, <1>2 DEF LifeInv

----------------------------------------------------------------------------
(* Rows that stay, begin and end *)

\* A mission whose status, parties, dispute and codes stay.
LEMMA SameLife ==
  ASSUME LifeInv, PaidLasts, NEW m \in Missions,
         mission'[m].status = mission[m].status,
         mission'[m].carrier = mission[m].carrier,
         mission'[m].shipper = mission[m].shipper,
         dispute'[m] = dispute[m],
         \A k \in ProofKinds :
           /\ proof'[<<m, k>>].code = proof[<<m, k>>].code
           /\ proof'[<<m, k>>].used = proof[<<m, k>>].used
  PROVE  LifeMove(m)
<1>1. LifeStands(m) /\ (Paid(m) => Paid(m)')
  BY DEF LifeInv, PaidLasts
<1>2. PickedUp(m)' <=> PickedUp(m)
  BY DEF PickedUp, ProofKinds
<1>3. LifeStands(m)'
  BY <1>1, <1>2 DEF LifeStands
<1>4. StaysDelivered(m)' <=> StaysDelivered(m)
  BY DEF StaysDelivered, ProofKinds
<1> QED
  BY <1>2, <1>3, <1>4 DEF LifeMove

\* No mission, dispute or code is written.
LEMMA StillLife ==
  ASSUME LifeInv, PaidLasts, UNCHANGED <<mission, dispute, proof>>
  PROVE  LifeMoves
BY SameLife DEF LifeMoves

\* A mission that begins or ends has no deal.
LEMMA ShortLife ==
  ASSUME LifeInv, NEW m \in Missions, ~Paid(m),
         mission'[m].status \in {"PENDING", "erased"},
         mission'[m].carrier = None,
         dispute'[m] = "absent",
         \A k \in ProofKinds : proof'[<<m, k>>] \in {proof[<<m, k>>], NoProof}
  PROVE  LifeMove(m)
BY DEF LifeMove, LifeStands, LifeInv, EngagedStatus, CarriedStatuses, NoProof

\* A row is inserted.
LEMMA CreationLife ==
  ASSUME LifeInv, PaidLasts, NEW m \in Missions, FreshMission(m),
         NEW a, NEW u, NEW ps,
         mission' = [mission EXCEPT ![m] = Mission("PENDING", a, u, ps)],
         UNCHANGED <<dispute, proof>>
  PROVE  LifeMoves
<1>1. /\ mission'[m] = Mission("PENDING", a, u, ps)
      /\ \A x \in Missions \ {m} : mission'[x] = mission[x]
  BY DEF LifeInv, StandingInv, EngagementInv, TypeOK
<1>2. ~Paid(m) /\ dispute[m] = "absent"
  BY DEF LifeInv, StandingInv, EngagementInv, DisputesAttached, PaidStand,
         Paid, MissionExists, FreshMission, NoRow
<1>3. LifeMove(m)
  BY <1>1, <1>2, ShortLife DEF Mission
<1> QED
  BY <1>1, <1>3, SameLife DEF LifeMoves

\* Rows without a deal are deleted.
LEMMA ErasureLife ==
  ASSUME LifeInv, PaidLasts, NEW D, D \subseteq Missions, Erasable(D),
         EraseMissions(D)
  PROVE  LifeMoves
<1>1. ASSUME NEW m \in D PROVE LifeMove(m)
  <2>1. ~Paid(m) /\ m \in Missions
    BY <1>1 DEF Erasable, Paid
  <2>2. /\ mission'[m] = [NoMission EXCEPT !.status = "erased"]
        /\ dispute'[m] = "absent"
        /\ \A k \in ProofKinds : proof'[<<m, k>>] = NoProof
    BY <2>1 DEF EraseMissions
  <2>3. mission'[m].status = "erased" /\ mission'[m].carrier = None
    BY <2>2 DEF NoMission, Mission
  <2> QED
    BY <2>1, <2>2, <2>3, ShortLife
<1>2. ASSUME NEW m \in Missions \ D PROVE LifeMove(m)
  <2>1. /\ mission'[m] = mission[m] /\ dispute'[m] = dispute[m]
        /\ \A k \in ProofKinds : proof'[<<m, k>>] = proof[<<m, k>>]
    BY <1>2 DEF EraseMissions
  <2> QED
    BY <2>1, SameLife
<1> QED
  BY <1>1, <1>2 DEF LifeMoves

\* One row is written by a statement that knows what it leads to.
LEMMA OneLife ==
  ASSUME LifeInv, PaidLasts, NEW m \in Missions, LifeMove(m),
         \A x \in Missions \ {m} :
           /\ mission'[x] = mission[x] /\ dispute'[x] = dispute[x]
           /\ \A k \in ProofKinds : proof'[<<x, k>>] = proof[<<x, k>>]
  PROVE  LifeMoves
BY SameLife DEF LifeMoves

\* A step of slot s to a frame that promises nothing.
LEMMA PlainFrame ==
  ASSUME TypeOK, NEW s \in Slots, NEW f, req' = [req EXCEPT ![s] = f],
         f.at \notin LifeSteps
  PROVE  FramesLive
BY DEF TypeOK, FramesLive, FrameLives, LifeSteps, PaidSteps, VerifySteps,
       CodeSteps, At

\* A step of slot s to a frame that is promised well.
LEMMA GoodFrame ==
  ASSUME TypeOK, NEW s \in Slots, NEW f, req' = [req EXCEPT ![s] = f],
         FrameLives(s)'
  PROVE  FramesLive
BY DEF TypeOK, FramesLive

----------------------------------------------------------------------------
(* Requests that arrive *)

\* A request that begins with a frame f.
LEMMA BeginLives ==
  ASSUME LifeInv, NEW s \in Slots, NEW f, Begin(s, f),
         f.at \notin LifeSteps \/ FrameLives(s)'
  PROVE  FramesLive
BY PlainFrame, GoodFrame DEF Begin, LifeInv, StandingInv, EngagementInv

\* An acceptance reads a mission of the right parties.
LEMMA AcceptOfferLives ==
  ASSUME LifeInv, NEW s \in Slots, NEW o \in Offers, NEW u \in Users,
         AcceptOffer(s, o, u)
  PROVE  FramesLive
<1> DEFINE c == offer[o].conv
           f == [Idle EXCEPT !.at = "accept_kyc", !.offer = o, !.conv = c,
                             !.mission = conv[c].mission,
                             !.price = offer[o].price]
<1>1. Begin(s, f) /\ UNCHANGED db /\ conv[c].mission # None
  BY DEF AcceptOffer
<1>2. f.at = "accept_kyc" /\ f.conv = c /\ f.mission = conv[c].mission
  BY DEF Idle
<1>3. c \in Convs
  BY DEF AcceptOffer, LifeInv, StandingInv, EngagementInv, TypeOK, OfferRows,
         OfferStatus
<1> HIDE DEF f, c
<1>4. req'[s] = f
  BY <1>1 DEF Begin, LifeInv, StandingInv, EngagementInv, TypeOK
<1>5. /\ mission[conv[c].mission].status # "absent"
      /\ Suits(conv[c].mission, c)
  BY <1>1, <1>3 DEF LifeInv, StandingInv, ConvsAttached, PartiesConsistent,
                    Suits, MissionExists, NoRow
<1>6. FrameLives(s)'
  BY <1>1, <1>2, <1>4, <1>5
  DEF FrameLives, AcceptSteps, PaidSteps, VerifySteps, CodeSteps, At, Suits,
      FreshMission, MissionExists, db
<1> QED
  BY <1>1, <1>6, BeginLives

\* A cancellation reads a status that allows it.
LEMMA CancelMissionLives ==
  ASSUME LifeInv, NEW s \in Slots, NEW m \in Missions, CancelMission(s, m)
  PROVE  FramesLive
<1> DEFINE f == [Idle EXCEPT !.at = "cancel_write", !.mission = m,
                             !.status = mission[m].status]
<1>1. Begin(s, f) /\ "CANCELLED" \in Allowed(mission[m].status)
  BY DEF CancelMission
<1>2. f.at = "cancel_write" /\ f.status = mission[m].status
  BY DEF Idle
<1> HIDE DEF f
<1>3. req'[s] = f
  BY <1>1 DEF Begin, LifeInv, StandingInv, EngagementInv, TypeOK
<1>4. mission[m].status \in {"PENDING", "ACCEPTED"}
  BY <1>1 DEF Allowed
<1>5. FrameLives(s)'
  BY <1>2, <1>3, <1>4
  DEF FrameLives, AcceptSteps, PaidSteps, VerifySteps, CodeSteps, At
<1> QED
  BY <1>1, <1>5, BeginLives

\* Codes are asked for and submitted, disputes opened and resolved, in
\* missions with a deal.
LEMMA PaidRequestLives ==
  ASSUME LifeInv, NEW s \in Slots, NEW m \in Missions, NEW f, Begin(s, f),
         UNCHANGED db, f.mission = m,
         f.at \in {"code_write", "verify_load", "dispute_open",
                   "resolve_commit"},
         mission[m].status \in EngagedStatus \/ dispute[m] # "absent",
         f.at = "verify_load" /\ f.kind = "DELIVERY" =>
           mission[m].status \in CarriedStatuses
  PROVE  FramesLive
<1>1. req'[s] = f
  BY DEF Begin, LifeInv, StandingInv, EngagementInv, TypeOK
<1>2. LifeStands(m) /\ Paid(m)
  BY DEF LifeInv, LifeStands
<1>3. FrameLives(s)'
  BY <1>1, <1>2
  DEF FrameLives, LifeStands, AcceptSteps, PaidSteps, VerifySteps, CodeSteps,
      At, Paid, PickedUp, db
<1> QED
  BY <1>3, BeginLives

\* Every request that arrives.
LEMMA ArriveLives ==
  ASSUME LifeInv, NEW s \in Slots, Arrive(s)
  PROVE  UNCHANGED db /\ FramesLive
<1> USE BeginLives
    DEF LifeSteps, PaidSteps, CodeSteps, AcceptSteps
<1>1. ASSUME NEW c \in Convs, OpenConversation(s, c)
      PROVE  UNCHANGED db /\ FramesLive
  BY <1>1 DEF OpenConversation, Idle
<1>2. CASE \E c \in Convs, u \in Users : RemoveConversation(s, c, u)
  BY <1>2 DEF RemoveConversation, Idle
<1>3. CASE \E c \in Convs, u \in Users, p \in Prices : SendOffer(s, c, u, p)
  BY <1>3 DEF SendOffer, Idle
<1>4. CASE \E o \in Offers, p \in Prices : EditOffer(s, o, p)
  BY <1>4 DEF EditOffer, Idle
<1>5. CASE \E o \in Offers, u \in Users : AcceptOffer(s, o, u)
  BY <1>5, AcceptOfferLives DEF AcceptOffer
<1>6. CASE \E o \in Offers, u \in Users : RejectOffer(s, o, u)
  BY <1>6 DEF RejectOffer, Idle
<1>7. CASE \E a \in Ads, u \in Users : CreateMission(s, a, u)
  BY <1>7 DEF CreateMission, Idle
<1>8. CASE \E m \in Missions, p \in Packages,
           step \in {"package_add", "package_remove"} : ChangePackages(s, m, p, step)
  BY <1>8 DEF ChangePackages, Idle
<1>9. CASE \E m \in Missions : DeleteMission(s, m)
  BY <1>9 DEF DeleteMission, Idle
<1>10. CASE \E m \in Missions : CancelMission(s, m)
  BY <1>10, CancelMissionLives DEF CancelMission
<1>11. ASSUME NEW m \in Missions, NEW k \in ProofKinds, GenerateCode(s, m, k)
       PROVE  UNCHANGED db /\ FramesLive
  BY <1>11, PaidRequestLives
  DEF GenerateCode, Idle, StatusFor, EngagedStatus
<1>12. ASSUME NEW m \in Missions, NEW k \in ProofKinds, SubmitCode(s, m, k)
       PROVE  UNCHANGED db /\ FramesLive
  BY <1>12, PaidRequestLives
  DEF SubmitCode, Idle, StatusFor, EngagedStatus, CarriedStatuses
<1>13. ASSUME NEW m \in Missions, OpenDispute(s, m)
       PROVE  UNCHANGED db /\ FramesLive
  BY <1>13, PaidRequestLives DEF OpenDispute, Idle, EngagedStatus
<1>14. ASSUME NEW m \in Missions, NEW outcome \in {"COMPLETED", "CANCELLED"},
              ResolveDispute(s, m, outcome)
       PROVE  UNCHANGED db /\ FramesLive
  BY <1>14, PaidRequestLives DEF ResolveDispute, Idle
<1> QED
  BY <1>1, <1>2, <1>3, <1>4, <1>5, <1>6, <1>7, <1>8, <1>9, <1>10, <1>11,
     <1>12, <1>13, <1>14
  DEF Arrive

----------------------------------------------------------------------------
(* Statements that write no mission, dispute or code *)

\* A request that is answered.
LEMMA ReplyLives ==
  ASSUME LifeInv, NEW s \in Slots, Reply(s)
  PROVE  FramesLive
BY PlainFrame
DEF Reply, LifeInv, StandingInv, EngagementInv, Idle, LifeSteps, PaidSteps,
    CodeSteps, AcceptSteps

\* A request that goes on to a step that promises nothing.
LEMMA GotoLives ==
  ASSUME LifeInv, NEW s \in Slots, NEW step, Goto(s, step),
         step \notin LifeSteps
  PROVE  FramesLive
<1>1. TypeOK
  BY DEF LifeInv, StandingInv, EngagementInv
<1>2. req' = [req EXCEPT ![s] = [req[s] EXCEPT !.at = step]]
  BY DEF Goto
<1>3. [req[s] EXCEPT !.at = step].at = step
  BY <1>1 DEF TypeOK, Frames, FrameRecords
<1> QED
  BY <1>1, <1>2, <1>3, PlainFrame

\* Conversations, offers and side effects.
LEMMA SideStatementsLive ==
  ASSUME LifeInv, PaidLasts, NEW s \in Slots,
         \/ HideConversation(s) \/ EraseConversation(s) \/ InsertOffer(s)
         \/ WakeConversation(s) \/ ReviveConversation(s)
         \/ WriteOfferEdit(s) \/ WriteRejection(s)
         \/ CancelEffects(s) \/ ResolveEffects(s)
  PROVE  LifeMoves /\ FramesLive
<1>1. UNCHANGED <<mission, dispute, proof>>
  BY DEF HideConversation, EraseConversation, InsertOffer, WakeConversation,
         ReviveConversation, WriteOfferEdit, WriteRejection, CancelEffects,
         ResolveEffects, ApplyStatusSideEffects, Refuse, db
<1>2. \/ Reply(s)
      \/ Goto(s, "offer_wake") \/ Goto(s, "offer_revive")
  BY DEF HideConversation, EraseConversation, InsertOffer, WakeConversation,
         ReviveConversation, WriteOfferEdit, WriteRejection, CancelEffects,
         ResolveEffects, ApplyStatusSideEffects, Refuse
<1>3. {"offer_wake", "offer_revive"} \cap LifeSteps = {}
  BY DEF LifeSteps, PaidSteps, CodeSteps, AcceptSteps
<1> QED
  BY <1>1, <1>2, <1>3, StillLife, ReplyLives, GotoLives

\* An acceptance goes on with the mission it read.
LEMMA AcceptanceReadsLive ==
  ASSUME LifeInv, PaidLasts, NEW s \in Slots,
         CheckCarrierKyc(s) \/ ReadMissionToAccept(s)
  PROVE  LifeMoves /\ FramesLive
<1>1. UNCHANGED db /\ req[s].at \in AcceptSteps
  BY DEF CheckCarrierKyc, ReadMissionToAccept, At, AcceptSteps
<1>2. LifeMoves
  BY <1>1, StillLife DEF db
<1>3. PICK step \in AcceptSteps : Reply(s) \/ Goto(s, step)
  BY DEF CheckCarrierKyc, ReadMissionToAccept, AcceptSteps
<1>4. CASE Goto(s, step)
  <2>1. TypeOK /\ FrameLives(s)
    BY DEF LifeInv, StandingInv, EngagementInv
  <2>2. req' = [req EXCEPT ![s] = [req[s] EXCEPT !.at = step]]
    BY <1>4 DEF Goto
  <2>3. /\ req'[s].at = step /\ req'[s].mission = req[s].mission
        /\ req'[s].conv = req[s].conv
    BY <2>1, <2>2 DEF TypeOK, Frames, FrameRecords
  <2>4. FrameLives(s)'
    BY <1>1, <1>3, <2>1, <2>3
    DEF FrameLives, AcceptSteps, PaidSteps, VerifySteps, CodeSteps, At,
        Suits, FreshMission, MissionExists, db
  <2> QED
    BY <1>2, <2>1, <2>2, <2>4, GoodFrame
<1> QED
  BY <1>2, <1>3, <1>4, ReplyLives

\* A cancellation reads its mission again.
LEMMA RereadMissionLives ==
  ASSUME LifeInv, PaidLasts, NEW s \in Slots, RereadMission(s)
  PROVE  LifeMoves /\ FramesLive
<1>1. LifeMoves
  BY StillLife DEF RereadMission, db
<1>2. CASE Reply(s)
  BY <1>1, <1>2, ReplyLives
<1>3. CASE ~Reply(s)
  <2> DEFINE f == [req[s] EXCEPT !.at = "cancel_effects",
                                 !.ad = mission[req[s].mission].ad,
                                 !.status = mission[req[s].mission].status]
  <2>1. TypeOK
    BY DEF LifeInv, StandingInv, EngagementInv
  <2>2. req' = [req EXCEPT ![s] = f]
    BY <1>3, <2>1 DEF RereadMission, TypeOK, Frames, FrameRecords
  <2>3. f.at = "cancel_effects"
    BY <2>1 DEF TypeOK, Frames, FrameRecords
  <2>4. f.at \notin LifeSteps
    BY <2>3 DEF LifeSteps, PaidSteps, CodeSteps, AcceptSteps
  <2> QED
    BY <1>1, <2>1, <2>2, <2>4, PlainFrame
<1> QED
  BY <1>2, <1>3

\* A code that is compared was generated.
LEMMA LoadProofLives ==
  ASSUME LifeInv, PaidLasts, NEW s \in Slots, LoadProof(s)
  PROVE  LifeMoves /\ FramesLive
<1> DEFINE pr == proof[<<req[s].mission, req[s].kind>>]
<1>1. LifeMoves
  BY StillLife DEF LoadProof, db
<1>2. CASE Reply(s)
  BY <1>1, <1>2, ReplyLives
<1>3. CASE ~Reply(s)
  <2>1. TypeOK /\ FrameLives(s) /\ UNCHANGED db /\ At(s, "verify_load")
    BY DEF LifeInv, StandingInv, EngagementInv, LoadProof
  <2>2. PICK step \in {"verify_count", "verify_commit"} :
          req' = [req EXCEPT ![s].at = step, ![s].code = pr.code]
    BY <1>3 DEF LoadProof
  <2>3. pr.code > 0
    BY <1>3 DEF LoadProof, Verifiable
  <2> DEFINE f == [req[s] EXCEPT !.at = step, !.code = pr.code]
  <2>4. req' = [req EXCEPT ![s] = f]
    BY <2>1, <2>2 DEF TypeOK, Frames, FrameRecords
  <2>5. f.at = step /\ f.mission = req[s].mission /\ f.kind = req[s].kind
    BY <2>1 DEF TypeOK, Frames, FrameRecords
  <2> HIDE DEF f
  <2>6. req'[s] = f
    BY <2>1, <2>4 DEF TypeOK
  <2>7. FrameLives(s)'
    BY <2>1, <2>3, <2>5, <2>6
    DEF FrameLives, AcceptSteps, PaidSteps, VerifySteps, CodeSteps, At,
        Paid, PickedUp, db
  <2> QED
    BY <1>1, <2>1, <2>4, <2>7, GoodFrame
<1> QED
  BY <1>2, <1>3

----------------------------------------------------------------------------
(* Statements that write one mission, its dispute or its codes *)

\* A statement that is refused.
LEMMA RefuseLives ==
  ASSUME LifeInv, PaidLasts, NEW s \in Slots, Refuse(s)
  PROVE  LifeMoves /\ FramesLive
BY StillLife, ReplyLives DEF Refuse, db

\* Packages are added or removed.
LEMMA WritePackagesLives ==
  ASSUME LifeInv, PaidLasts, NEW s \in Slots, WritePackages(s)
  PROVE  LifeMoves /\ FramesLive
<1> DEFINE m == req[s].mission
<1>1. CASE Refuse(s)
  BY <1>1, RefuseLives
<1>2. CASE ~Refuse(s)
  <2>0. TypeOK /\ m \in Missions
    BY MissionOperand
    DEF LifeInv, StandingInv, EngagementInv, WritePackages, At, MissionSteps,
        PackageSteps
  <2>1. PICK ps : mission' = [mission EXCEPT ![m].packages = ps]
    BY <1>2 DEF WritePackages
  <2>2. \A x \in Missions :
          /\ mission'[x].status = mission[x].status
          /\ mission'[x].carrier = mission[x].carrier
          /\ mission'[x].shipper = mission[x].shipper
    BY <2>0, <2>1 DEF TypeOK, MissionRows
  <2>3. UNCHANGED <<dispute, proof>> /\ Reply(s)
    BY <1>2 DEF WritePackages
  <2> QED
    BY <2>2, <2>3, SameLife, ReplyLives DEF LifeMoves
<1> QED
  BY <1>1, <1>2

\* A mission of which only the status is written.
LEMMA StatusWritten ==
  ASSUME LifeInv, PaidLasts, NEW m \in Missions, NEW status,
         mission' = [mission EXCEPT ![m].status = status]
  PROVE  /\ mission'[m].status = status
         /\ mission'[m].carrier = mission[m].carrier
         /\ mission'[m].shipper = mission[m].shipper
         /\ \A x \in Missions \ {m} : mission'[x] = mission[x]
BY DEF LifeInv, StandingInv, EngagementInv, TypeOK, MissionRows

\* A status, and a dispute that is not taken back, are written; codes stay.
LEMMA StatusLife ==
  ASSUME LifeInv, PaidLasts, NEW m \in Missions,
         mission'[m].carrier = mission[m].carrier,
         mission'[m].shipper = mission[m].shipper,
         proof' = proof,
         dispute[m] # "absent" => dispute'[m] # "absent",
         dispute[m] = "RESOLVED" => dispute'[m] = "RESOLVED",
         \/ dispute'[m] # "absent" /\ Paid(m)
         \/ /\ dispute'[m] = dispute[m]
            /\ mission[m].status \in {"PENDING", "ACCEPTED"}
            /\ mission'[m].status = "CANCELLED"
  PROVE  LifeMove(m)
<1>1. LifeStands(m) /\ (Paid(m) => Paid(m)')
  BY DEF LifeInv, PaidLasts
<1>2. PickedUp(m)' <=> PickedUp(m)
  BY DEF PickedUp
<1>3. LifeStands(m)'
  BY <1>1 DEF LifeStands, EngagedStatus, CarriedStatuses
<1>4. StaysDelivered(m) => StaysDelivered(m)'
  BY DEF StaysDelivered
<1> QED
  BY <1>2, <1>3, <1>4 DEF LifeMove

\* A cancellation finds the mission PENDING or ACCEPTED.
LEMMA WriteCancellationLives ==
  ASSUME LifeInv, PaidLasts, NEW s \in Slots, WriteCancellation(s)
  PROVE  LifeMoves /\ FramesLive
<1> DEFINE m == req[s].mission
<1>1. CASE Refuse(s)
  BY <1>1, RefuseLives
<1>2. CASE ~Refuse(s)
  <2>0. m \in Missions
    BY MissionOperand
    DEF LifeInv, StandingInv, EngagementInv, WriteCancellation, At,
        MissionSteps, CancelSteps
  <2>1. mission[m].status \in {"PENDING", "ACCEPTED"}
    BY <1>2 DEF WriteCancellation, LifeInv, FrameLives
  <2>2. /\ mission' = [mission EXCEPT ![m].status = "CANCELLED"]
        /\ UNCHANGED <<dispute, proof>> /\ Goto(s, "cancel_reread")
    BY <1>2 DEF WriteCancellation
  <2>3. /\ mission'[m].status = "CANCELLED"
        /\ mission'[m].carrier = mission[m].carrier
        /\ mission'[m].shipper = mission[m].shipper
        /\ \A x \in Missions \ {m} : mission'[x] = mission[x]
    BY <2>0, <2>2, StatusWritten
  <2>4. LifeMove(m)
    BY <2>0, <2>1, <2>2, <2>3, StatusLife
  <2>5. LifeMoves
    BY <2>0, <2>2, <2>3, <2>4, OneLife
  <2> QED
    BY <2>2, <2>5, GotoLives DEF LifeSteps, PaidSteps, CodeSteps, AcceptSteps
<1> QED
  BY <1>1, <1>2

\* A dispute is opened in a mission with a deal.
LEMMA CommitDisputeLives ==
  ASSUME LifeInv, PaidLasts, NEW s \in Slots, CommitDispute(s)
  PROVE  LifeMoves /\ FramesLive
<1> DEFINE m == req[s].mission
<1>1. CASE Refuse(s)
  BY <1>1, RefuseLives
<1>2. CASE ~Refuse(s)
  <2>0. TypeOK /\ m \in Missions
    BY MissionOperand
    DEF LifeInv, StandingInv, EngagementInv, CommitDispute, At, MissionSteps
  <2>1. Paid(m)
    BY DEF CommitDispute, LifeInv, FrameLives, PaidSteps, At
  <2>2. /\ mission' = [mission EXCEPT ![m].status = "DISPUTED"]
        /\ dispute' = [dispute EXCEPT ![m] = "OPEN"] /\ dispute[m] = "absent"
        /\ UNCHANGED proof /\ Reply(s)
    BY <1>2 DEF CommitDispute
  <2>3. /\ mission'[m].status = "DISPUTED"
        /\ mission'[m].carrier = mission[m].carrier
        /\ mission'[m].shipper = mission[m].shipper
        /\ \A x \in Missions \ {m} : mission'[x] = mission[x]
    BY <2>0, <2>2, StatusWritten
  <2>4. dispute'[m] = "OPEN" /\ \A x \in Missions \ {m} : dispute'[x] = dispute[x]
    BY <2>0, <2>2 DEF TypeOK
  <2>5. LifeMove(m)
    BY <2>0, <2>1, <2>2, <2>3, <2>4, StatusLife
  <2>6. LifeMoves
    BY <2>0, <2>2, <2>3, <2>4, <2>5, OneLife
  <2> QED
    BY <2>2, <2>6, ReplyLives
<1> QED
  BY <1>1, <1>2

\* A resolution decides a mission with a deal, and goes on with it.
LEMMA CommitResolutionLives ==
  ASSUME LifeInv, PaidLasts, NEW s \in Slots, CommitResolution(s)
  PROVE  LifeMoves /\ FramesLive
<1> DEFINE m == req[s].mission
<1>1. CASE Refuse(s)
  BY <1>1, RefuseLives
<1>2. CASE ~Refuse(s)
  <2>0. TypeOK /\ m \in Missions
    BY MissionOperand
    DEF LifeInv, StandingInv, EngagementInv, CommitResolution, At,
        MissionSteps
  <2>1. Paid(m)
    BY DEF CommitResolution, LifeInv, FrameLives, PaidSteps, At
  <2>2. /\ mission' = [mission EXCEPT ![m].status = req[s].status]
        /\ dispute' = [dispute EXCEPT ![m] = "RESOLVED"] /\ dispute[m] = "OPEN"
        /\ UNCHANGED proof /\ Goto(s, "resolve_effects")
    BY <1>2 DEF CommitResolution
  <2>3. /\ mission'[m].status = req[s].status
        /\ mission'[m].carrier = mission[m].carrier
        /\ mission'[m].shipper = mission[m].shipper
        /\ \A x \in Missions \ {m} : mission'[x] = mission[x]
    BY <2>0, <2>2, StatusWritten
  <2>4. /\ dispute'[m] = "RESOLVED"
        /\ \A x \in Missions \ {m} : dispute'[x] = dispute[x]
    BY <2>0, <2>2 DEF TypeOK
  <2>5. LifeMove(m)
    BY <2>0, <2>1, <2>2, <2>3, <2>4, StatusLife
  <2>6. LifeMoves
    BY <2>0, <2>2, <2>3, <2>4, <2>5, OneLife
  <2>7. req' = [req EXCEPT ![s] = [req[s] EXCEPT !.at = "resolve_effects"]]
    BY <2>2 DEF Goto
  <2>8. req'[s].at = "resolve_effects" /\ req'[s].mission = m
    BY <2>0, <2>7 DEF TypeOK, Frames, FrameRecords
  <2>9. FrameLives(s)'
    BY <2>0, <2>1, <2>8
    DEF FrameLives, PaidLasts, AcceptSteps, VerifySteps, At
  <2> QED
    BY <2>0, <2>6, <2>7, <2>9, GoodFrame
<1> QED
  BY <1>1, <1>2

----------------------------------------------------------------------------
(* Codes *)

\* A code of mission m is written: a newer one or the same, and one that was
\* used stays so unless it is replaced.
LEMMA CodeLife ==
  ASSUME LifeInv, PaidLasts, NEW m \in Missions, NEW k \in ProofKinds,
         NEW r \in ProofRows, proof' = [proof EXCEPT ![<<m, k>>] = r],
         UNCHANGED <<mission, dispute>>,
         r.code >= proof[<<m, k>>].code, r.used => r.code > 0,
         proof[<<m, k>>].used => r.used \/ r.code > 1
  PROVE  LifeMoves
<1>1. /\ proof'[<<m, k>>] = r
      /\ \A x \in Missions, j \in ProofKinds :
           <<x, j>> # <<m, k>> => proof'[<<x, j>>] = proof[<<x, j>>]
      /\ proof[<<m, k>>] \in ProofRows
  BY DEF LifeInv, StandingInv, EngagementInv, TypeOK
<1>2. proof[<<m, k>>].code \in Nat /\ r.code \in Nat
  BY <1>1 DEF ProofRows
<1>3. LifeStands(m) /\ (Paid(m) => Paid(m)')
  BY DEF LifeInv, PaidLasts
<1>4. PickedUp(m) => PickedUp(m)'
  <2>1. CASE k = "PICKUP"
    BY <1>1, <1>2, <2>1 DEF PickedUp
  <2>2. CASE k # "PICKUP"
    BY <1>1, <2>2 DEF PickedUp, ProofKinds
  <2> QED
    BY <2>1, <2>2
<1>5. proof[<<m, "PICKUP">>].code > 1 => proof'[<<m, "PICKUP">>].code > 1
  <2>1. CASE k = "PICKUP"
    BY <1>1, <1>2, <2>1
  <2>2. CASE k # "PICKUP"
    BY <1>1, <2>2 DEF ProofKinds
  <2> QED
    BY <2>1, <2>2
<1>6. \A j \in ProofKinds :
        /\ proof'[<<m, j>>].used => proof'[<<m, j>>].code > 0
        /\ proof[<<m, j>>].code > 0 => proof'[<<m, j>>].code > 0
  <2> SUFFICES ASSUME NEW j \in ProofKinds
               PROVE  /\ proof'[<<m, j>>].used => proof'[<<m, j>>].code > 0
                      /\ proof[<<m, j>>].code > 0 => proof'[<<m, j>>].code > 0
    OBVIOUS
  <2>1. CASE j = k
    BY <1>1, <1>2, <2>1
  <2>2. CASE j # k
    BY <1>1, <1>3, <2>2 DEF LifeStands
  <2> QED
    BY <2>1, <2>2
<1>7. LifeStands(m)'
  BY <1>3, <1>4, <1>6 DEF LifeStands
<1>8. StaysDelivered(m) => StaysDelivered(m)'
  BY <1>5 DEF StaysDelivered
<1>9. LifeMove(m)
  BY <1>4, <1>6, <1>7, <1>8 DEF LifeMove
<1> QED
  BY <1>1, <1>9, OneLife

\* The operands of the statements on codes.
LEMMA CodeOperand ==
  ASSUME LifeInv, NEW s \in Slots, req[s].at \in CodeSteps
  PROVE  /\ req[s].mission \in Missions /\ req[s].kind \in ProofKinds
         /\ proof \in [Missions \X ProofKinds -> ProofRows]
BY LifeOperand
DEF LifeInv, StandingInv, EngagementInv, TypeOK, LifeSteps, PaidSteps

\* A new code replaces one that was generated, if that one was used.
LEMMA WriteCodeLives ==
  ASSUME LifeInv, PaidLasts, NEW s \in Slots, WriteCode(s)
  PROVE  LifeMoves /\ FramesLive
<1>1. CASE Refuse(s)
  BY <1>1, RefuseLives
<1>2. CASE ~Refuse(s)
  <2>1. PICK m \in Missions, k \in ProofKinds :
          m = req[s].mission /\ k = req[s].kind
    BY CodeOperand DEF WriteCode, At, CodeSteps
  <2>2. proof \in [Missions \X ProofKinds -> ProofRows]
    BY DEF LifeInv, StandingInv, EngagementInv, TypeOK
  <2>3. proof[<<m, k>>] \in ProofRows
    BY <2>2
  <2> DEFINE r == [code |-> proof[<<m, k>>].code + 1, used |-> FALSE,
                   attempts |-> 0]
  <2>4. /\ proof' = [proof EXCEPT ![<<m, k>>] = r]
        /\ UNCHANGED <<mission, dispute>> /\ Reply(s)
    BY <1>2, <2>1, <2>2 DEF WriteCode
  <2>5. /\ r \in ProofRows /\ r.code >= proof[<<m, k>>].code /\ ~r.used
        /\ proof[<<m, k>>].code > 0 => r.code > 1
    BY <2>3 DEF ProofRows
  <2>6. proof[<<m, k>>].used => proof[<<m, k>>].code > 0
    BY DEF LifeInv, LifeStands
  <2> HIDE DEF r
  <2>7. LifeMoves
    BY <2>4, <2>5, <2>6, CodeLife
  <2> QED
    BY <2>4, <2>7, ReplyLives
<1> QED
  BY <1>1, <1>2

\* A wrong attempt leaves the code.
LEMMA CountAttemptLives ==
  ASSUME LifeInv, PaidLasts, NEW s \in Slots, CountAttempt(s)
  PROVE  LifeMoves /\ FramesLive
<1>1. CASE Refuse(s)
  BY <1>1, RefuseLives
<1>2. CASE ~Refuse(s)
  <2>1. PICK m \in Missions, k \in ProofKinds :
          m = req[s].mission /\ k = req[s].kind
    BY CodeOperand DEF CountAttempt, At, CodeSteps
  <2>2. proof \in [Missions \X ProofKinds -> ProofRows]
    BY DEF LifeInv, StandingInv, EngagementInv, TypeOK
  <2>3. proof[<<m, k>>] \in ProofRows
    BY <2>2
  <2> DEFINE r == [proof[<<m, k>>] EXCEPT !.attempts = @ + 1]
  <2>4. /\ proof' = [proof EXCEPT ![<<m, k>>] = r]
        /\ UNCHANGED <<mission, dispute>> /\ Reply(s)
    BY <1>2, <2>1, <2>2 DEF CountAttempt
  <2>5. /\ r \in ProofRows /\ r.code >= proof[<<m, k>>].code
        /\ proof[<<m, k>>].used => r.used
        /\ r.used => proof[<<m, k>>].used
        /\ proof[<<m, k>>].code > 0 => r.code > 0
    BY <2>3 DEF ProofRows
  <2>6. proof[<<m, k>>].used => proof[<<m, k>>].code > 0
    BY DEF LifeInv, LifeStands
  <2> HIDE DEF r
  <2>7. LifeMoves
    BY <2>4, <2>5, <2>6, CodeLife
  <2> QED
    BY <2>4, <2>7, ReplyLives
<1> QED
  BY <1>1, <1>2

\* A code that is used was generated; a mission that is on the road anew,
\* after its delivery, has a newer pickup code.
LEMMA CommitVerificationLives ==
  ASSUME LifeInv, PaidLasts, NEW s \in Slots, CommitVerification(s)
  PROVE  LifeMoves /\ FramesLive
<1>1. CASE Refuse(s)
  BY <1>1, RefuseLives
<1>2. CASE ~Refuse(s)
  <2>1. PICK m \in Missions, k \in ProofKinds :
          m = req[s].mission /\ k = req[s].kind
    BY CodeOperand DEF CommitVerification, At, CodeSteps
  <2>2. proof \in [Missions \X ProofKinds -> ProofRows]
    BY DEF LifeInv, StandingInv, EngagementInv, TypeOK
  <2>3. /\ proof' = [proof EXCEPT ![<<m, k>>].used = TRUE]
        /\ ~proof[<<m, k>>].used /\ UNCHANGED dispute /\ Reply(s)
    BY <1>2, <2>1 DEF CommitVerification
  <2>4. PICK status \in CarriedStatuses :
          /\ mission' = [mission EXCEPT ![m].status = status]
          /\ k = "PICKUP" => status = "IN_TRANSIT"
          /\ k = "DELIVERY" => status = "COMPLETED"
    BY <1>2, <2>1 DEF CommitVerification, CarriedStatuses
  <2>5. /\ mission'[m].status = status
        /\ mission'[m].carrier = mission[m].carrier
        /\ mission'[m].shipper = mission[m].shipper
        /\ \A x \in Missions \ {m} : mission'[x] = mission[x]
    BY <2>4, StatusWritten
  <2>6. /\ \A x \in Missions, j \in ProofKinds :
             proof'[<<x, j>>].code = proof[<<x, j>>].code
        /\ \A x \in Missions, j \in ProofKinds :
             <<x, j>> # <<m, k>> => proof'[<<x, j>>] = proof[<<x, j>>]
        /\ proof'[<<m, k>>].used
    BY <2>2, <2>3 DEF ProofRows
  <2>7. /\ Paid(m) /\ proof[<<m, k>>].code > 0
        /\ k = "DELIVERY" => dispute[m] # "absent" \/ PickedUp(m)
    BY <2>1
    DEF CommitVerification, LifeInv, FrameLives, PaidSteps, CodeSteps,
        VerifySteps, At
  <2>8. LifeStands(m) /\ Paid(m)'
    BY <2>7 DEF LifeInv, PaidLasts
  <2>9. PickedUp(m) => PickedUp(m)'
    BY <2>6 DEF PickedUp, ProofKinds
  <2>10. k = "PICKUP" => PickedUp(m)'
    BY <2>6 DEF PickedUp
  <2>11. \A j \in ProofKinds :
           proof'[<<m, j>>].used => proof'[<<m, j>>].code > 0
    BY <2>6, <2>7, <2>8 DEF LifeStands
  <2>12. LifeStands(m)'
    <3>1. mission'[m].carrier # None => mission'[m].carrier # mission'[m].shipper
      BY <2>5, <2>8 DEF LifeStands
    <3>2. dispute'[m] # "absent" \/ PickedUp(m)'
      BY <2>3, <2>7, <2>9, <2>10 DEF ProofKinds
    <3> QED
      BY <2>8, <2>11, <3>1, <3>2 DEF LifeStands
  <2>13. StaysDelivered(m) => StaysDelivered(m)'
    <3>1. CASE dispute[m] # "absent" \/ k = "DELIVERY"
      BY <2>3, <2>4, <2>5, <3>1 DEF StaysDelivered
    <3>2. CASE dispute[m] = "absent" /\ k = "PICKUP"
      <4>1. status = "IN_TRANSIT"
        BY <2>4, <3>2
      <4>2. StaysDelivered(m) => proof[<<m, "PICKUP">>].code > 1
        BY <2>3, <2>8, <3>2
        DEF StaysDelivered, LifeStands, PickedUp, CarriedStatuses
      <4> QED
        BY <2>5, <2>6, <4>1, <4>2 DEF StaysDelivered, ProofKinds
    <3> QED
      BY <3>1, <3>2 DEF ProofKinds
  <2>14. LifeMove(m)
    BY <2>3, <2>6, <2>9, <2>12, <2>13 DEF LifeMove
  <2>15. LifeMoves
    BY <2>3, <2>5, <2>6, <2>14, OneLife
  <2> QED
    BY <2>3, <2>15, ReplyLives
<1> QED
  BY <1>1, <1>2

----------------------------------------------------------------------------
(* Acceptances, insertions and deletions *)

\* A conversation has two sides.
LEMMA TwoParties ==
  ASSUME NEW c \in Convs
  PROVE  Carrier(c) # Shipper(c)
BY DEF Convs, Carrier, Shipper

\* An acceptance engages somebody else than the shipper; the competitors it
\* cancels have no deal.
LEMMA CommitAcceptanceLives ==
  ASSUME LifeInv, PaidLasts, NEW s \in Slots, CommitAcceptance(s)
  PROVE  LifeMoves /\ FramesLive
<1>0. TypeOK /\ FrameLives(s)
  BY DEF LifeInv, StandingInv, EngagementInv
<1>1. CASE Refuse(s)
  BY <1>1, RefuseLives
<1>2. CASE ~Refuse(s)
  <2>1. PICK m \in Missions, c \in Convs, p \in {req[s].price} :
          m = req[s].mission /\ c = req[s].conv
    BY <1>0, <1>2, CommitAcceptanceEngages
  <2>2. /\ mission[m].status = "PENDING" /\ payment[m].status = "absent"
        /\ mission' = [x \in Missions |-> EngagedMission(x, m, Carrier(c), p)]
        /\ payment' = [payment EXCEPT ![m] =
                         [status |-> "PENDING", amount |-> p]]
        /\ UNCHANGED <<dispute, proof>> /\ Reply(s)
    BY <1>2, <2>1 DEF CommitAcceptance, CanEngage
  <2>3. Suits(m, c)
    BY <1>0, <2>1, <2>2
    DEF FrameLives, CommitAcceptance, At, AcceptSteps, MissionExists, NoRow
  <2>4. /\ mission'[m].status = "ACCEPTED" /\ mission'[m].carrier = Carrier(c)
        /\ mission'[m].shipper = mission[m].shipper /\ Paid(m)'
    <3>1. mission[m] \in MissionRows
      BY <1>0 DEF TypeOK
    <3>2. mission'[m] = EngagedMission(m, m, Carrier(c), p)
      BY <2>2
    <3>3. payment'[m] = [status |-> "PENDING", amount |-> p]
      BY <1>0, <2>2 DEF TypeOK
    <3> QED
      BY <3>1, <3>2, <3>3 DEF EngagedMission, MissionRows, Paid
  <2>5. LifeStands(m) /\ ~Paid(m)
    BY <2>2 DEF LifeInv, Paid
  <2>6. LifeMove(m)
    <3>1. mission'[m].carrier # mission'[m].shipper
      BY <2>3, <2>4, TwoParties DEF Suits
    <3>2. LifeStands(m)'
      BY <2>2, <2>4, <2>5, <3>1 DEF LifeStands, CarriedStatuses
    <3> QED
      BY <2>5, <3>2 DEF LifeMove
  <2>7. ASSUME NEW x \in Missions \ {m} PROVE LifeMove(x)
    <3>1. mission[x] \in MissionRows
      BY <1>0 DEF TypeOK
    <3>2. mission'[x] = EngagedMission(x, m, Carrier(c), p)
      BY <2>2
    <3>3. CASE mission'[x] = mission[x]
      BY <2>2, <3>3, SameLife
    <3>4. CASE mission'[x] # mission[x]
      <4>1. /\ mission[x].status = "PENDING"
            /\ mission'[x].status = "CANCELLED"
            /\ mission'[x].carrier = mission[x].carrier
            /\ mission'[x].shipper = mission[x].shipper
        BY <3>1, <3>2, <3>4 DEF EngagedMission, MissionRows
      <4> QED
        BY <2>2, <4>1, StatusLife
    <3> QED
      BY <3>3, <3>4
  <2>8. LifeMoves
    BY <2>6, <2>7 DEF LifeMoves
  <2> QED
    BY <2>2, <2>8, ReplyLives
<1> QED
  BY <1>1, <1>2

\* A mission is inserted, by itself or with its conversation.
LEMMA InsertionsLive ==
  ASSUME LifeInv, PaidLasts, NEW s \in Slots,
         InsertMission(s) \/ WriteConversation(s)
  PROVE  LifeMoves /\ FramesLive
<1>1. UNCHANGED <<dispute, proof>> /\ Reply(s)
  BY DEF InsertMission, WriteConversation, Refuse, db
<1>2. CASE mission' = mission
  BY <1>1, <1>2, StillLife, ReplyLives
<1>3. CASE mission' # mission
  <2>1. CASE InsertMission(s)
    <3>1. PICK m \in Missions, ps \in SUBSET Owned(req[s].who) :
            /\ FreshMission(m)
            /\ mission' = [mission EXCEPT ![m] =
                             Mission("PENDING", req[s].ad, req[s].who, ps)]
      BY <1>3, <2>1 DEF InsertMission, Refuse, db
    <3> QED
      BY <1>1, <3>1, CreationLife, ReplyLives
  <2>2. CASE WriteConversation(s)
    <3> DEFINE c == req[s].conv
    <3>1. PICK m \in Missions, ps \in SUBSET Owned(Shipper(c)) :
            /\ FreshMission(m)
            /\ mission' = [mission EXCEPT ![m] =
                             Mission("PENDING", c[1], Shipper(c), ps)]
      BY <1>3, <2>2 DEF WriteConversation
    <3> QED
      BY <1>1, <3>1, CreationLife, ReplyLives
  <2> QED
    BY <2>1, <2>2
<1> QED
  BY <1>2, <1>3

\* A mission without a deal is deleted.
LEMMA EraseMissionLives ==
  ASSUME LifeInv, PaidLasts, NEW s \in Slots, EraseMission(s)
  PROVE  LifeMoves /\ FramesLive
<1>1. CASE Refuse(s)
  BY <1>1, RefuseLives
<1>2. CASE ~Refuse(s)
  <2>1. PICK m \in Missions : m = req[s].mission
    BY MissionOperand
    DEF LifeInv, StandingInv, EngagementInv, EraseMission, At, MissionSteps
  <2>2. Erasable({m}) /\ EraseMissions({m}) /\ Reply(s)
    BY <1>2, <2>1 DEF EraseMission
  <2>3. LifeMoves
    BY <2>2, ErasureLife
  <2> QED
    BY <2>2, <2>3, ReplyLives
<1> QED
  BY <1>1, <1>2

\* Publications and deletions, badges and messages.
LEMMA OneStatementLives ==
  ASSUME LifeInv, PaidLasts, OneStatement
  PROVE  LifeMoves /\ req' = req
<1>1. ASSUME NEW a \in Ads, PublishAd(a)
      PROVE  LifeMoves /\ req' = req
  <2>1. UNCHANGED <<dispute, proof>> /\ req' = req
    BY <1>1 DEF PublishAd
  <2>2. CASE mission' = mission
    BY <2>1, <2>2, StillLife
  <2>3. CASE mission' # mission
    <3>1. PICK m \in Missions, ps \in SUBSET Owned(AdAuthor[a]) :
            /\ FreshMission(m)
            /\ mission' = [mission EXCEPT ![m] =
                             Mission("PENDING", a, AdAuthor[a], ps)]
      BY <1>1, <2>3 DEF PublishAd
    <3> QED
      BY <2>1, <3>1, CreationLife
  <2> QED
    BY <2>1, <2>2, <2>3
<1>2. ASSUME NEW a \in Ads, DeleteAd(a)
      PROVE  LifeMoves /\ req' = req
  <2> DEFINE D == {m \in Missions : mission[m].ad = a}
  <2>1. /\ D \subseteq Missions /\ Erasable(D) /\ EraseMissions(D)
        /\ req' = req
    BY <1>2 DEF DeleteAd
  <2> HIDE DEF D
  <2> QED
    BY <2>1, ErasureLife
<1>3. ASSUME \/ \E o \in Offers : DeleteMessage(o)
             \/ \E u \in Users : BadgeGranted(u) \/ BadgeRevoked(u)
      PROVE  LifeMoves /\ req' = req
  <2>1. UNCHANGED <<mission, dispute, proof, req>>
    BY <1>3 DEF DeleteMessage, BadgeGranted, BadgeRevoked
  <2> QED
    BY <2>1, StillLife
<1> QED
  BY <1>1, <1>2, <1>3 DEF OneStatement

----------------------------------------------------------------------------
(* Every step *)

\* Every statement of a request in flight.
LEMMA ContinueLives ==
  ASSUME LifeInv, PaidLasts, NEW s \in Slots, Continue(s)
  PROVE  LifeMoves /\ FramesLive
BY SideStatementsLive, AcceptanceReadsLive, RereadMissionLives,
   LoadProofLives, WritePackagesLives, WriteCancellationLives,
   CommitDisputeLives, CommitResolutionLives, WriteCodeLives,
   CountAttemptLives, CommitVerificationLives, CommitAcceptanceLives,
   InsertionsLive, EraseMissionLives
DEF Continue

\* Frames that stay, or are lost with the process.
LEMMA FramesStayOrGo ==
  ASSUME LifeInv, \A s \in Slots : req'[s] \in {req[s], Idle}
  PROVE  FramesLive
BY DEF FramesLive, FrameLives, Idle, PaidSteps, VerifySteps, CodeSteps,
       AcceptSteps, At

\* What engaged missions may become, in any step of the marketplace.
LEMMA LifeStep ==
  ASSUME LifeInv, [Next]_vars
  PROVE  LifeInv' /\ PaidLasts /\ LifeMoves
<1>1. StandingInv' /\ Steady /\ PaidLasts
  BY StandingStep, StepIsSteady, PaidStays DEF LifeInv
<1>2. LifeMoves /\ FramesLive
  <2>1. ASSUME NEW s \in Slots, Arrive(s)
        PROVE  LifeMoves /\ FramesLive
    BY <1>1, <2>1, ArriveLives, StillLife DEF db
  <2>2. ASSUME NEW s \in Slots, Continue(s)
        PROVE  LifeMoves /\ FramesLive
    BY <1>1, <2>2, ContinueLives
  <2>3. CASE OneStatement
    BY <1>1, <2>3, OneStatementLives, FramesStayOrGo
  <2>4. CASE Restart
    <3>1. UNCHANGED <<mission, dispute, proof>>
          /\ \A s \in Slots : req'[s] = Idle
      BY <2>4 DEF Restart, db
    <3> QED
      BY <1>1, <3>1, StillLife, FramesStayOrGo
  <2>5. CASE UNCHANGED vars
    <3>1. UNCHANGED <<mission, dispute, proof, req>>
      BY <2>5 DEF vars
    <3> QED
      BY <1>1, <3>1, StillLife, FramesStayOrGo
  <2> QED
    BY <2>1, <2>2, <2>3, <2>4, <2>5 DEF Next
<1> QED
  BY <1>1, <1>2, LifeKept

\* The empty tables.
LEMMA LifeInit == Init => LifeInv
<1> SUFFICES ASSUME Init PROVE LifeInv
  OBVIOUS
<1>1. \A m \in Missions : LifeStands(m)
  BY DEF Init, StoreInit, LifeStands, EngagedStatus, CarriedStatuses,
         NoMission, Mission, NoProof
<1>2. \A s \in Slots : FrameLives(s)
  BY DEF Init, StoreInit, Idle, FrameLives, PaidSteps, VerifySteps,
         CodeSteps, AcceptSteps, At
<1> QED
  BY <1>1, <1>2, StandingInit DEF LifeInv

----------------------------------------------------------------------------
(* Ratings and tickets *)

\* A step of slot s moves no other slot.
LEMMA OneSlotMoves ==
  ASSUME TypeOK, NEW s \in Slots, Arrive(s) \/ Continue(s)
  PROVE  \A v \in Slots \ {s} : req'[v] = req[v]
<1>1. ASSUME Arrive(s) PROVE \E f : Begin(s, f)
  BY <1>1
  DEF Arrive, OpenConversation, RemoveConversation, SendOffer, EditOffer,
      AcceptOffer, RejectOffer, CreateMission, ChangePackages, DeleteMission,
      CancelMission, GenerateCode, SubmitCode, OpenDispute, ResolveDispute
<1>2. CASE Arrive(s)
  BY <1>1, <1>2 DEF Begin, TypeOK
<1>3. CASE Continue(s)
  BY <1>3
  DEF TypeOK, Continue, Reply, Goto, Refuse, WriteConversation,
      HideConversation, EraseConversation, InsertOffer, WakeConversation,
      ReviveConversation, WriteOfferEdit, CheckCarrierKyc,
      ReadMissionToAccept, CommitAcceptance, WriteRejection, InsertMission,
      WritePackages, EraseMission, WriteCancellation, RereadMission,
      CancelEffects, ApplyStatusSideEffects, WriteCode, LoadProof,
      CountAttempt, CommitVerification, CommitDispute, CommitResolution,
      ResolveEffects
<1> QED
  BY <1>2, <1>3

\* Only a committed resolution goes on to the side effects of a verdict.
LEMMA VerdictsArePronounced ==
  ASSUME TypeOK, NEW s \in Slots, Arrive(s) \/ Continue(s),
         req'[s].at = "resolve_effects"
  PROVE  /\ req[s].mission \in Missions
         /\ dispute[req[s].mission] = "OPEN"
         /\ dispute' = [dispute EXCEPT ![req[s].mission] = "RESOLVED"]
         /\ req'[s].mission = req[s].mission /\ req'[s].status = req[s].status
<1>1. ASSUME NEW f, req' = [req EXCEPT ![s] = f] PROVE req'[s] = f
  BY <1>1 DEF TypeOK
<1>2. ~Reply(s)
  BY <1>1 DEF Reply, Idle
<1>3. ~Arrive(s)
  <2>1. ASSUME NEW f, Begin(s, f), f.at # "resolve_effects" PROVE FALSE
    BY <1>1, <2>1 DEF Begin
  <2> QED
    BY <2>1
    DEF Arrive, OpenConversation, RemoveConversation, SendOffer, EditOffer,
        AcceptOffer, RejectOffer, CreateMission, ChangePackages,
        DeleteMission, CancelMission, GenerateCode, SubmitCode, OpenDispute,
        ResolveDispute, Idle
<1>4. ASSUME NEW step, Goto(s, step)
      PROVE  /\ step = "resolve_effects"
             /\ req'[s].mission = req[s].mission /\ req'[s].status = req[s].status
  BY <1>4 DEF Goto, TypeOK, Frames, FrameRecords
<1>5. ~RereadMission(s) /\ ~LoadProof(s)
  BY <1>2 DEF RereadMission, LoadProof, TypeOK, Frames, FrameRecords
<1>6. CommitResolution(s)
  <2>1. /\ ~Goto(s, "offer_wake") /\ ~Goto(s, "offer_revive")
        /\ ~Goto(s, "accept_read") /\ ~Goto(s, "accept_commit")
        /\ ~Goto(s, "cancel_reread")
    BY <1>4
  <2>2. /\ ~WriteConversation(s) /\ ~HideConversation(s)
        /\ ~EraseConversation(s) /\ ~InsertOffer(s) /\ ~WakeConversation(s)
        /\ ~ReviveConversation(s) /\ ~WriteOfferEdit(s)
    BY <1>2, <2>1
    DEF Refuse, WriteConversation, HideConversation, EraseConversation,
        InsertOffer, WakeConversation, ReviveConversation, WriteOfferEdit
  <2>3. /\ ~CheckCarrierKyc(s) /\ ~ReadMissionToAccept(s)
        /\ ~CommitAcceptance(s) /\ ~WriteRejection(s)
    BY <1>2, <2>1
    DEF Refuse, CheckCarrierKyc, ReadMissionToAccept, CommitAcceptance,
        WriteRejection
  <2>4. /\ ~InsertMission(s) /\ ~WritePackages(s) /\ ~EraseMission(s)
        /\ ~WriteCancellation(s) /\ ~CancelEffects(s) /\ ~ResolveEffects(s)
    BY <1>2, <2>1
    DEF Refuse, InsertMission, WritePackages, EraseMission,
        WriteCancellation, CancelEffects, ResolveEffects,
        ApplyStatusSideEffects
  <2>5. /\ ~WriteCode(s) /\ ~CountAttempt(s) /\ ~CommitVerification(s)
        /\ ~CommitDispute(s)
    BY <1>2 DEF Refuse, WriteCode, CountAttempt, CommitVerification,
                CommitDispute
  <2> QED
    BY <1>3, <1>5, <2>2, <2>3, <2>4, <2>5 DEF Continue
<1>7. req[s].mission \in Missions
  BY <1>6, MissionOperand DEF CommitResolution, At, MissionSteps
<1> QED
  BY <1>2, <1>4, <1>6, <1>7 DEF CommitResolution, Refuse

\* A deal that was delivered stays what its raters saw.
LEMMA RatedStays ==
  ASSUME PaidLasts, LifeMoves, NEW m \in Missions, NEW u, NEW v,
         RatedWell(m, u, v)
  PROVE  RatedWell(m, u, v)'
BY DEF RatedWell, PaidLasts, LifeMoves, LifeMove

\* Steps of the marketplace take ratings away with their mission only.
LEMMA RatingsStay ==
  ASSUME CareInv, PaidLasts, LifeMoves,
         rater' \subseteq rater,
         DOMAIN rating' = Missions \X Users,
         \A x \in Missions \X Users : rating'[x] \in {rating[x], None}
  PROVE  /\ rater' \subseteq Missions \X Users \X Users
         /\ \A x \in rater' : RatedWell(x[1], x[2], x[3])'
         /\ \A m \in Missions, u \in Users :
              rating'[<<m, u>>] # None => RatedWell(m, u, rating[<<m, u>>])'
<1>1. rater' \subseteq Missions \X Users \X Users
  BY DEF CareInv, CareTypeOK
<1>2. ASSUME NEW x \in rater' PROVE RatedWell(x[1], x[2], x[3])'
  <2>1. x \in Missions \X Users \X Users /\ RatedWell(x[1], x[2], x[3])
    BY DEF CareInv, CareTypeOK
  <2>2. PICK m \in Missions, u \in Users, v \in Users :
          m = x[1] /\ u = x[2] /\ v = x[3]
    BY <2>1
  <2> QED
    BY <2>1, <2>2, RatedStays
<1>3. ASSUME NEW m \in Missions, NEW u \in Users, rating'[<<m, u>>] # None
      PROVE  RatedWell(m, u, rating[<<m, u>>])'
  <2>1. PICK v : v = rating[<<m, u>>] /\ v = rating'[<<m, u>>]
    BY <1>3
  <2>2. RatedWell(m, u, v)
    BY <1>3, <2>1 DEF CareInv
  <2>3. RatedWell(m, u, v)'
    BY <2>2, RatedStays
  <2> QED
    BY <2>1, <2>3
<1> QED
  BY <1>1, <1>2, <1>3

\* A step of the marketplace, seen from here.
LEMMA CareOfNext ==
  ASSUME CareInv, [Next]_vars
  PROVE  LifeInv' /\ PaidLasts /\ LifeMoves
BY LifeStep DEF CareInv

\* A dispute that is resolved belongs to a deal, and stays resolved.
LEMMA ResolvedStays ==
  ASSUME LifeInv, LifeMoves, NEW m \in Missions, dispute[m] = "RESOLVED"
  PROVE  dispute'[m] = "RESOLVED"
BY DEF LifeInv, LifeStands, LifeMoves, LifeMove

\* A step in which a dispute may be resolved, and its verdict is recorded.
LEMMA ServeTells ==
  ASSUME CareInv, LifeMoves, NEW s \in Slots, Serve(s)
  PROVE  /\ ticket' = ticket /\ closing' \in [Missions -> SUBSET Verdicts]
         /\ verdict' \in [Missions -> Verdicts]
         /\ \A m \in Missions : ToldWell(m)'
<1>0. /\ TypeOK /\ LifeInv
      /\ closing \in [Missions -> SUBSET Verdicts]
      /\ verdict \in [Missions -> Verdicts]
  BY DEF CareInv, CareTypeOK, LifeInv, StandingInv, EngagementInv
<1>1. ticket' = ticket /\ TellsTracker(s) /\ RecordsVerdict(s)
  BY DEF Serve
<1>2. req[s].status \in Verdicts
  BY <1>0 DEF TypeOK, Frames, FrameRecords, Verdicts
<1>3. verdict' \in [Missions -> Verdicts]
  BY <1>0, <1>1, <1>2 DEF RecordsVerdict
<1>4. At(s, "resolve_effects") =>
        /\ req[s].mission \in Missions
        /\ dispute[req[s].mission] = "RESOLVED"
        /\ verdict[req[s].mission] = req[s].status
  BY <1>0, LifeOperand DEF CareInv, FrameTells, At, LifeSteps, PaidSteps
<1>5. closing' \in [Missions -> SUBSET Verdicts]
  BY <1>0, <1>1, <1>2, <1>4 DEF TellsTracker
<1>6. ASSUME NEW m \in Missions PROVE ToldWell(m)'
  <2>1. ToldWell(m)
    BY DEF CareInv
  <2>2. CASE dispute[m] = "RESOLVED"
    <3>1. dispute'[m] = "RESOLVED" /\ verdict'[m] = verdict[m]
      BY <1>0, <1>1, <2>2, ResolvedStays DEF RecordsVerdict
    <3>2. closing'[m] \subseteq {verdict[m]}
      BY <1>0, <1>1, <1>4, <2>1 DEF TellsTracker, ToldWell
    <3> QED
      BY <1>1, <2>1, <3>1, <3>2 DEF ToldWell
  <2>3. CASE dispute[m] # "RESOLVED"
    <3>1. closing'[m] = closing[m]
      BY <1>0, <1>1, <1>4, <2>3 DEF TellsTracker
    <3>2. /\ closing[m] = {} /\ ticket[m].outcome = None
          /\ ticket[m].state # "closed"
      BY <2>1, <2>3 DEF ToldWell
    <3> QED
      BY <1>1, <3>1, <3>2 DEF ToldWell
  <2> QED
    BY <2>2, <2>3
<1> QED
  BY <1>1, <1>3, <1>5, <1>6

\* What a resolution in flight has to tell is the recorded verdict.
LEMMA ServeFrames ==
  ASSUME CareInv, LifeMoves, NEW s \in Slots, Serve(s), NEW v \in Slots
  PROVE  FrameTells(v)'
<1>0. TypeOK /\ LifeInv /\ RecordsVerdict(s) /\ (Arrive(s) \/ Continue(s))
  BY DEF CareInv, LifeInv, StandingInv, EngagementInv, Serve
<1>1. CASE v # s
  <2> SUFFICES ASSUME req[v].at = "resolve_effects"
               PROVE  /\ dispute'[req[v].mission] = "RESOLVED"
                      /\ verdict'[req[v].mission] = req[v].status
    BY <1>0, <1>1, OneSlotMoves DEF FrameTells, At
  <2>1. PICK m \in Missions : m = req[v].mission
    BY <1>0, LifeOperand DEF LifeSteps, PaidSteps
  <2>2. dispute[m] = "RESOLVED" /\ verdict[m] = req[v].status
    BY <2>1 DEF CareInv, FrameTells, At
  <2> QED
    BY <1>0, <2>1, <2>2, ResolvedStays DEF RecordsVerdict
<1>2. CASE v = s
  <2> SUFFICES ASSUME req'[s].at = "resolve_effects"
               PROVE  /\ dispute'[req'[s].mission] = "RESOLVED"
                      /\ verdict'[req'[s].mission] = req'[s].status
    BY <1>2 DEF FrameTells, At
  <2>1. PICK m \in Missions : m = req[s].mission
    BY <1>0, VerdictsArePronounced
  <2>2. /\ dispute[m] = "OPEN" /\ dispute'[m] = "RESOLVED"
        /\ req'[s].mission = m /\ req'[s].status = req[s].status
    BY <1>0, <2>1, VerdictsArePronounced DEF TypeOK
  <2> QED
    BY <1>0, <2>2 DEF RecordsVerdict
<1> QED
  BY <1>1, <1>2

\* A request of the marketplace is served.
LEMMA ServeCares ==
  ASSUME CareInv, NEW s \in Slots, Serve(s)
  PROVE  CareInv'
<1>1. LifeInv' /\ PaidLasts /\ LifeMoves
  BY CareOfNext DEF Serve, Next
<1>2. /\ rater' = rater /\ DOMAIN rating' = Missions \X Users
      /\ \A x \in Missions \X Users : rating'[x] \in {rating[x], None}
  BY DEF Serve, CascadesRatings
<1>3. /\ rater' \subseteq Missions \X Users \X Users
      /\ \A x \in rater' : RatedWell(x[1], x[2], x[3])'
      /\ \A m \in Missions, u \in Users :
           rating'[<<m, u>>] # None => RatedWell(m, u, rating[<<m, u>>])'
  BY <1>1, <1>2, RatingsStay
<1>4. CareTypeOK' /\ \A m \in Missions : ToldWell(m)'
  BY <1>1, <1>2, <1>3, ServeTells DEF CareInv, CareTypeOK
<1>5. \A v \in Slots : FrameTells(v)'
  BY <1>1, ServeFrames
<1> QED
  BY <1>1, <1>3, <1>4, <1>5 DEF CareInv

\* The verdicts and tickets stay while requests do, or go.
LEMMA TellsStay ==
  ASSUME CareInv, LifeMoves, UNCHANGED <<ticket, verdict>>,
         \A m \in Missions : closing'[m] \in {closing[m], {}},
         \A s \in Slots : req'[s] \in {req[s], Idle}
  PROVE  /\ \A m \in Missions : ToldWell(m)'
         /\ \A s \in Slots : FrameTells(s)'
<1>0. TypeOK /\ LifeInv
  BY DEF CareInv, LifeInv, StandingInv, EngagementInv
<1>1. ASSUME NEW m \in Missions PROVE ToldWell(m)'
  <2>1. ToldWell(m) /\ (dispute[m] = "RESOLVED" => dispute'[m] = "RESOLVED")
    BY <1>0, ResolvedStays DEF CareInv
  <2> QED
    BY <2>1 DEF ToldWell
<1>2. ASSUME NEW s \in Slots PROVE FrameTells(s)'
  <2>1. CASE req'[s] = req[s] /\ At(s, "resolve_effects")
    <3>1. PICK m \in Missions : m = req[s].mission
      BY <1>0, <2>1, LifeOperand DEF At, LifeSteps, PaidSteps
    <3>2. dispute[m] = "RESOLVED" /\ verdict[m] = req[s].status
      BY <2>1, <3>1 DEF CareInv, FrameTells
    <3> QED
      BY <1>0, <2>1, <3>1, <3>2, ResolvedStays DEF FrameTells
  <2>2. CASE ~(req'[s] = req[s] /\ At(s, "resolve_effects"))
    BY <2>2 DEF FrameTells, At, Idle
  <2> QED
    BY <2>1, <2>2
<1> QED
  BY <1>1, <1>2

\* Deletions and publications.
LEMMA ServeAtOnceCares ==
  ASSUME CareInv, ServeAtOnce
  PROVE  CareInv'
<1>1. LifeInv' /\ PaidLasts /\ LifeMoves
  BY CareOfNext DEF ServeAtOnce, Next
<1>2. /\ UNCHANGED <<ticket, closing, verdict, rater>>
      /\ DOMAIN rating' = Missions \X Users
      /\ \A x \in Missions \X Users : rating'[x] \in {rating[x], None}
  BY DEF ServeAtOnce, CascadesRatings
<1>3. req' = req
  BY DEF ServeAtOnce, OneStatement, PublishAd, DeleteAd, DeleteMessage,
         BadgeGranted, BadgeRevoked
<1>4. /\ \A x \in rater' : RatedWell(x[1], x[2], x[3])'
      /\ \A m \in Missions, u \in Users :
           rating'[<<m, u>>] # None => RatedWell(m, u, rating[<<m, u>>])'
  BY <1>1, <1>2, RatingsStay
<1>5. /\ \A m \in Missions : ToldWell(m)'
      /\ \A s \in Slots : FrameTells(s)'
  BY <1>1, <1>2, <1>3, TellsStay
<1>6. CareTypeOK'
  BY <1>2 DEF CareInv, CareTypeOK
<1> QED
  BY <1>1, <1>4, <1>5, <1>6 DEF CareInv

\* A restart is one of the marketplace, or finds no request.
LEMMA RestartCares ==
  ASSUME CareInv, RestartCare
  PROVE  CareInv'
<1>1. [Next]_vars
  <2>1. CASE \E s \in Slots : req[s] # Idle
    BY <2>1 DEF RestartCare, Restart, Next
  <2>2. CASE \A s \in Slots : req[s] = Idle
    <3>1. req \in [Slots -> Frames]
      BY DEF CareInv, LifeInv, StandingInv, EngagementInv, TypeOK
    <3>2. req' = req
      BY <2>2, <3>1 DEF RestartCare
    <3> QED
      BY <3>2 DEF RestartCare, vars, db
  <2> QED
    BY <2>1, <2>2
<1>2. LifeInv' /\ PaidLasts /\ LifeMoves
  BY <1>1, CareOfNext
<1>3. /\ UNCHANGED <<ticket, verdict, rating>> /\ rater' = {}
      /\ closing' = [m \in Missions |-> {}]
      /\ \A s \in Slots : req'[s] = Idle
  BY DEF RestartCare
<1>4. CareTypeOK'
  BY <1>3 DEF CareInv, CareTypeOK
<1>5. /\ \A m \in Missions : ToldWell(m)'
      /\ \A s \in Slots : FrameTells(s)'
  BY <1>2, <1>3, TellsStay
<1>6. /\ \A x \in rater' : RatedWell(x[1], x[2], x[3])'
      /\ \A m \in Missions, u \in Users :
           rating'[<<m, u>>] # None => RatedWell(m, u, rating[<<m, u>>])'
  BY <1>2, <1>3, RatingsStay DEF CareInv, CareTypeOK
<1> QED
  BY <1>2, <1>4, <1>5, <1>6 DEF CareInv

----------------------------------------------------------------------------
(* Steps of this module alone *)

\* Nothing of the marketplace moves.
LEMMA MarketStill ==
  ASSUME CareInv, UNCHANGED vars
  PROVE  LifeInv' /\ PaidLasts /\ LifeMoves
         /\ \A s \in Slots : req'[s] = req[s]
<1>1. [Next]_vars
  OBVIOUS
<1> QED
  BY <1>1, CareOfNext DEF vars

\* A rating is of the other party of a deal that was delivered.
LEMMA RateMissionCares ==
  ASSUME CareInv, NEW m \in Missions, NEW u \in Users, RateMission(m, u)
  PROVE  CareInv'
<1>0. PICK v : v = IF u = mission[m].shipper THEN mission[m].carrier
                                             ELSE mission[m].shipper
  OBVIOUS
<1>1. LifeInv' /\ PaidLasts /\ LifeMoves /\ \A s \in Slots : req'[s] = req[s]
  BY MarketStill DEF RateMission
<1>2. /\ rater' = rater \union {<<m, u, v>>}
      /\ UNCHANGED <<rating, ticket, closing, verdict>>
      /\ mission[m].status = "COMPLETED" /\ mission[m].carrier # None
      /\ u \in {mission[m].shipper, mission[m].carrier}
  BY <1>0 DEF RateMission, Rateable
<1>3. LifeStands(m) /\ mission[m] \in MissionRows
  BY DEF CareInv, LifeInv, StandingInv, EngagementInv, TypeOK
<1>4. v \in Users
  BY <1>0, <1>2, <1>3 DEF MissionRows, MissionStatus
<1>5. RatedWell(m, u, v)
  <2>1. MissionExists(m) /\ Paid(m) /\ StaysDelivered(m)
    BY <1>2, <1>3
    DEF LifeStands, EngagedStatus, MissionExists, NoRow, StaysDelivered
  <2>2. mission[m].carrier # mission[m].shipper
    BY <1>2, <1>3 DEF LifeStands
  <2>3. u # v /\ {u, v} = {mission[m].shipper, mission[m].carrier}
    BY <1>0, <1>2, <2>2
  <2> QED
    BY <2>1, <2>3 DEF RatedWell
<1>6. RatedWell(m, u, v)'
  BY <1>1, <1>5, RatedStays
<1>7. ASSUME NEW x \in rater' PROVE RatedWell(x[1], x[2], x[3])'
  <2>1. CASE x \in rater
    <3>1. x \in Missions \X Users \X Users /\ RatedWell(x[1], x[2], x[3])
      BY <2>1 DEF CareInv, CareTypeOK
    <3>2. PICK y \in Missions, a \in Users, b \in Users :
            y = x[1] /\ a = x[2] /\ b = x[3]
      BY <3>1
    <3> QED
      BY <1>1, <3>1, <3>2, RatedStays
  <2>2. CASE x = <<m, u, v>>
    BY <1>6, <2>2
  <2> QED
    BY <1>2, <2>1, <2>2
<1>8. ASSUME NEW y \in Missions, NEW a \in Users, rating'[<<y, a>>] # None
      PROVE  RatedWell(y, a, rating[<<y, a>>])'
  <2>1. PICK b : b = rating[<<y, a>>] /\ b = rating'[<<y, a>>]
    BY <1>2
  <2>2. RatedWell(y, a, b)
    BY <1>8, <2>1 DEF CareInv
  <2>3. RatedWell(y, a, b)'
    BY <1>1, <2>2, RatedStays
  <2> QED
    BY <2>1, <2>3
<1>9. CareTypeOK'
  BY <1>2, <1>4 DEF CareInv, CareTypeOK
<1>10. /\ \A y \in Missions : ToldWell(y)'
       /\ \A s \in Slots : FrameTells(s)'
  BY <1>1, <1>2, TellsStay DEF CareInv, CareTypeOK
<1> QED
  BY <1>1, <1>7, <1>8, <1>9, <1>10 DEF CareInv

\* A rating is inserted once for its rater.
LEMMA InsertRatingCares ==
  ASSUME CareInv, NEW x \in rater, InsertRating(x)
  PROVE  CareInv'
<1>1. LifeInv' /\ PaidLasts /\ LifeMoves /\ \A s \in Slots : req'[s] = req[s]
  BY MarketStill DEF InsertRating
<1>2. PICK m \in Missions, u \in Users, v \in Users : x = <<m, u, v>>
  BY DEF CareInv, CareTypeOK
<1>3. RatedWell(m, u, v)
  BY <1>2 DEF CareInv
<1>4. /\ rater' = rater \ {x} /\ UNCHANGED <<ticket, closing, verdict>>
      /\ rating' \in {rating, [rating EXCEPT ![<<m, u>>] = v]}
  BY <1>2 DEF InsertRating
<1>5. DOMAIN rating' = Missions \X Users
  BY <1>4 DEF CareInv, CareTypeOK
<1>6. CareTypeOK'
  BY <1>4, <1>5 DEF CareInv, CareTypeOK
<1>7. ASSUME NEW y \in rater' PROVE RatedWell(y[1], y[2], y[3])'
  <2>1. y \in Missions \X Users \X Users /\ RatedWell(y[1], y[2], y[3])
    BY <1>4 DEF CareInv, CareTypeOK
  <2>2. PICK n \in Missions, a \in Users, b \in Users :
          n = y[1] /\ a = y[2] /\ b = y[3]
    BY <2>1
  <2> QED
    BY <1>1, <2>1, <2>2, RatedStays
<1>8. ASSUME NEW n \in Missions, NEW a \in Users, rating'[<<n, a>>] # None
      PROVE  RatedWell(n, a, rating[<<n, a>>])'
  <2>1. PICK b : b = rating'[<<n, a>>]
    OBVIOUS
  <2>2. RatedWell(n, a, b)
    <3>1. CASE <<n, a>> = <<m, u>> /\ b = v
      BY <1>3, <3>1
    <3>2. CASE b = rating[<<n, a>>]
      BY <1>8, <2>1, <3>2 DEF CareInv
    <3> QED
      BY <1>4, <2>1, <3>1, <3>2 DEF CareInv, CareTypeOK
  <2>3. RatedWell(n, a, b)'
    BY <1>1, <2>2, RatedStays
  <2> QED
    BY <2>1, <2>3
<1>9. /\ \A y \in Missions : ToldWell(y)'
      /\ \A s \in Slots : FrameTells(s)'
  BY <1>1, <1>4, TellsStay DEF CareInv, CareTypeOK
<1> QED
  BY <1>1, <1>6, <1>7, <1>8, <1>9 DEF CareInv

\* The tracker is told and answers.
LEMMA TrackerCares ==
  ASSUME CareInv, NEW m \in Missions,
         \/ FileTicket(m) \/ StoreNumber(m)
         \/ \E outcome \in closing[m] : CloseTicket(m, outcome)
  PROVE  CareInv'
<1>1. LifeInv' /\ PaidLasts /\ LifeMoves /\ \A s \in Slots : req'[s] = req[s]
  BY MarketStill DEF FileTicket, StoreNumber, CloseTicket
<1>2. UNCHANGED <<rating, rater, verdict>> /\ UNCHANGED vars
  BY DEF FileTicket, StoreNumber, CloseTicket
<1>3. /\ ticket \in [Missions -> [state : {"none", "open", "closed"},
                                  outcome : Verdicts]]
      /\ closing \in [Missions -> SUBSET Verdicts]
      /\ ToldWell(m)
  BY DEF CareInv, CareTypeOK
<1>4. PICK row \in [state : {"none", "open", "closed"}, outcome : Verdicts] :
        /\ ticket' = [ticket EXCEPT ![m] = row]
        /\ closing' \in [Missions -> SUBSET Verdicts]
        /\ \A y \in Missions : closing'[y] \subseteq closing[y]
        /\ \/ row.outcome = ticket[m].outcome
              /\ row.state \in {ticket[m].state, "open"}
           \/ /\ closing[m] # {}
              /\ row.outcome \in {ticket[m].outcome} \union closing[m]
  <2>1. CASE FileTicket(m)
    <3>1. CASE ticket' = ticket
      BY <1>3, <2>1, <3>1 DEF FileTicket
    <3>2. CASE ticket' = [ticket EXCEPT ![m].state = "open"]
      <4> DEFINE row == [ticket[m] EXCEPT !.state = "open"]
      <4>1. /\ row \in [state : {"none", "open", "closed"}, outcome : Verdicts]
            /\ row.outcome = ticket[m].outcome /\ row.state = "open"
        BY <1>3
      <4>2. ticket' = [ticket EXCEPT ![m] = row]
        BY <1>3, <3>2
      <4> HIDE DEF row
      <4> QED
        BY <1>3, <2>1, <4>1, <4>2 DEF FileTicket
    <3> QED
      BY <2>1, <3>1, <3>2 DEF FileTicket
  <2>2. CASE StoreNumber(m)
    BY <1>3, <2>2 DEF StoreNumber
  <2>3. ASSUME NEW outcome \in closing[m], CloseTicket(m, outcome)
        PROVE  \E row \in [state : {"none", "open", "closed"},
                           outcome : Verdicts] :
                 /\ ticket' = [ticket EXCEPT ![m] = row]
                 /\ closing' \in [Missions -> SUBSET Verdicts]
                 /\ \A y \in Missions : closing'[y] \subseteq closing[y]
                 /\ closing[m] # {}
                 /\ row.outcome \in {ticket[m].outcome} \union closing[m]
    <3>1. PICK state \in {ticket[m].state, "closed"},
               told \in {ticket[m].outcome, outcome} :
            ticket' = [ticket EXCEPT ![m] = [state |-> state, outcome |-> told]]
      BY <2>3 DEF CloseTicket
    <3>2. closing' = [closing EXCEPT ![m] = closing[m] \ {outcome}]
      BY <2>3 DEF CloseTicket
    <3>3. /\ closing' \in [Missions -> SUBSET Verdicts]
          /\ \A y \in Missions : closing'[y] \subseteq closing[y]
      BY <1>3, <3>2
    <3>4. /\ [state |-> state, outcome |-> told]
               \in [state : {"none", "open", "closed"}, outcome : Verdicts]
          /\ told \in {ticket[m].outcome} \union closing[m]
      BY <1>3, <2>3
    <3> QED
      BY <2>3, <3>1, <3>3, <3>4
  <2> QED
    BY <2>1, <2>2, <2>3
<1>5. ticket'[m] = row /\ \A y \in Missions \ {m} : ticket'[y] = ticket[y]
  BY <1>3, <1>4
<1>6. ASSUME NEW y \in Missions PROVE ToldWell(y)'
  <2>1. ToldWell(y) /\ dispute' = dispute
    BY <1>2 DEF CareInv, vars
  <2>2. CASE y # m
    BY <1>2, <1>4, <1>5, <2>1, <2>2 DEF ToldWell
  <2>3. CASE y = m
    BY <1>2, <1>4, <1>5, <2>1, <2>3 DEF ToldWell
  <2> QED
    BY <2>2, <2>3
<1>7. ASSUME NEW s \in Slots PROVE FrameTells(s)'
  BY <1>2 DEF CareInv, FrameTells, At, vars
<1>8. CareTypeOK'
  BY <1>2, <1>3, <1>4 DEF CareInv, CareTypeOK
<1>9. /\ \A x \in rater' : RatedWell(x[1], x[2], x[3])'
      /\ \A y \in Missions, u \in Users :
           rating'[<<y, u>>] # None => RatedWell(y, u, rating[<<y, u>>])'
  BY <1>1, <1>2, RatingsStay DEF CareInv, CareTypeOK
<1> QED
  BY <1>1, <1>6, <1>7, <1>8, <1>9 DEF CareInv

\* The invariant is inductive.
LEMMA CareStep == CareInv /\ [AftercareNext]_allVars => CareInv'
<1> SUFFICES ASSUME CareInv, [AftercareNext]_allVars PROVE CareInv'
  OBVIOUS
<1>1. CASE UNCHANGED allVars
  <2>1. UNCHANGED vars /\ UNCHANGED <<rating, rater, ticket, closing, verdict>>
    BY <1>1 DEF allVars, care
  <2>2. LifeInv' /\ PaidLasts /\ LifeMoves /\ \A s \in Slots : req'[s] = req[s]
    BY <2>1, MarketStill
  <2>3. /\ \A y \in Missions : ToldWell(y)'
        /\ \A s \in Slots : FrameTells(s)'
    BY <2>1, <2>2, TellsStay DEF CareInv, CareTypeOK
  <2>4. /\ \A x \in rater' : RatedWell(x[1], x[2], x[3])'
        /\ \A y \in Missions, u \in Users :
             rating'[<<y, u>>] # None => RatedWell(y, u, rating[<<y, u>>])'
    BY <2>1, <2>2, RatingsStay DEF CareInv, CareTypeOK
  <2> QED
    BY <2>1, <2>2, <2>3, <2>4 DEF CareInv, CareTypeOK
<1>2. CASE AftercareNext
  BY <1>2, ServeCares, ServeAtOnceCares, RestartCares, RateMissionCares,
     InsertRatingCares, TrackerCares
  DEF AftercareNext
<1> QED
  BY <1>1, <1>2

\* Nobody was rated, and nothing filed.
LEMMA CareInit == AftercareInit => CareInv
<1> SUFFICES ASSUME AftercareInit PROVE CareInv
  OBVIOUS
<1>1. LifeInv
  BY LifeInit DEF AftercareInit
<1>2. CareTypeOK
  BY DEF AftercareInit, CareTypeOK, NoTicket, Verdicts
<1>3. \A m \in Missions : ToldWell(m)
  BY DEF AftercareInit, ToldWell, NoTicket
<1>4. \A s \in Slots : FrameTells(s)
  BY DEF AftercareInit, Init, StoreInit, FrameTells, At, Idle
<1> QED
  BY <1>1, <1>2, <1>3, <1>4 DEF CareInv, AftercareInit

\* What follows a mission rests on this, whatever requests, ratings and calls
\* to the tracker interleave, and whenever the process restarts.
THEOREM CareInvariant == AftercareSpec => []CareInv
BY CareInit, CareStep, PTL DEF AftercareSpec

\* A rating is of the other party of a deal, and stays true to it
\* (RatingsService.create inserts after an earlier read of the mission).
THEOREM RatingsStayTrue == AftercareSpec => []RatingsMatchDeal
<1>1. CareInv => RatingsMatchDeal
  BY DEF CareInv, RatedWell, RatingsMatchDeal
<1> QED
  BY <1>1, CareInvariant, PTL

\* The ticket of a dispute tells the verdict that was written
\* (DisputesService.resolve, which does not await the tracker).
THEOREM TicketsTellVerdicts == AftercareSpec => []TicketTellsVerdict
<1>1. CareInv => TicketTellsVerdict
  BY DEF CareInv, ToldWell, TicketTellsVerdict
<1> QED
  BY <1>1, CareInvariant, PTL
=============================================================================
