---------------------------- MODULE SerialProofs ----------------------------
(***************************************************************************)
(* What requests guarantee when they are served one at a time, for any      *)
(* number of users, advertisements, missions and offers: the marketplace    *)
(* implements the MissionContract, packages freeze, disputes and            *)
(* advertisements agree with their missions.  Requests of one statement     *)
(* still run between the statements of the one that is served.              *)
(***************************************************************************)
EXTENDS SerialMarketplace, StandingProofs

\* One request at a time.
OneAtATime == \A s, t \in Slots : s = t

\* The statuses of a mission with a carrier and a deal that is not settled.
Engaged == {"ACCEPTED", "IN_TRANSIT", "DISPUTED"}

\* A payment was recorded for mission m.
Paid(m) == payment[m].status # "absent"

\* The status of a mission tells where its dispute and its payment are.
RowAgrees(m) ==
  /\ dispute[m] = "OPEN" <=> mission[m].status = "DISPUTED"
  /\ dispute[m] = "RESOLVED" => mission[m].status \in {"COMPLETED", "CANCELLED"}
  /\ mission[m].status \in Engaged => payment[m].status = "PENDING"
  /\ mission[m].status = "COMPLETED" \/ dispute[m] # "absent" => Paid(m)

\* The requests that write what they have read of a mission.
CheckSteps == {"verify_load", "verify_count", "verify_commit"}
HoldSteps  == PackageSteps \union OwingSteps \union CheckSteps
                \union {"cancel_write", "dispute_open"}

\* What request s has read of mission m is still so.
StillSo(s, m) ==
  /\ req[s].at \in PackageSteps => mission[m].status = "PENDING"
  /\ At(s, "cancel_write") =>
       /\ req[s].status \in {"PENDING", "ACCEPTED"}
       /\ mission[m].status = req[s].status
  /\ At(s, "cancel_reread") \/ At(s, "cancel_effects") =>
       mission[m].status = "CANCELLED" /\ dispute[m] = "absent"
  /\ req[s].at \in CheckSteps => mission[m].status = StatusFor(req[s].kind)
  /\ At(s, "dispute_open") => mission[m].status \in {"ACCEPTED", "IN_TRANSIT"}
  /\ At(s, "resolve_effects") =>
       mission[m].status = req[s].status /\ dispute[m] = "RESOLVED"

\* A deletion may take the mission away unless it is paid, nothing else
\* intervenes.
FrameHolds(s) ==
  req[s].at \in HoldSteps =>
    /\ ~FreshMission(req[s].mission)
    /\ At(s, "cancel_effects") => req[s].status = "CANCELLED"
    /\ At(s, "resolve_effects") => Paid(req[s].mission)
    /\ MissionExists(req[s].mission) => StillSo(s, req[s].mission)

\* An advertisement that is no longer OPEN has a mission with a deal.
AdsHaveDeals ==
  \A a \in Ads : ad[a] \in {"IN_PROGRESS", "COMPLETED"} =>
    \E m \in Missions : mission[m].ad = a /\ Paid(m)

\* A row that was not inserted yet, or was deleted, has no advertisement.
BlankRows ==
  \A m \in Missions : ~MissionExists(m) => mission[m].ad = None

\* A request still has to apply the end of mission m.
Ending(m) == \E s \in Slots : req[s].at \in OwingSteps /\ req[s].mission = m

\* Mission m is the only one there ever was.
Sole(m) ==
  MissionExists(m) /\ \A x \in Missions \ {m} : mission[x].status = "absent"

\* As long as the process runs, the advertisement of a sole mission shows it,
\* but for an end that a request still has to apply.
AdShows(m) ==
  "restart" \notin Ops /\ Sole(m) =>
    /\ mission[m].status = "PENDING" => ad[mission[m].ad] = "OPEN"
    /\ mission[m].status \in Engaged => ad[mission[m].ad] = "IN_PROGRESS"
    /\ mission[m].status = "COMPLETED" /\ ~Ending(m) =>
         ad[mission[m].ad] = "COMPLETED"
    /\ mission[m].status = "CANCELLED" /\ ~Ending(m) =>
         ad[mission[m].ad] = "OPEN"

\* The inductive invariant.
SerialInv ==
  /\ StandingInv
  /\ \A m \in Missions : RowAgrees(m)
  /\ \A s \in Slots : FrameHolds(s)
  /\ AdsHaveDeals
  /\ BlankRows
  /\ \A m \in Missions : AdShows(m)

----------------------------------------------------------------------------
(* What a step does *)

\* The packages of a mission with a carrier stay.
PackagesFrozen ==
  \A m \in Missions : mission[m].carrier # None =>
    mission'[m].packages = mission[m].packages

\* It is a step of the contract, or the contract does not see it.
ContractStep ==
  [Contract!Next]_<<[m \in Missions |-> Phase(m)],
                    [m \in Missions |-> payment[m].status]>>

\* A step that keeps the invariant, and is one of the contract.
Serves ==
  /\ \A m \in Missions : RowAgrees(m)'
  /\ \A s \in Slots : FrameHolds(s)'
  /\ AdsHaveDeals'
  /\ BlankRows'
  /\ \A m \in Missions : AdShows(m)'
  /\ PackagesFrozen
  /\ ContractStep

\* What the other invariants say of the tables here.
LEMMA SerialFacts ==
  ASSUME SerialInv
  PROVE  /\ TypeOK /\ AdsStand /\ PaidStand /\ PaymentMatchesDeal
         /\ DisputesAttached
         /\ \A s \in Slots : EffectsStand(s)
         /\ \A s \in Slots : req[s].at \in MissionSteps => req[s].mission \in Missions
BY MissionOperand
DEF SerialInv, StandingInv, EngagementInv, FrameStands

\* The one slot takes a new frame.
LEMMA TheFrame ==
  ASSUME OneAtATime, TypeOK, NEW s \in Slots, NEW f,
         req' = [req EXCEPT ![s] = f]
  PROVE  req'[s] = f /\ \A v \in Slots : v = s
BY DEF OneAtATime, TypeOK

\* Only frames that hold what they have read are asked about.
LEMMA PlainFrame ==
  ASSUME NEW s \in Slots, req'[s].at \notin HoldSteps
  PROVE  FrameHolds(s)'
BY DEF FrameHolds

\* Packages stay with the missions.
LEMMA SamePackages ==
  ASSUME UNCHANGED mission
  PROVE  PackagesFrozen
BY DEF PackagesFrozen

\* The tables of the contract stay.
LEMMA SameContract ==
  ASSUME UNCHANGED <<mission, payment, dispute>>
  PROVE  ContractStep
<1>1. [m \in Missions |-> Phase(m)]' = [m \in Missions |-> Phase(m)]
  BY DEF Phase
<1>2. [m \in Missions |-> payment[m].status]' =
        [m \in Missions |-> payment[m].status]
  OBVIOUS
<1> QED
  BY <1>1, <1>2 DEF ContractStep

\* The frames alone change, and no end of a mission is given up.
LEMMA AsideServes ==
  ASSUME SerialInv, UNCHANGED <<ad, mission, payment, dispute>>,
         \A s \in Slots : FrameHolds(s)',
         "restart" \in Ops \/ \A s \in Slots : req[s].at \in OwingSteps =>
           \/ ~MissionExists(req[s].mission)
           \/ (req'[s].at \in OwingSteps /\ req'[s].mission = req[s].mission)
  PROVE  Serves
<1>1. \A m \in Missions : RowAgrees(m)'
  BY DEF SerialInv, RowAgrees, Paid
<1>2. AdsHaveDeals' /\ BlankRows'
  BY DEF SerialInv, AdsHaveDeals, Paid, BlankRows, MissionExists
<1>3. ASSUME NEW m \in Missions PROVE AdShows(m)'
  <2>1. Sole(m)' <=> Sole(m)
    BY DEF Sole, MissionExists
  <2>2. "restart" \notin Ops /\ Sole(m) /\ Ending(m) => Ending(m)'
    BY DEF Sole, Ending
  <2> QED
    BY <2>1, <2>2 DEF SerialInv, AdShows
<1> QED
  BY <1>1, <1>2, <1>3, SamePackages, SameContract DEF Serves

\* The same for the request in slot s.
LEMMA FrameServes ==
  ASSUME OneAtATime, SerialInv, NEW s \in Slots, NEW f,
         req' = [req EXCEPT ![s] = f],
         UNCHANGED <<ad, mission, payment, dispute>>,
         f.at \notin HoldSteps \/ FrameHolds(s)',
         \/ req[s].at \notin OwingSteps
         \/ ~MissionExists(req[s].mission)
         \/ (f.at \in OwingSteps /\ f.mission = req[s].mission)
  PROVE  Serves
<1>1. req'[s] = f /\ \A v \in Slots : v = s
  BY TheFrame, SerialFacts
<1>2. FrameHolds(s)'
  BY <1>1, PlainFrame
<1>3. \A v \in Slots : FrameHolds(v)'
  BY <1>1, <1>2
<1> QED
  BY <1>1, <1>3, AsideServes

\* A request that begins with frame f.
LEMMA BeginServes ==
  ASSUME OneAtATime, SerialInv, NEW s \in Slots, NEW f, Begin(s, f),
         UNCHANGED db, f.at \notin HoldSteps \/ FrameHolds(s)'
  PROVE  Serves
<1>1. req[s].at \notin OwingSteps
  BY DEF Begin, Idle, OwingSteps
<1> QED
  BY <1>1, FrameServes DEF Begin, db

\* An answer that writes nothing.
LEMMA RefuseServes ==
  ASSUME OneAtATime, SerialInv, NEW s \in Slots, Refuse(s),
         req[s].at \notin OwingSteps \/ ~MissionExists(req[s].mission)
  PROVE  Serves
<1>1. Idle.at \notin HoldSteps
  BY DEF Idle, HoldSteps, PackageSteps, OwingSteps, CheckSteps
<1> QED
  BY <1>1, FrameServes DEF Refuse, Reply, db

----------------------------------------------------------------------------
(* Requests that arrive *)

\* A request on mission m that was let through holds what it has read.
LEMMA CheckedServes ==
  ASSUME OneAtATime, SerialInv, NEW s \in Slots, NEW m \in Missions, NEW f,
         Begin(s, f), UNCHANGED db, f.mission = m,
         f.at \in {"package_add", "package_remove", "cancel_write",
                   "verify_load", "dispute_open"},
         MissionExists(m),
         f.at \in PackageSteps => mission[m].status = "PENDING",
         f.at = "cancel_write" =>
           mission[m].status \in {"PENDING", "ACCEPTED"} /\ f.status = mission[m].status,
         f.at = "verify_load" => mission[m].status = StatusFor(f.kind),
         f.at = "dispute_open" => mission[m].status \in {"ACCEPTED", "IN_TRANSIT"}
  PROVE  Serves
<1>1. req'[s] = f
  BY TheFrame, SerialFacts DEF Begin
<1>2. StillSo(s, m)'
  BY <1>1 DEF StillSo, At, CheckSteps, PackageSteps, db
<1>3. ~FreshMission(m)'
  BY DEF FreshMission, MissionExists, NoRow, db
<1>4. FrameHolds(s)'
  <2>1. req'[s].mission = m
    BY <1>1
  <2> QED
    BY <1>1, <1>2, <1>3, <2>1
    DEF FrameHolds, FreshMission, MissionExists, StillSo, At
<1> QED
  BY <1>4, BeginServes

\* Every request that arrives.
LEMMA ArriveServes ==
  ASSUME OneAtATime, SerialInv, NEW s \in Slots, Arrive(s)
  PROVE  Serves
<1> USE BeginServes, SerialFacts
    DEF HoldSteps, PackageSteps, OwingSteps, CheckSteps
<1>1. CASE \E c \in Convs : OpenConversation(s, c)
  BY <1>1 DEF OpenConversation, Idle
<1>2. CASE \E c \in Convs, u \in Users : RemoveConversation(s, c, u)
  BY <1>2 DEF RemoveConversation, Idle
<1>3. CASE \E c \in Convs, u \in Users, p \in Prices : SendOffer(s, c, u, p)
  BY <1>3 DEF SendOffer, Idle
<1>4. CASE \E o \in Offers, p \in Prices : EditOffer(s, o, p)
  BY <1>4 DEF EditOffer, Idle
<1>5. CASE \E o \in Offers, u \in Users : AcceptOffer(s, o, u)
  BY <1>5 DEF AcceptOffer, Idle
<1>6. CASE \E o \in Offers, u \in Users : RejectOffer(s, o, u)
  BY <1>6 DEF RejectOffer, Idle
<1>7. CASE \E a \in Ads, u \in Users : CreateMission(s, a, u)
  BY <1>7 DEF CreateMission, Idle
<1>8. ASSUME NEW m \in Missions, NEW p \in Packages,
             NEW step \in {"package_add", "package_remove"},
             ChangePackages(s, m, p, step)
      PROVE  Serves
  <2> DEFINE f == [Idle EXCEPT !.at = step, !.mission = m, !.pkg = p]
  <2>1. f.at = step /\ f.mission = m
    BY DEF Idle
  <2>2. Begin(s, f) /\ UNCHANGED db /\ mission[m].status = "PENDING"
    BY <1>8 DEF ChangePackages
  <2> HIDE DEF f
  <2>3. MissionExists(m)
    BY <2>2 DEF MissionExists, NoRow
  <2> QED
    BY <2>1, <2>2, <2>3, CheckedServes
<1>9. CASE \E m \in Missions : DeleteMission(s, m)
  BY <1>9 DEF DeleteMission, Idle
<1>10. ASSUME NEW m \in Missions, CancelMission(s, m) PROVE Serves
  <2> DEFINE f == [Idle EXCEPT !.at = "cancel_write", !.mission = m,
                               !.status = mission[m].status]
  <2>1. f.at = "cancel_write" /\ f.mission = m /\ f.status = mission[m].status
    BY DEF Idle
  <2>2. Begin(s, f) /\ UNCHANGED db
    BY <1>10 DEF CancelMission
  <2>3. mission[m].status \in {"PENDING", "ACCEPTED"}
    BY <1>10 DEF CancelMission, Allowed
  <2> HIDE DEF f
  <2>4. MissionExists(m)
    BY <2>3 DEF MissionExists, NoRow
  <2> QED
    BY <2>1, <2>2, <2>3, <2>4, CheckedServes
<1>11. CASE \E m \in Missions, k \in ProofKinds : GenerateCode(s, m, k)
  BY <1>11 DEF GenerateCode, Idle
<1>12. ASSUME NEW m \in Missions, NEW k \in ProofKinds, SubmitCode(s, m, k)
       PROVE  Serves
  <2> DEFINE f == [Idle EXCEPT !.at = "verify_load", !.mission = m, !.kind = k]
  <2>1. f.at = "verify_load" /\ f.mission = m /\ f.kind = k
    BY DEF Idle
  <2>2. Begin(s, f) /\ UNCHANGED db /\ mission[m].status = StatusFor(k)
    BY <1>12 DEF SubmitCode
  <2> HIDE DEF f
  <2>3. MissionExists(m)
    BY <2>2 DEF MissionExists, NoRow, StatusFor
  <2> QED
    BY <2>1, <2>2, <2>3, CheckedServes
<1>13. ASSUME NEW m \in Missions, OpenDispute(s, m) PROVE Serves
  <2> DEFINE f == [Idle EXCEPT !.at = "dispute_open", !.mission = m]
  <2>1. f.at = "dispute_open" /\ f.mission = m
    BY DEF Idle
  <2>2. /\ Begin(s, f) /\ UNCHANGED db
        /\ mission[m].status \in {"ACCEPTED", "IN_TRANSIT"}
    BY <1>13 DEF OpenDispute
  <2> HIDE DEF f
  <2>3. MissionExists(m)
    BY <2>2 DEF MissionExists, NoRow
  <2> QED
    BY <2>1, <2>2, <2>3, CheckedServes
<1>14. CASE \E m \in Missions, outcome \in {"COMPLETED", "CANCELLED"} :
              ResolveDispute(s, m, outcome)
  BY <1>14 DEF ResolveDispute, Idle
<1> QED
  BY <1>1, <1>2, <1>3, <1>4, <1>5, <1>6, <1>7, <1>8, <1>9, <1>10, <1>11,
     <1>12, <1>13, <1>14
  DEF Arrive

----------------------------------------------------------------------------
(* Statements that write none of these tables *)

\* A request that is answered, or goes on without what it has read of a
\* mission, beside these tables.
LEMMA GoOnServes ==
  ASSUME OneAtATime, SerialInv, NEW s \in Slots,
         UNCHANGED <<ad, mission, payment, dispute>>,
         req[s].at \notin OwingSteps,
         \/ Reply(s)
         \/ \E step \in Steps \ HoldSteps : Goto(s, step)
  PROVE  Serves
<1>1. CASE Reply(s)
  <2>1. Idle.at \notin HoldSteps
    BY DEF Idle, HoldSteps, PackageSteps, OwingSteps, CheckSteps
  <2> QED
    BY <1>1, <2>1, FrameServes DEF Reply
<1>2. ASSUME NEW step \in Steps \ HoldSteps, Goto(s, step) PROVE Serves
  <2> DEFINE f == [req[s] EXCEPT !.at = step]
  <2>1. req' = [req EXCEPT ![s] = f] /\ f.at = step
    BY <1>2, SerialFacts DEF Goto, TypeOK, Frames, FrameRecords
  <2> HIDE DEF f
  <2> QED
    BY <2>1, FrameServes
<1> QED
  BY <1>1, <1>2

\* Conversations, offers and codes.
LEMMA SideStatements ==
  ASSUME OneAtATime, SerialInv, NEW s \in Slots,
         \/ HideConversation(s) \/ EraseConversation(s) \/ InsertOffer(s)
         \/ WakeConversation(s) \/ ReviveConversation(s) \/ WriteOfferEdit(s)
         \/ CheckCarrierKyc(s) \/ ReadMissionToAccept(s) \/ WriteRejection(s)
         \/ WriteCode(s) \/ CountAttempt(s)
  PROVE  Serves
<1> USE GoOnServes
    DEF Steps, HoldSteps, PackageSteps, OwingSteps, CheckSteps, At, Refuse, db
<1>1. CASE HideConversation(s)
  BY <1>1 DEF HideConversation
<1>2. CASE EraseConversation(s)
  BY <1>2 DEF EraseConversation
<1>3. CASE InsertOffer(s)
  BY <1>3 DEF InsertOffer
<1>4. CASE WakeConversation(s)
  BY <1>4 DEF WakeConversation
<1>5. CASE ReviveConversation(s)
  BY <1>5 DEF ReviveConversation
<1>6. CASE WriteOfferEdit(s)
  BY <1>6 DEF WriteOfferEdit
<1>7. CASE CheckCarrierKyc(s)
  BY <1>7 DEF CheckCarrierKyc
<1>8. CASE ReadMissionToAccept(s)
  BY <1>8 DEF ReadMissionToAccept
<1>9. CASE WriteRejection(s)
  BY <1>9 DEF WriteRejection
<1>10. CASE WriteCode(s)
  BY <1>10 DEF WriteCode
<1>11. CASE CountAttempt(s)
  BY <1>11 DEF CountAttempt
<1> QED
  BY <1>1, <1>2, <1>3, <1>4, <1>5, <1>6, <1>7, <1>8, <1>9, <1>10, <1>11

\* A submitted code is compared: the mission stays as it was read.
LEMMA LoadProofServes ==
  ASSUME OneAtATime, SerialInv, NEW s \in Slots, LoadProof(s)
  PROVE  Serves
<1>1. /\ TypeOK /\ req[s].at = "verify_load" /\ req[s].at \notin OwingSteps
      /\ UNCHANGED <<ad, mission, payment, dispute>>
  BY SerialFacts DEF LoadProof, At, OwingSteps, db
<1>2. CASE Reply(s)
  BY <1>1, <1>2, GoOnServes
<1>3. CASE ~Reply(s)
  <2>1. PICK step \in {"verify_count", "verify_commit"} :
          req' = [req EXCEPT ![s].at = step,
                             ![s].code = proof[<<req[s].mission, req[s].kind>>].code]
    BY <1>3 DEF LoadProof
  <2> DEFINE f == [req[s] EXCEPT !.at = step,
                     !.code = proof[<<req[s].mission, req[s].kind>>].code]
  <2>2. /\ req' = [req EXCEPT ![s] = f]
        /\ f.at = step /\ f.mission = req[s].mission /\ f.kind = req[s].kind
    BY <1>1, <2>1 DEF TypeOK, Frames, FrameRecords
  <2> HIDE DEF f
  <2>3. req'[s] = f
    BY <1>1, <2>2, TheFrame
  <2>4. FrameHolds(s)
    BY DEF SerialInv
  <2>5. FrameHolds(s)'
    BY <1>1, <2>2, <2>3, <2>4
    DEF FrameHolds, StillSo, At, HoldSteps, CheckSteps, PackageSteps,
        FreshMission, MissionExists
  <2> QED
    BY <1>1, <2>2, <2>5, FrameServes
<1> QED
  BY <1>2, <1>3

\* The request that cancels reads its mission again.
LEMMA RereadMissionServes ==
  ASSUME OneAtATime, SerialInv, NEW s \in Slots, RereadMission(s)
  PROVE  Serves
<1>1. /\ TypeOK /\ req[s].at = "cancel_reread" /\ req[s].at \in HoldSteps
      /\ UNCHANGED <<ad, mission, payment, dispute>> /\ UNCHANGED db
  BY SerialFacts DEF RereadMission, At, HoldSteps, OwingSteps, db
<1>2. CASE ~MissionExists(req[s].mission)
  BY <1>1, <1>2, RefuseServes DEF RereadMission, Refuse
<1>3. CASE MissionExists(req[s].mission)
  <2> DEFINE f == [req[s] EXCEPT !.at = "cancel_effects",
                                 !.ad = mission[req[s].mission].ad,
                                 !.status = mission[req[s].mission].status]
  <2>1. req' = [req EXCEPT ![s] = f]
    BY <1>1, <1>3 DEF RereadMission, TypeOK
  <2>2. /\ f.at = "cancel_effects" /\ f.mission = req[s].mission
        /\ f.status = mission[req[s].mission].status
    BY <1>1 DEF TypeOK, Frames, FrameRecords
  <2> HIDE DEF f
  <2>3. req'[s] = f
    BY <1>1, <2>1, TheFrame
  <2>4. FrameHolds(s)
    BY DEF SerialInv
  <2>5. FrameHolds(s)'
    BY <1>1, <1>3, <2>2, <2>3, <2>4
    DEF FrameHolds, StillSo, At, HoldSteps, CheckSteps, PackageSteps,
        FreshMission, MissionExists
  <2>6. f.at \in OwingSteps
    BY <2>2 DEF OwingSteps
  <2> QED
    BY <1>1, <2>1, <2>2, <2>5, <2>6, FrameServes
<1> QED
  BY <1>2, <1>3

\* Messages and badges are none of the tables.
LEMMA SideWebhooks ==
  ASSUME SerialInv,
         \/ \E o \in Offers : DeleteMessage(o)
         \/ \E u \in Users : BadgeGranted(u) \/ BadgeRevoked(u)
         \/ UNCHANGED vars
  PROVE  Serves
<1>1. UNCHANGED <<ad, mission, payment, dispute, req>>
  BY DEF DeleteMessage, BadgeGranted, BadgeRevoked, vars
<1>2. \A s \in Slots : FrameHolds(s)'
  BY <1>1
  DEF SerialInv, FrameHolds, StillSo, At, FreshMission, MissionExists, Paid
<1> QED
  BY <1>1, <1>2, AsideServes

----------------------------------------------------------------------------
(* Steps of the contract *)

\* The phase of a mission by its status, its payment and its dispute.
LEMMA PhaseIs ==
  ASSUME NEW m \in Missions
  PROVE  /\ mission[m].status = "absent" => Phase(m) = "none"
         /\ mission[m].status = "erased" => Phase(m) = "gone"
         /\ mission[m].status = "PENDING" => Phase(m) = "open"
         /\ mission[m].status = "ACCEPTED" => Phase(m) = "agreed"
         /\ mission[m].status = "IN_TRANSIT" => Phase(m) = "carried"
         /\ mission[m].status = "DISPUTED" => Phase(m) = "contested"
         /\ mission[m].status = "COMPLETED" => Phase(m) = "honoured"
         /\ mission[m].status = "CANCELLED" =>
              /\ payment[m].status # "PENDING" => Phase(m) = "void"
              /\ payment[m].status = "PENDING" /\ dispute[m] = "RESOLVED"
                   => Phase(m) = "contested"
              /\ payment[m].status = "PENDING" /\ dispute[m] # "RESOLVED"
                   => Phase(m) = "agreed"
BY DEF Phase

\* The same of the next state.
LEMMA PhaseBecomes ==
  ASSUME NEW m \in Missions
  PROVE  /\ mission'[m].status = "absent" => Phase(m)' = "none"
         /\ mission'[m].status = "erased" => Phase(m)' = "gone"
         /\ mission'[m].status = "PENDING" => Phase(m)' = "open"
         /\ mission'[m].status = "ACCEPTED" => Phase(m)' = "agreed"
         /\ mission'[m].status = "IN_TRANSIT" => Phase(m)' = "carried"
         /\ mission'[m].status = "DISPUTED" => Phase(m)' = "contested"
         /\ mission'[m].status = "COMPLETED" => Phase(m)' = "honoured"
         /\ mission'[m].status = "CANCELLED" =>
              /\ payment'[m].status # "PENDING" => Phase(m)' = "void"
              /\ payment'[m].status = "PENDING" /\ dispute'[m] = "RESOLVED"
                   => Phase(m)' = "contested"
              /\ payment'[m].status = "PENDING" /\ dispute'[m] # "RESOLVED"
                   => Phase(m)' = "agreed"
BY DEF Phase

\* What a phase is made of stays.
LEMMA SamePhase ==
  ASSUME NEW m \in Missions, mission'[m].status = mission[m].status,
         payment'[m].status = payment[m].status, dispute'[m] = dispute[m]
  PROVE  Phase(m)' = Phase(m)
BY DEF Phase

\* No phase changes and nothing is paid.
LEMMA ContractStutter ==
  ASSUME \A m \in Missions :
           Phase(m)' = Phase(m) /\ payment'[m].status = payment[m].status
  PROVE  ContractStep
<1>1. [m \in Missions |-> Phase(m)]' = [m \in Missions |-> Phase(m)]
  OBVIOUS
<1>2. [m \in Missions |-> payment[m].status]' =
        [m \in Missions |-> payment[m].status]
  OBVIOUS
<1> QED
  BY <1>1, <1>2 DEF ContractStep

\* The rows of all missions but m stay.
OthersStay(m) ==
  \A x \in Missions \ {m} :
    /\ mission'[x] = mission[x]
    /\ payment'[x] = payment[x]
    /\ dispute'[x] = dispute[x]

\* One mission changes its phase.
LEMMA ContractMoves ==
  ASSUME NEW m \in Missions, OthersStay(m), NEW from, Phase(m) \in from
  PROVE  Contract!Move(m, from, Phase(m)')
<1>1. \A x \in Missions \ {m} : Phase(x)' = Phase(x)
  BY SamePhase DEF OthersStay
<1> DEFINE phase == [x \in Missions |-> Phase(x)]
<1>2. phase' = [phase EXCEPT ![m] = Phase(m)']
  <2>1. \A x \in Missions : phase'[x] = IF x = m THEN Phase(m)' ELSE phase[x]
    BY <1>1
  <2> QED
    BY <2>1
<1> QED
  BY <1>2 DEF Contract!Move

\* Nothing is paid.
LEMMA ContractMoney ==
  ASSUME NEW m \in Missions, OthersStay(m),
         payment'[m].status = payment[m].status
  PROVE  UNCHANGED [x \in Missions |-> payment[x].status]
BY DEF OthersStay

\* The payment of one mission is settled.
LEMMA ContractPays ==
  ASSUME NEW m \in Missions, OthersStay(m),
         payment[m].status = "PENDING", NEW to, payment'[m].status = to
  PROVE  Contract!Pay(m, to)
<1> DEFINE money == [x \in Missions |-> payment[x].status]
<1>1. \A x \in Missions :
        money'[x] = IF x = m THEN to ELSE money[x]
  BY DEF OthersStay
<1>2. money' = [money EXCEPT ![m] = to]
  BY <1>1
<1> QED
  BY <1>2 DEF Contract!Pay

\* An action of the contract on one mission.
LEMMA ContractActs ==
  ASSUME NEW m \in Missions,
         \/ Contract!Propose(m) \/ Contract!PickUp(m) \/ Contract!Deliver(m)
         \/ Contract!Abandon(m) \/ Contract!CallOff(m) \/ Contract!Contest(m)
         \/ Contract!Uphold(m) \/ Contract!Reverse(m)
  PROVE  ContractStep
BY DEF ContractStep, Contract!Next

\* The choice of one candidate.
LEMMA ContractAgrees ==
  ASSUME NEW m \in Missions, NEW losers \in SUBSET (Missions \ {m}),
         Contract!Agree(m, losers)
  PROVE  ContractStep
BY DEF ContractStep, Contract!Next

----------------------------------------------------------------------------
(* Statements that write one mission *)

\* Mission m stays with its advertisement and, once engaged, its packages;
\* no other mission is written.
LEMMA OneRowServes ==
  ASSUME OneAtATime, SerialInv, NEW s \in Slots, NEW m \in Missions,
         OthersStay(m), MissionExists(m), MissionExists(m)',
         mission'[m].ad = mission[m].ad,
         mission[m].carrier # None => mission'[m].packages = mission[m].packages,
         Paid(m) => Paid(m)',
         RowAgrees(m)', FrameHolds(s)', AdShows(m)', ContractStep,
         \A a \in Ads : ad'[a] = ad[a] \/ (a = mission[m].ad /\ Paid(m))
                          \/ ad'[a] = "OPEN"
  PROVE  Serves
<1>1. \A x \in Missions : RowAgrees(x)'
  BY DEF SerialInv, RowAgrees, OthersStay, Paid
<1>2. \A v \in Slots : FrameHolds(v)'
  <2>1. \A v \in Slots : v = s
    BY DEF OneAtATime
  <2> QED
    BY <2>1
<1>3. AdsHaveDeals'
  <2> SUFFICES ASSUME NEW a \in Ads, ad'[a] \in {"IN_PROGRESS", "COMPLETED"}
               PROVE  \E x \in Missions : mission'[x].ad = a /\ Paid(x)'
    BY DEF AdsHaveDeals
  <2>1. \E x \in Missions : mission[x].ad = a /\ Paid(x)
    BY DEF SerialInv, AdsHaveDeals
  <2>2. \A x \in Missions : mission'[x].ad = mission[x].ad
    BY DEF OthersStay
  <2>3. \A x \in Missions : Paid(x) => Paid(x)'
    BY DEF OthersStay, Paid
  <2> QED
    BY <2>1, <2>2, <2>3
<1>4. ASSUME NEW x \in Missions \ {m} PROVE AdShows(x)'
  <2>1. ~Sole(x)'
    BY <1>4 DEF Sole, MissionExists, NoRow
  <2> QED
    BY <2>1 DEF AdShows
<1>5. PackagesFrozen
  BY DEF PackagesFrozen, OthersStay
<1>6. BlankRows'
  BY DEF SerialInv, BlankRows, OthersStay, MissionExists
<1> QED
  BY <1>1, <1>2, <1>3, <1>4, <1>5, <1>6 DEF Serves

\* It is the sole mission when it was before.
LEMMA SoleBefore ==
  ASSUME NEW m \in Missions, OthersStay(m), MissionExists(m)
  PROVE  Sole(m)' => Sole(m)
BY DEF Sole, OthersStay

\* A mission that awaits a carrier has no deal yet.
LEMMA PendingIsFree ==
  ASSUME SerialInv, NEW m \in Missions, mission[m].status = "PENDING"
  PROVE  mission[m].carrier = None /\ payment[m].status = "absent"
BY SerialFacts DEF PaidStand, PaymentMatchesDeal

\* An answered request has nothing to hold.
LEMMA ReplyHolds ==
  ASSUME TypeOK, NEW s \in Slots, Reply(s)
  PROVE  FrameHolds(s)'
<1>1. req'[s] = Idle
  BY DEF Reply, TypeOK
<1>2. req'[s].at \notin HoldSteps
  BY <1>1 DEF Idle, HoldSteps, PackageSteps, OwingSteps, CheckSteps
<1> QED
  BY <1>2, PlainFrame

\* Packages change while the mission is open.
LEMMA WritePackagesServes ==
  ASSUME OneAtATime, SerialInv, NEW s \in Slots, WritePackages(s)
  PROVE  Serves
<1>1. /\ TypeOK /\ req[s].at \in PackageSteps /\ req[s].at \notin OwingSteps
      /\ req[s].at \in MissionSteps /\ req[s].at \in HoldSteps
  BY SerialFacts
  DEF WritePackages, At, OwingSteps, MissionSteps, PackageSteps, HoldSteps
<1>2. CASE Refuse(s)
  BY <1>1, <1>2, RefuseServes
<1>3. CASE ~Refuse(s)
  <2>1. PICK m \in Missions : m = req[s].mission
    BY <1>1, SerialFacts
  <2>2. MissionExists(m) /\ Reply(s) /\ UNCHANGED <<ad, payment, dispute>>
    BY <1>3, <2>1 DEF WritePackages
  <2>3. mission[m].status = "PENDING" /\ mission[m].carrier = None
    BY <1>1, <2>1, <2>2, PendingIsFree DEF SerialInv, FrameHolds, StillSo
  <2>4. /\ mission'[m].status = "PENDING" /\ mission'[m].ad = mission[m].ad
        /\ \A x \in Missions \ {m} : mission'[x] = mission[x]
    BY <1>1, <1>3, <2>1, <2>3 DEF WritePackages, TypeOK, MissionRows
  <2>5. OthersStay(m) /\ MissionExists(m)'
    BY <2>2, <2>4 DEF OthersStay, MissionExists, NoRow
  <2>6. RowAgrees(m)'
    BY <2>2, <2>3, <2>4 DEF SerialInv, RowAgrees, Paid
  <2>7. AdShows(m)'
    BY <2>2, <2>3, <2>4, <2>5, SoleBefore DEF SerialInv, AdShows, Engaged
  <2>8. FrameHolds(s)'
    BY <1>1, <2>2, ReplyHolds
  <2>9. ContractStep
    BY <2>2, <2>3, <2>4, <2>5, SamePhase, ContractStutter DEF OthersStay
  <2> QED
    BY <2>2, <2>3, <2>4, <2>5, <2>6, <2>7, <2>8, <2>9, OneRowServes DEF Paid
<1> QED
  BY <1>2, <1>3

\* The status of one mission is written.
LEMMA StatusWritten ==
  ASSUME TypeOK, NEW m \in Missions, NEW st,
         mission' = [mission EXCEPT ![m].status = st]
  PROVE  /\ mission'[m].status = st
         /\ mission'[m].ad = mission[m].ad
         /\ mission'[m].packages = mission[m].packages
         /\ \A x \in Missions \ {m} : mission'[x] = mission[x]
BY DEF TypeOK, MissionRows

\* What request s relies on.
LEMMA WhatIsHeld ==
  ASSUME SerialInv, NEW s \in Slots, req[s].at \in HoldSteps,
         NEW m \in Missions, m = req[s].mission
  PROVE  /\ ~FreshMission(m)
         /\ At(s, "cancel_effects") => req[s].status = "CANCELLED"
         /\ At(s, "resolve_effects") => Paid(m)
         /\ MissionExists(m) => StillSo(s, m)
         /\ RowAgrees(m) /\ AdShows(m)
         /\ dispute[m] \in {"absent", "OPEN", "RESOLVED"}
BY SerialFacts DEF SerialInv, FrameHolds, TypeOK

\* A mission is cancelled while it is open or agreed; its payment waits for
\* the side effects.
LEMMA WriteCancellationServes ==
  ASSUME OneAtATime, SerialInv, NEW s \in Slots, WriteCancellation(s)
  PROVE  Serves
<1>1. /\ TypeOK /\ req[s].at = "cancel_write" /\ req[s].at \notin OwingSteps
      /\ req[s].at \in MissionSteps /\ req[s].at \in HoldSteps
  BY SerialFacts
  DEF WriteCancellation, At, OwingSteps, MissionSteps, CancelSteps, HoldSteps
<1>2. CASE Refuse(s)
  BY <1>1, <1>2, RefuseServes
<1>3. CASE ~Refuse(s)
  <2>1. PICK m \in Missions : m = req[s].mission
    BY <1>1, SerialFacts
  <2>2. /\ mission[m].status = req[s].status /\ Goto(s, "cancel_reread")
        /\ UNCHANGED <<ad, payment, dispute>>
        /\ mission' = [mission EXCEPT ![m].status = "CANCELLED"]
    BY <1>3, <2>1 DEF WriteCancellation
  <2>3. MissionExists(m)
    BY <1>1, <2>2
    DEF TypeOK, Frames, FrameRecords, CancelSteps, MissionExists,
        MissionStatus, NoRow
  <2>4. /\ mission[m].status \in {"PENDING", "ACCEPTED"}
        /\ dispute[m] = "absent"
    BY <1>1, <2>1, <2>3, WhatIsHeld DEF StillSo, At, RowAgrees
  <2>5. /\ mission'[m].status = "CANCELLED"
        /\ mission'[m].ad = mission[m].ad
        /\ mission'[m].packages = mission[m].packages
        /\ \A x \in Missions \ {m} : mission'[x] = mission[x]
    BY <1>1, <2>2, StatusWritten
  <2>6. OthersStay(m) /\ MissionExists(m)'
    BY <2>2, <2>5 DEF OthersStay, MissionExists, NoRow
  <2>7. RowAgrees(m)'
    BY <2>2, <2>4, <2>5 DEF RowAgrees, Engaged
  <2>8. req'[s].at = "cancel_reread" /\ req'[s].mission = m
    BY <1>1, <2>1, <2>2 DEF Goto, TypeOK, Frames, FrameRecords
  <2>9. AdShows(m)'
    BY <2>5, <2>8 DEF AdShows, Ending, OwingSteps, Engaged
  <2>10. FrameHolds(s)'
    BY <2>2, <2>4, <2>5, <2>8
    DEF FrameHolds, StillSo, At, FreshMission, CheckSteps, PackageSteps
  <2>11. ContractStep
    <3>1. CASE mission[m].status = "PENDING"
      <4>1. Phase(m) = "open" /\ Phase(m)' = "void"
        BY <2>2, <2>5, <3>1, PendingIsFree, PhaseIs, PhaseBecomes
      <4>2. Contract!Abandon(m)
        BY <2>2, <2>6, <4>1, ContractMoves, ContractMoney
        DEF Contract!Abandon
      <4> QED
        BY <4>2, ContractActs
    <3>2. CASE mission[m].status = "ACCEPTED"
      <4>1. payment[m].status = "PENDING"
        BY <3>2 DEF SerialInv, RowAgrees, Engaged
      <4>2. Phase(m) = "agreed" /\ Phase(m)' = "agreed"
        BY <2>2, <2>4, <2>5, <3>2, <4>1, PhaseIs, PhaseBecomes
      <4> QED
        BY <2>2, <2>6, <4>2, SamePhase, ContractStutter DEF OthersStay
    <3> QED
      BY <2>4, <3>1, <3>2
  <2> QED
    BY <2>2, <2>3, <2>5, <2>6, <2>7, <2>9, <2>10, <2>11, OneRowServes DEF Paid
<1> QED
  BY <1>2, <1>3

\* A dispute is opened on a mission that is under way.
LEMMA CommitDisputeServes ==
  ASSUME OneAtATime, SerialInv, NEW s \in Slots, CommitDispute(s)
  PROVE  Serves
<1>1. /\ TypeOK /\ req[s].at = "dispute_open" /\ req[s].at \notin OwingSteps
      /\ req[s].at \in MissionSteps /\ req[s].at \in HoldSteps
  BY SerialFacts DEF CommitDispute, At, OwingSteps, MissionSteps, HoldSteps
<1>2. CASE Refuse(s)
  BY <1>1, <1>2, RefuseServes
<1>3. CASE ~Refuse(s)
  <2>1. PICK m \in Missions : m = req[s].mission
    BY <1>1, SerialFacts
  <2>2. /\ MissionExists(m) /\ dispute[m] = "absent" /\ Reply(s)
        /\ UNCHANGED <<ad, payment>>
        /\ dispute' = [dispute EXCEPT ![m] = "OPEN"]
        /\ mission' = [mission EXCEPT ![m].status = "DISPUTED"]
    BY <1>3, <2>1 DEF CommitDispute
  <2>3. mission[m].status \in {"ACCEPTED", "IN_TRANSIT"}
    BY <1>1, <2>1, <2>2, WhatIsHeld DEF StillSo, At
  <2>4. payment[m].status = "PENDING"
    BY <2>3 DEF SerialInv, RowAgrees, Engaged
  <2>5. /\ mission'[m].status = "DISPUTED"
        /\ mission'[m].ad = mission[m].ad
        /\ mission'[m].packages = mission[m].packages
        /\ \A x \in Missions \ {m} : mission'[x] = mission[x]
    BY <1>1, <2>2, StatusWritten
  <2>6. /\ dispute'[m] = "OPEN"
        /\ \A x \in Missions \ {m} : dispute'[x] = dispute[x]
    BY <1>1, <2>2 DEF TypeOK
  <2>7. OthersStay(m) /\ MissionExists(m)'
    BY <2>2, <2>5, <2>6 DEF OthersStay, MissionExists, NoRow
  <2>8. RowAgrees(m)'
    BY <2>2, <2>4, <2>5, <2>6 DEF RowAgrees, Paid
  <2>9. AdShows(m)'
    BY <2>2, <2>3, <2>5, <2>7, SoleBefore DEF SerialInv, AdShows, Engaged
  <2>10. FrameHolds(s)'
    BY <1>1, <2>2, ReplyHolds
  <2>11. ContractStep
    <3>1. Phase(m) \in {"agreed", "carried"} /\ Phase(m)' = "contested"
      BY <2>3, <2>5, PhaseIs, PhaseBecomes
    <3>2. Contract!Contest(m)
      BY <2>2, <2>7, <3>1, ContractMoves, ContractMoney DEF Contract!Contest
    <3> QED
      BY <3>2, ContractActs
  <2> QED
    BY <2>2, <2>5, <2>7, <2>8, <2>9, <2>10, <2>11, OneRowServes DEF Paid
<1> QED
  BY <1>2, <1>3

\* The arbitration ends the mission; a payment to cancel waits for the side
\* effects.
LEMMA CommitResolutionServes ==
  ASSUME OneAtATime, SerialInv, NEW s \in Slots, CommitResolution(s)
  PROVE  Serves
<1>1. /\ TypeOK /\ req[s].at = "resolve_commit" /\ req[s].at \notin OwingSteps
      /\ req[s].at \in MissionSteps
  BY SerialFacts DEF CommitResolution, At, OwingSteps, MissionSteps
<1>2. CASE Refuse(s)
  BY <1>1, <1>2, RefuseServes
<1>3. CASE ~Refuse(s)
  <2>1. PICK m \in Missions : m = req[s].mission
    BY <1>1, SerialFacts
  <2>2. PICK outcome \in {"COMPLETED", "CANCELLED"} : outcome = req[s].status
    BY <1>1 DEF TypeOK, Frames
  <2>3. /\ dispute[m] = "OPEN" /\ Goto(s, "resolve_effects")
        /\ UNCHANGED <<ad, payment>>
        /\ dispute' = [dispute EXCEPT ![m] = "RESOLVED"]
        /\ mission' = [mission EXCEPT ![m].status = outcome]
    BY <1>3, <2>1, <2>2 DEF CommitResolution
  <2>4. mission[m].status = "DISPUTED" /\ payment[m].status = "PENDING"
    BY <2>3 DEF SerialInv, RowAgrees, Engaged
  <2>5. /\ mission'[m].status = outcome
        /\ mission'[m].ad = mission[m].ad
        /\ mission'[m].packages = mission[m].packages
        /\ \A x \in Missions \ {m} : mission'[x] = mission[x]
    BY <1>1, <2>3, StatusWritten
  <2>6. /\ dispute'[m] = "RESOLVED"
        /\ \A x \in Missions \ {m} : dispute'[x] = dispute[x]
    BY <1>1, <2>3 DEF TypeOK
  <2>7. OthersStay(m) /\ MissionExists(m) /\ MissionExists(m)'
    BY <2>3, <2>4, <2>5, <2>6 DEF OthersStay, MissionExists, NoRow
  <2>8. RowAgrees(m)'
    BY <2>3, <2>4, <2>5, <2>6 DEF RowAgrees, Paid, Engaged
  <2>9. /\ req'[s].at = "resolve_effects" /\ req'[s].mission = m
        /\ req'[s].status = outcome
    BY <1>1, <2>1, <2>2, <2>3 DEF Goto, TypeOK, Frames, FrameRecords
  <2>10. AdShows(m)'
    BY <2>5, <2>9 DEF AdShows, Ending, OwingSteps, Engaged
  <2>11. FrameHolds(s)'
    <3>1. StillSo(s, m)'
      BY <2>5, <2>6, <2>9 DEF StillSo, At, CheckSteps, PackageSteps
    <3>2. ~FreshMission(m)' /\ Paid(m)'
      BY <2>3, <2>4, <2>5 DEF FreshMission, Paid
    <3> QED
      BY <2>9, <3>1, <3>2
      DEF FrameHolds, At, FreshMission, Paid, StillSo
  <2>12. ContractStep
    <3>1. Phase(m) = "contested"
      BY <2>4, PhaseIs
    <3>2. CASE outcome = "COMPLETED"
      <4>1. Phase(m)' = "honoured"
        BY <2>5, <3>2, PhaseBecomes
      <4>2. Contract!Uphold(m)
        BY <2>3, <2>7, <3>1, <4>1, ContractMoves, ContractMoney
        DEF Contract!Uphold
      <4> QED
        BY <4>2, ContractActs
    <3>3. CASE outcome = "CANCELLED"
      <4>1. Phase(m)' = "contested"
        BY <2>3, <2>4, <2>5, <2>6, <3>3, PhaseBecomes
      <4> QED
        BY <2>3, <2>7, <3>1, <4>1, SamePhase, ContractStutter DEF OthersStay
    <3> QED
      BY <3>2, <3>3
  <2> QED
    BY <2>3, <2>5, <2>7, <2>8, <2>10, <2>11, <2>12, OneRowServes DEF Paid
<1> QED
  BY <1>2, <1>3

\* The end of a mission is applied to its advertisement and its payment.
LEMMA SideEffectsServe ==
  ASSUME OneAtATime, SerialInv, NEW s \in Slots,
         At(s, "cancel_effects") \/ At(s, "resolve_effects"),
         ApplyStatusSideEffects(s), NEW m \in Missions, m = req[s].mission,
         MissionExists(m)
  PROVE  Serves
<1>1. /\ TypeOK /\ req[s].at \in HoldSteps /\ req[s].at \in EffectSteps
      /\ Reply(s) /\ UNCHANGED <<mission, dispute>>
  BY SerialFacts
  DEF At, HoldSteps, OwingSteps, EffectSteps, ApplyStatusSideEffects, Refuse, db
<1>2. /\ StillSo(s, m) /\ RowAgrees(m)
      /\ At(s, "cancel_effects") => req[s].status = "CANCELLED"
      /\ At(s, "resolve_effects") => Paid(m)
  BY <1>1, WhatIsHeld
<1>3. /\ mission[m].status = req[s].status
      /\ req[s].status \in {"COMPLETED", "CANCELLED"}
      /\ dispute[m] \in {"absent", "RESOLVED"}
      /\ req[s].status = "COMPLETED" => Paid(m)
  BY <1>1, <1>2 DEF StillSo, At, TypeOK, Frames
<1>4. PICK a \in Ads : a = mission[m].ad /\ a = req[s].ad /\ AdExists(a)
  BY <1>1, SerialFacts
  DEF EffectsStand, AdsStand, MissionExists, TypeOK, MissionRows, NoRow
<1>5. /\ ad' = [ad EXCEPT ![a] = AdStatusAfter(req[s].status, @)]
      /\ payment' = SettledPayment(m, req[s].status)
  BY <1>4 DEF ApplyStatusSideEffects
<1>6. /\ ad'[a] = IF req[s].status = "COMPLETED" THEN "COMPLETED" ELSE "OPEN"
      /\ \A x \in Ads \ {a} : ad'[x] = ad[x]
  BY <1>1, <1>3, <1>5 DEF AdStatusAfter, TypeOK
<1>7. /\ \A x \in Missions \ {m} : payment'[x] = payment[x]
      /\ req[s].status = "CANCELLED" /\ payment[m].status = "PENDING" =>
           payment'[m].status = "CANCELLED"
      /\ req[s].status # "CANCELLED" \/ payment[m].status # "PENDING" =>
           payment'[m] = payment[m]
  BY <1>1, <1>5 DEF SettledPayment, TypeOK, PaymentRows
<1>8. OthersStay(m) /\ MissionExists(m)' /\ (Paid(m) => Paid(m)')
  BY <1>1, <1>7 DEF OthersStay, MissionExists, Paid
<1>9. RowAgrees(m)'
  BY <1>1, <1>2, <1>3, <1>8 DEF RowAgrees, Engaged
<1>10. AdShows(m)'
  BY <1>1, <1>3, <1>4, <1>6 DEF AdShows, Engaged
<1>11. FrameHolds(s)'
  BY <1>1, ReplyHolds
<1>12. ContractStep
  <2>1. CASE req[s].status = "CANCELLED" /\ payment[m].status = "PENDING"
    <3>1. payment'[m].status = "CANCELLED" /\ Phase(m)' = "void"
      BY <1>1, <1>3, <1>7, <2>1, PhaseBecomes
    <3>2. Contract!Pay(m, "CANCELLED")
      BY <1>8, <2>1, <3>1, ContractPays
    <3>3. CASE dispute[m] = "absent"
      <4>1. Phase(m) = "agreed"
        BY <1>3, <2>1, <3>3, PhaseIs
      <4>2. Contract!CallOff(m)
        BY <1>8, <3>1, <3>2, <4>1, ContractMoves DEF Contract!CallOff
      <4> QED
        BY <4>2, ContractActs
    <3>4. CASE dispute[m] = "RESOLVED"
      <4>1. Phase(m) = "contested"
        BY <1>3, <2>1, <3>4, PhaseIs
      <4>2. Contract!Reverse(m)
        BY <1>8, <3>1, <3>2, <4>1, ContractMoves DEF Contract!Reverse
      <4> QED
        BY <4>2, ContractActs
    <3> QED
      BY <1>3, <3>3, <3>4
  <2>2. CASE ~(req[s].status = "CANCELLED" /\ payment[m].status = "PENDING")
    BY <1>1, <1>7, <2>2, SamePhase, ContractStutter
  <2> QED
    BY <2>1, <2>2
<1> QED
  BY <1>1, <1>3, <1>4, <1>6, <1>8, <1>9, <1>10, <1>11, <1>12, OneRowServes

\* A mission that was deleted before its end was applied had no deal.
LEMMA LateEffectsServe ==
  ASSUME OneAtATime, SerialInv, NEW s \in Slots,
         At(s, "cancel_effects") \/ At(s, "resolve_effects"),
         ApplyStatusSideEffects(s), NEW m \in Missions, m = req[s].mission,
         ~MissionExists(m)
  PROVE  Serves
<1>1. /\ TypeOK /\ PaidStand /\ req[s].at \in HoldSteps /\ Reply(s)
      /\ UNCHANGED <<mission, dispute>>
  BY SerialFacts
  DEF At, HoldSteps, OwingSteps, ApplyStatusSideEffects, Refuse, db
<1>2. ~Paid(m) /\ ~FreshMission(m) /\ req[s].status = "CANCELLED"
  BY <1>1, WhatIsHeld DEF PaidStand, Paid, At
<1>3. UNCHANGED payment
  BY <1>1, <1>2
  DEF ApplyStatusSideEffects, SettledPayment, Refuse, Paid, db
<1>4. \A a \in Ads : ad'[a] = ad[a] \/ ad'[a] = "OPEN"
  BY <1>1, <1>2 DEF ApplyStatusSideEffects, AdStatusAfter, Refuse, TypeOK, db
<1>5. \A x \in Missions : RowAgrees(x)'
  BY <1>1, <1>3 DEF SerialInv, RowAgrees, Paid
<1>6. \A v \in Slots : FrameHolds(v)'
  BY <1>1, ReplyHolds DEF OneAtATime
<1>7. AdsHaveDeals' /\ BlankRows'
  BY <1>1, <1>3, <1>4
  DEF SerialInv, AdsHaveDeals, Paid, BlankRows, MissionExists
<1>8. ASSUME NEW x \in Missions PROVE AdShows(x)'
  <2>1. ~Sole(x)'
    BY <1>1, <1>2 DEF Sole, FreshMission, MissionExists
  <2> QED
    BY <2>1 DEF AdShows
<1> QED
  BY <1>1, <1>3, <1>5, <1>6, <1>7, <1>8, SamePackages, SameContract DEF Serves

\* Both requests that end a mission apply its end this way.
LEMMA EffectsServe ==
  ASSUME OneAtATime, SerialInv, NEW s \in Slots,
         CancelEffects(s) \/ ResolveEffects(s)
  PROVE  Serves
<1>1. /\ ApplyStatusSideEffects(s)
      /\ At(s, "cancel_effects") \/ At(s, "resolve_effects")
  BY DEF CancelEffects, ResolveEffects
<1>2. req[s].mission \in Missions
  BY <1>1, SerialFacts DEF At, MissionSteps, CancelSteps
<1> QED
  BY <1>1, <1>2, SideEffectsServe, LateEffectsServe

\* The right code moves the mission on; a delivery is paid.
LEMMA CommitVerificationServes ==
  ASSUME OneAtATime, SerialInv, NEW s \in Slots, CommitVerification(s)
  PROVE  Serves
<1>1. /\ TypeOK /\ req[s].at = "verify_commit" /\ req[s].at \notin OwingSteps
      /\ req[s].at \in MissionSteps /\ req[s].at \in HoldSteps
  BY SerialFacts
  DEF CommitVerification, At, OwingSteps, MissionSteps, CodeSteps, HoldSteps,
      CheckSteps
<1>2. CASE Refuse(s)
  BY <1>1, <1>2, RefuseServes
<1>3. CASE ~Refuse(s)
  <2>1. PICK m \in Missions : m = req[s].mission
    BY <1>1, SerialFacts
  <2>2. MissionExists(m) /\ Reply(s) /\ UNCHANGED dispute
    BY <1>3, <2>1 DEF CommitVerification
  <2>3. /\ mission[m].status = StatusFor(req[s].kind)
        /\ RowAgrees(m) /\ AdShows(m)
    BY <1>1, <2>1, <2>2, WhatIsHeld DEF StillSo, CheckSteps
  <2>4. PICK a \in Ads : a = mission[m].ad
    BY <1>1, <2>2 DEF TypeOK, MissionRows, MissionExists, NoRow
  <2>5. payment[m].status = "PENDING" /\ dispute[m] \notin {"OPEN", "RESOLVED"}
    BY <2>3 DEF RowAgrees, StatusFor, Engaged
  <2>6. CASE req[s].kind = "PICKUP"
    <3>1. /\ mission' = [mission EXCEPT ![m].status = "IN_TRANSIT"]
          /\ UNCHANGED <<ad, payment>>
      BY <1>3, <2>1, <2>6 DEF CommitVerification
    <3>2. /\ mission'[m].status = "IN_TRANSIT"
          /\ mission'[m].ad = mission[m].ad
          /\ mission'[m].packages = mission[m].packages
          /\ \A x \in Missions \ {m} : mission'[x] = mission[x]
      BY <1>1, <3>1, StatusWritten
    <3>3. OthersStay(m) /\ MissionExists(m)'
      BY <2>2, <3>1, <3>2 DEF OthersStay, MissionExists, NoRow
    <3>4. RowAgrees(m)'
      BY <2>2, <2>3, <2>5, <3>1, <3>2 DEF RowAgrees, Paid
    <3>5. mission[m].status = "ACCEPTED"
      BY <2>3, <2>6 DEF StatusFor
    <3>6. AdShows(m)'
      BY <2>2, <2>3, <3>1, <3>2, <3>3, <3>5, SoleBefore DEF AdShows, Engaged
    <3>7. Contract!PickUp(m)
      BY <3>1, <3>2, <3>3, <3>5, PhaseIs, PhaseBecomes, ContractMoves,
         ContractMoney DEF Contract!PickUp
    <3>8. FrameHolds(s)' /\ ContractStep
      BY <1>1, <2>2, <3>7, ReplyHolds, ContractActs
    <3> QED
      BY <2>2, <3>1, <3>2, <3>3, <3>4, <3>6, <3>8, OneRowServes DEF Paid
  <2>7. CASE req[s].kind = "DELIVERY"
    <3>1. /\ mission' = [mission EXCEPT ![m].status = "COMPLETED"]
          /\ ad' = [ad EXCEPT ![a] = "COMPLETED"]
          /\ payment' = [payment EXCEPT ![m].status = "COMPLETED"]
      BY <1>3, <2>1, <2>4, <2>5, <2>7 DEF CommitVerification
    <3>2. /\ mission'[m].status = "COMPLETED"
          /\ mission'[m].ad = mission[m].ad
          /\ mission'[m].packages = mission[m].packages
          /\ \A x \in Missions \ {m} : mission'[x] = mission[x]
      BY <1>1, <3>1, StatusWritten
    <3>3. /\ payment'[m].status = "COMPLETED"
          /\ \A x \in Missions \ {m} : payment'[x] = payment[x]
      BY <1>1, <3>1 DEF TypeOK, PaymentRows
    <3>4. OthersStay(m) /\ MissionExists(m)'
      BY <2>2, <3>2, <3>3 DEF OthersStay, MissionExists, NoRow
    <3>5. RowAgrees(m)'
      BY <2>2, <2>5, <3>2, <3>3 DEF RowAgrees, Paid, Engaged
    <3>6. ad'[a] = "COMPLETED" /\ \A x \in Ads \ {a} : ad'[x] = ad[x]
      BY <1>1, <3>1 DEF TypeOK
    <3>7. AdShows(m)'
      BY <2>4, <3>2, <3>6 DEF AdShows, Engaged
    <3>8. mission[m].status = "IN_TRANSIT"
      BY <2>3, <2>7 DEF StatusFor
    <3>9. Contract!Pay(m, "COMPLETED")
      BY <2>5, <3>3, <3>4, ContractPays
    <3>10. Contract!Deliver(m)
      BY <3>2, <3>4, <3>8, <3>9, PhaseIs, PhaseBecomes, ContractMoves
      DEF Contract!Deliver
    <3>11. FrameHolds(s)' /\ ContractStep
      BY <1>1, <2>2, <3>10, ReplyHolds, ContractActs
    <3>12. Paid(m) /\ Paid(m)'
      BY <2>5, <3>3 DEF Paid
    <3> QED
      BY <2>2, <2>4, <3>2, <3>4, <3>5, <3>6, <3>7, <3>11, <3>12, OneRowServes
  <2> QED
    BY <1>3, <2>6, <2>7 DEF CommitVerification
<1> QED
  BY <1>2, <1>3

----------------------------------------------------------------------------
(* Missions that begin *)

\* Mission m is inserted under advertisement a.
LEMMA CreationServes ==
  ASSUME OneAtATime, SerialInv, NEW m \in Missions, NEW a \in Ads, NEW u, NEW ps,
         FreshMission(m),
         mission' = [mission EXCEPT ![m] = Mission("PENDING", a, u, ps)],
         UNCHANGED <<payment, dispute>>,
         ad'[a] \in AdStatus,
         \A x \in Ads : ad'[x] = ad[x] \/ ad'[x] = "OPEN",
         \A s \in Slots : req'[s] = req[s] \/ FrameHolds(s)'
  PROVE  Serves
<1> DEFINE r == Mission("PENDING", a, u, ps)
<1>1. r.ad = a /\ r.status = "PENDING"
  BY DEF Mission
<1> HIDE DEF r
<1>2. /\ TypeOK /\ PaidStand /\ PaymentMatchesDeal /\ DisputesAttached
      /\ mission'[m] = r /\ \A x \in Missions \ {m} : mission'[x] = mission[x]
  BY SerialFacts DEF TypeOK, r
<1>3. /\ ~MissionExists(m) /\ ~Paid(m) /\ dispute[m] = "absent"
      /\ mission[m].carrier = None
  BY <1>2
  DEF FreshMission, MissionExists, NoRow, Paid, PaidStand, DisputesAttached,
      PaymentMatchesDeal
<1>4. OthersStay(m) /\ MissionExists(m)'
  BY <1>1, <1>2 DEF OthersStay, MissionExists, NoRow
<1>5. \A x \in Missions : RowAgrees(x)'
  BY <1>1, <1>2, <1>3 DEF SerialInv, RowAgrees, Paid, Engaged
<1>6. ASSUME NEW s \in Slots, req'[s] = req[s] PROVE FrameHolds(s)'
  <2> SUFFICES ASSUME req[s].at \in HoldSteps PROVE FrameHolds(s)'
    BY <1>6 DEF FrameHolds
  <2>1. PICK x \in Missions : x = req[s].mission
    BY SerialFacts
    DEF HoldSteps, MissionSteps, PackageSteps, OwingSteps, CheckSteps,
        CodeSteps, CancelSteps
  <2>2. /\ ~FreshMission(x)
        /\ At(s, "cancel_effects") => req[s].status = "CANCELLED"
        /\ At(s, "resolve_effects") => Paid(x)
        /\ MissionExists(x) => StillSo(s, x)
    BY <2>1, WhatIsHeld
  <2>3. mission'[x] = mission[x] /\ dispute'[x] = dispute[x]
    BY <1>2, <2>2
  <2> QED
    BY <1>6, <2>1, <2>2, <2>3
    DEF FrameHolds, FreshMission, MissionExists, StillSo, At, Paid
<1>7. AdsHaveDeals'
  BY <1>2, <1>3 DEF SerialInv, AdsHaveDeals, Paid
<1>8. BlankRows'
  BY <1>2, <1>4 DEF SerialInv, BlankRows, MissionExists
<1>9. ASSUME NEW x \in Missions, Sole(x)' PROVE AdShows(x)'
  <2>1. x = m
    BY <1>4, <1>9 DEF Sole, MissionExists, NoRow
  <2>2. \A y \in Missions : ~Paid(y)
    BY <1>2, <1>3, <1>9, <2>1 DEF Sole, PaidStand, Paid, MissionExists, NoRow
  <2>3. ad'[a] = "OPEN"
    BY <2>2 DEF SerialInv, AdsHaveDeals, AdStatus
  <2> QED
    BY <1>1, <1>2, <2>1, <2>3 DEF AdShows, Engaged
<1>10. \A x \in Missions : AdShows(x)'
  BY <1>9 DEF AdShows
<1>11. PackagesFrozen
  BY <1>2, <1>3 DEF PackagesFrozen
<1>12. ContractStep
  <2>1. Phase(m) = "none" /\ Phase(m)' = "open"
    BY <1>1, <1>2, PhaseIs, PhaseBecomes DEF FreshMission
  <2>2. Contract!Propose(m)
    BY <1>4, <2>1, ContractMoves, ContractMoney DEF Contract!Propose
  <2> QED
    BY <2>2, ContractActs
<1> QED
  BY <1>5, <1>6, <1>7, <1>8, <1>10, <1>11, <1>12 DEF Serves

\* An advertisement is published, of type SHIPPING with its dossier.
LEMMA PublishAdServes ==
  ASSUME OneAtATime, SerialInv, NEW a \in Ads, PublishAd(a)
  PROVE  Serves
<1>1. /\ TypeOK /\ AdsStand /\ ad[a] = "absent" /\ ad'[a] = "OPEN"
      /\ \A x \in Ads \ {a} : ad'[x] = ad[x]
      /\ UNCHANGED <<payment, dispute, req>>
  BY SerialFacts DEF PublishAd, TypeOK
<1>2. CASE UNCHANGED mission
  <2>1. \A x \in Missions : RowAgrees(x)'
    BY <1>1, <1>2 DEF SerialInv, RowAgrees, Paid
  <2>2. \A s \in Slots : FrameHolds(s)'
    BY <1>1, <1>2
    DEF SerialInv, FrameHolds, FreshMission, MissionExists, StillSo, At, Paid
  <2>3. AdsHaveDeals' /\ BlankRows'
    BY <1>1, <1>2 DEF SerialInv, AdsHaveDeals, Paid, BlankRows, MissionExists
  <2>4. ASSUME NEW x \in Missions, Sole(x)' PROVE AdShows(x)'
    <3>1. MissionExists(x) /\ Sole(x)
      BY <1>2, <2>4 DEF Sole, MissionExists
    <3>2. mission[x].ad \in Ads \ {a}
      BY <1>1, <3>1
      DEF AdsStand, AdExists, NoRow, MissionExists, TypeOK, MissionRows
    <3>3. ad'[mission[x].ad] = ad[mission[x].ad] /\ (Ending(x)' <=> Ending(x))
      BY <1>1, <3>2 DEF Ending
    <3> QED
      BY <1>2, <3>1, <3>3 DEF SerialInv, AdShows
  <2>5. \A x \in Missions : AdShows(x)'
    BY <2>4 DEF AdShows
  <2> QED
    BY <1>1, <1>2, <2>1, <2>2, <2>3, <2>5, SamePackages, SameContract
    DEF Serves
<1>3. CASE ~UNCHANGED mission
  <2>1. PICK m \in Missions, ps \in SUBSET Owned(AdAuthor[a]) :
          /\ FreshMission(m)
          /\ mission' = [mission EXCEPT ![m] =
                           Mission("PENDING", a, AdAuthor[a], ps)]
    BY <1>3 DEF PublishAd
  <2>2. ad'[a] \in AdStatus
    BY <1>1 DEF AdStatus
  <2>3. /\ \A x \in Ads : ad'[x] = ad[x] \/ ad'[x] = "OPEN"
        /\ \A s \in Slots : req'[s] = req[s]
    BY <1>1
  <2> QED
    BY <1>1, <2>1, <2>2, <2>3, CreationServes
<1> QED
  BY <1>2, <1>3

\* A mission is created by a user.
LEMMA InsertMissionServes ==
  ASSUME OneAtATime, SerialInv, NEW s \in Slots, InsertMission(s)
  PROVE  Serves
<1>1. TypeOK /\ req[s].at = "mission_insert" /\ req[s].at \notin OwingSteps
  BY SerialFacts DEF InsertMission, At, OwingSteps
<1>2. CASE Refuse(s)
  BY <1>1, <1>2, RefuseServes
<1>3. CASE ~Refuse(s)
  <2>1. PICK a \in Ads : a = req[s].ad
    BY <1>1 DEF TypeOK, Frames, FrameRecords
  <2>2. PICK m \in Missions, ps \in SUBSET Owned(req[s].who) :
          /\ FreshMission(m)
          /\ mission' = [mission EXCEPT ![m] =
                           Mission("PENDING", a, req[s].who, ps)]
    BY <1>3, <2>1 DEF InsertMission
  <2>3. /\ UNCHANGED <<ad, payment, dispute>> /\ Reply(s)
        /\ AdExists(a)
    BY <1>3, <2>1 DEF InsertMission
  <2>4. ad'[a] \in AdStatus
    BY <1>1, <2>3 DEF AdExists, TypeOK
  <2>5. \A v \in Slots : FrameHolds(v)'
    BY <1>1, <2>3, ReplyHolds DEF OneAtATime
  <2> QED
    BY <2>2, <2>3, <2>4, <2>5, CreationServes
<1> QED
  BY <1>2, <1>3

\* A conversation is attached to a dossier, or to a mission of its own.
LEMMA WriteConversationServes ==
  ASSUME OneAtATime, SerialInv, NEW s \in Slots, WriteConversation(s)
  PROVE  Serves
<1>1. /\ TypeOK /\ req[s].at = "dossier_write" /\ req[s].at \notin OwingSteps
      /\ Reply(s) /\ UNCHANGED <<ad, payment, dispute>>
  BY SerialFacts DEF WriteConversation, At, OwingSteps
<1>2. CASE UNCHANGED mission
  BY <1>1, <1>2, GoOnServes
<1>3. CASE ~UNCHANGED mission
  <2>1. PICK c \in Convs : c = req[s].conv
    BY <1>1 DEF TypeOK, Frames, FrameRecords, ConvSteps
  <2>2. PICK a \in Ads : a = c[1]
    BY DEF Convs
  <2>3. PICK m \in Missions, ps \in SUBSET Owned(Shipper(c)) :
          /\ FreshMission(m)
          /\ mission' = [mission EXCEPT ![m] =
                           Mission("PENDING", a, Shipper(c), ps)]
    BY <1>3, <2>1, <2>2 DEF WriteConversation
  <2>4. AdExists(a)
    BY <1>3, <2>1, <2>2 DEF WriteConversation
  <2>5. ad'[a] \in AdStatus
    BY <1>1, <2>4 DEF AdExists, TypeOK
  <2>6. \A v \in Slots : FrameHolds(v)'
    BY <1>1, ReplyHolds DEF OneAtATime
  <2> QED
    BY <1>1, <2>3, <2>5, <2>6, CreationServes
<1> QED
  BY <1>2, <1>3

----------------------------------------------------------------------------
(* Missions that are deleted, and the one that is engaged *)

\* The missions D, which nobody owes money for, are deleted.
LEMMA ErasureServes ==
  ASSUME OneAtATime, SerialInv, NEW D, D \subseteq Missions,
         \A m \in D : MissionExists(m), Erasable(D), EraseMissions(D),
         UNCHANGED payment,
         \A a \in Ads : ad'[a] = ad[a]
           \/ (ad'[a] = "erased" /\ \A m \in Missions : mission[m].ad = a => m \in D),
         \/ UNCHANGED req
         \/ D # {} /\ \A s \in Slots : FrameHolds(s)'
  PROVE  Serves
<1>1. /\ TypeOK /\ PaymentMatchesDeal
      /\ \A m \in D : ~Paid(m) /\ mission[m].carrier = None
  BY SerialFacts DEF Erasable, Paid, PaymentMatchesDeal
<1>2. /\ \A m \in D : mission'[m].status = "erased" /\ mission'[m].ad = None
      /\ \A m \in Missions \ D : mission'[m] = mission[m]
      /\ \A m \in D : dispute'[m] = "absent"
      /\ \A m \in Missions \ D : dispute'[m] = dispute[m]
  BY DEF EraseMissions, NoMission, Mission
<1>3. ASSUME NEW x \in Missions PROVE RowAgrees(x)'
  BY <1>2 DEF SerialInv, RowAgrees, Paid, Engaged
<1>4. ASSUME NEW s \in Slots, UNCHANGED req PROVE FrameHolds(s)'
  <2> SUFFICES ASSUME req[s].at \in HoldSteps PROVE FrameHolds(s)'
    BY <1>4 DEF FrameHolds
  <2>1. PICK x \in Missions : x = req[s].mission
    BY SerialFacts
    DEF HoldSteps, MissionSteps, PackageSteps, OwingSteps, CheckSteps,
        CodeSteps, CancelSteps
  <2>2. /\ ~FreshMission(x)
        /\ At(s, "cancel_effects") => req[s].status = "CANCELLED"
        /\ At(s, "resolve_effects") => Paid(x)
        /\ MissionExists(x) => StillSo(s, x)
    BY <2>1, WhatIsHeld
  <2>3. CASE x \in D
    <3>1. ~FreshMission(x)' /\ ~MissionExists(x)'
      BY <1>2, <2>3 DEF FreshMission, MissionExists, NoRow
    <3> QED
      BY <1>1, <1>4, <2>1, <2>2, <2>3, <3>1
      DEF FrameHolds, FreshMission, MissionExists, At
  <2>4. CASE x \notin D
    <3>1. mission'[x] = mission[x] /\ dispute'[x] = dispute[x]
      BY <1>2, <2>4
    <3> QED
      BY <1>4, <2>1, <2>2, <3>1
      DEF FrameHolds, FreshMission, MissionExists, StillSo, At, Paid
  <2> QED
    BY <2>3, <2>4
<1>5. AdsHaveDeals'
  <2> SUFFICES ASSUME NEW a \in Ads, ad'[a] \in {"IN_PROGRESS", "COMPLETED"}
               PROVE  \E x \in Missions : mission'[x].ad = a /\ Paid(x)'
    BY DEF AdsHaveDeals
  <2>1. PICK x \in Missions : mission[x].ad = a /\ Paid(x)
    BY DEF SerialInv, AdsHaveDeals
  <2>2. mission'[x].ad = a /\ Paid(x)'
    BY <1>1, <1>2, <2>1 DEF Paid
  <2> QED
    BY <2>2
<1>6. BlankRows'
  BY <1>2 DEF SerialInv, BlankRows, MissionExists
<1>7. ASSUME NEW x \in Missions, Sole(x)' PROVE AdShows(x)'
  <2>1. x \notin D /\ D = {}
    BY <1>2, <1>7 DEF Sole, MissionExists, NoRow
  <2>2. UNCHANGED req /\ MissionExists(x) /\ Sole(x)
    BY <1>2, <1>7, <2>1 DEF Sole, MissionExists
  <2>3. mission[x].ad \in Ads /\ mission'[x] = mission[x]
    BY <1>1, <1>2, <2>1, <2>2 DEF TypeOK, MissionRows, MissionExists, NoRow
  <2>4. ad'[mission[x].ad] = ad[mission[x].ad]
    BY <2>1, <2>3
  <2>5. Ending(x)' <=> Ending(x)
    BY <2>2 DEF Ending
  <2> QED
    BY <2>2, <2>3, <2>4, <2>5 DEF SerialInv, AdShows
<1>8. \A x \in Missions : AdShows(x)'
  BY <1>7 DEF AdShows
<1>9. PackagesFrozen
  BY <1>1, <1>2 DEF PackagesFrozen
<1>10. ContractStep
  <2> DEFINE phase == [x \in Missions |-> Phase(x)]
             money == [x \in Missions |-> payment[x].status]
  <2>1. ASSUME NEW x \in D
        PROVE  Phase(x) \in {"open", "void"} /\ Phase(x)' = "gone"
    <3>1. mission[x].status \in {"PENDING", "CANCELLED"}
      BY <1>1, <2>1
      DEF SerialInv, RowAgrees, Paid, Engaged, MissionExists, TypeOK,
          MissionRows, MissionStatus, NoRow
    <3>2. payment[x].status # "PENDING" /\ mission'[x].status = "erased"
      BY <1>1, <1>2, <2>1 DEF Paid
    <3> QED
      BY <2>1, <3>1, <3>2, PhaseIs, PhaseBecomes
  <2>2. \A x \in Missions \ D : Phase(x)' = Phase(x)
    BY <1>2, SamePhase
  <2>3. phase' = [x \in Missions |-> IF x \in D THEN "gone" ELSE phase[x]]
    BY <2>1, <2>2
  <2>4. UNCHANGED money /\ \A x \in D : money[x] = "absent"
    BY <1>1 DEF Paid
  <2>5. \A x \in D : phase[x] \in {"open", "void"}
    BY <2>1
  <2>6. Contract!Withdraw(D)
    BY <2>3, <2>4, <2>5 DEF Contract!Withdraw
  <2> QED
    BY <2>6 DEF ContractStep, Contract!Next
<1> QED
  BY <1>3, <1>4, <1>5, <1>6, <1>8, <1>9, <1>10 DEF Serves

\* A mission is deleted by its shipper.
LEMMA EraseMissionServes ==
  ASSUME OneAtATime, SerialInv, NEW s \in Slots, EraseMission(s)
  PROVE  Serves
<1>1. /\ TypeOK /\ req[s].at = "mission_delete" /\ req[s].at \notin OwingSteps
      /\ req[s].at \in MissionSteps
  BY SerialFacts DEF EraseMission, At, OwingSteps, MissionSteps
<1>2. CASE Refuse(s)
  BY <1>1, <1>2, RefuseServes
<1>3. CASE ~Refuse(s)
  <2>1. PICK m \in Missions : m = req[s].mission
    BY <1>1, SerialFacts
  <2>2. /\ MissionExists(m) /\ Erasable({m}) /\ EraseMissions({m}) /\ Reply(s)
        /\ UNCHANGED <<ad, payment>>
    BY <1>3, <2>1 DEF EraseMission
  <2>3. \A v \in Slots : FrameHolds(v)'
    BY <1>1, <2>2, ReplyHolds DEF OneAtATime
  <2> DEFINE D == {m}
  <2>4. /\ D \subseteq Missions /\ D # {} /\ \A x \in D : MissionExists(x)
        /\ Erasable(D) /\ EraseMissions(D)
    BY <2>2
  <2> HIDE DEF D
  <2> QED
    BY <2>2, <2>3, <2>4, ErasureServes
<1> QED
  BY <1>2, <1>3

\* An advertisement is deleted with its missions.
LEMMA DeleteAdServes ==
  ASSUME OneAtATime, SerialInv, NEW a \in Ads, DeleteAd(a)
  PROVE  Serves
<1> DEFINE D == {m \in Missions : mission[m].ad = a}
<1>1. /\ TypeOK /\ Erasable(D) /\ EraseMissions(D)
      /\ ad' = [ad EXCEPT ![a] = "erased"] /\ UNCHANGED <<payment, req>>
  BY SerialFacts DEF DeleteAd
<1>2. D \subseteq Missions /\ \A m \in D : MissionExists(m)
  BY NoneAssumption DEF SerialInv, BlankRows
<1>3. \A x \in Ads : ad'[x] = ad[x]
        \/ (ad'[x] = "erased" /\ \A m \in Missions : mission[m].ad = x => m \in D)
  BY <1>1 DEF TypeOK
<1> HIDE DEF D
<1> QED
  BY <1>1, <1>2, <1>3, ErasureServes

\* An offer is accepted: its mission is engaged, the others are void.
LEMMA CommitAcceptanceServes ==
  ASSUME OneAtATime, SerialInv, NEW s \in Slots, CommitAcceptance(s)
  PROVE  Serves
<1>1. /\ TypeOK /\ req[s].at = "accept_commit" /\ req[s].at \notin OwingSteps
      /\ req[s].at \in MissionSteps
  BY SerialFacts DEF CommitAcceptance, At, OwingSteps, MissionSteps, AcceptSteps
<1>2. CASE Refuse(s)
  BY <1>1, <1>2, RefuseServes
<1>3. CASE ~Refuse(s)
  <2>1. PICK m \in Missions : m = req[s].mission
    BY <1>1, SerialFacts
  <2> DEFINE u == Carrier(req[s].conv)
             p == req[s].price
  <2>2. PICK losers \in SUBSET (Missions \ {m}) :
          \A x \in Missions \ {m} : x \in losers <=>
            mission[x].ad = mission[m].ad /\ mission[x].status = "PENDING"
    <3> WITNESS {x \in Missions \ {m} : mission[x].ad = mission[m].ad
                                        /\ mission[x].status = "PENDING"}
                \in SUBSET (Missions \ {m})
    <3> QED
      OBVIOUS
  <2>3. /\ mission[m].status = "PENDING" /\ payment[m].status = "absent"
        /\ mission' = [x \in Missions |-> EngagedMission(x, m, u, p)]
        /\ ad' = [ad EXCEPT ![mission[m].ad] = "IN_PROGRESS"]
        /\ payment' = [payment EXCEPT ![m] = [status |-> "PENDING", amount |-> p]]
        /\ Reply(s) /\ UNCHANGED dispute
    BY <1>3, <2>1 DEF CommitAcceptance, CanEngage
  <2>4. PICK a \in Ads : a = mission[m].ad
    BY <1>1, <2>3 DEF TypeOK, MissionRows, MissionStatus
  <2>5. /\ mission'[m].status = "ACCEPTED"
        /\ \A x \in losers : mission'[x].status = "CANCELLED"
        /\ \A x \in Missions \ ({m} \union losers) : mission'[x] = mission[x]
        /\ \A x \in Missions : /\ mission'[x].ad = mission[x].ad
                               /\ mission'[x].packages = mission[x].packages
    <3>1. \A x \in Missions : mission'[x] = EngagedMission(x, m, u, p)
      BY <2>3
    <3>2. \A x \in Missions : mission[x] \in MissionRows
      BY <1>1 DEF TypeOK
    <3> HIDE DEF u, p
    <3>3. /\ mission'[m] = [mission[m] EXCEPT !.status = "ACCEPTED",
                                             !.carrier = u, !.price = p]
          /\ \A x \in losers : mission'[x] = [mission[x] EXCEPT !.status = "CANCELLED"]
          /\ \A x \in Missions \ ({m} \union losers) : mission'[x] = mission[x]
      BY <2>2, <3>1 DEF EngagedMission
    <3>4. /\ mission'[m].status = "ACCEPTED" /\ mission'[m].ad = mission[m].ad
          /\ mission'[m].packages = mission[m].packages
      BY <3>2, <3>3 DEF MissionRows
    <3>5. ASSUME NEW x \in losers
          PROVE  /\ mission'[x].status = "CANCELLED"
                 /\ mission'[x].ad = mission[x].ad
                 /\ mission'[x].packages = mission[x].packages
      <4>1. mission[x] \in MissionRows
        BY <3>2, <3>5
      <4>2. mission'[x] = [mission[x] EXCEPT !.status = "CANCELLED"]
        BY <3>3, <3>5
      <4> QED
        BY <4>1, <4>2 DEF MissionRows
    <3> QED
      BY <3>3, <3>4, <3>5
  <2>6. /\ payment'[m].status = "PENDING"
        /\ \A x \in Missions \ {m} : payment'[x] = payment[x]
    BY <1>1, <2>3 DEF TypeOK
  <2>7. ad'[a] = "IN_PROGRESS" /\ \A x \in Ads \ {a} : ad'[x] = ad[x]
    BY <1>1, <2>3, <2>4 DEF TypeOK
  <2>8. \A x \in losers \union {m} :
          /\ mission[x].status = "PENDING" /\ dispute[x] = "absent"
          /\ payment[x].status = "absent"
    BY <1>1, <2>3, <2>2, PendingIsFree DEF SerialInv, RowAgrees, TypeOK
  <2> HIDE DEF u, p
  <2>9. ASSUME NEW x \in Missions PROVE RowAgrees(x)'
    <3>1. CASE x = m
      BY <2>3, <2>5, <2>6, <2>8, <3>1 DEF RowAgrees, Paid
    <3>2. CASE x \in losers
      BY <2>3, <2>5, <2>8, <3>2 DEF RowAgrees, Engaged
    <3>3. CASE x \notin losers \union {m}
      <4>1. /\ mission'[x] = mission[x] /\ payment'[x] = payment[x]
            /\ dispute'[x] = dispute[x]
        BY <2>3, <2>5, <2>6, <3>3
      <4> QED
        BY <4>1 DEF SerialInv, RowAgrees, Paid
    <3> QED
      BY <3>1, <3>2, <3>3
  <2>10. \A v \in Slots : FrameHolds(v)'
    BY <1>1, <2>3, ReplyHolds DEF OneAtATime
  <2>11. AdsHaveDeals'
    <3> SUFFICES ASSUME NEW b \in Ads, ad'[b] \in {"IN_PROGRESS", "COMPLETED"}
                 PROVE  \E x \in Missions : mission'[x].ad = b /\ Paid(x)'
      BY DEF AdsHaveDeals
    <3>1. \A x \in Missions : Paid(x) => Paid(x)'
      BY <2>6 DEF Paid
    <3>2. Paid(m)'
      BY <2>6 DEF Paid
    <3>3. CASE b = a
      BY <2>4, <2>5, <3>2, <3>3
    <3>4. CASE b # a
      BY <2>5, <2>7, <3>1, <3>4 DEF SerialInv, AdsHaveDeals
    <3> QED
      BY <3>3, <3>4
  <2>12. BlankRows'
    <3>1. \A x \in losers \union {m} : MissionExists(x)'
      BY <2>5 DEF MissionExists, NoRow
    <3>2. \A x \in Missions \ (losers \union {m}) : mission'[x] = mission[x]
      BY <2>5
    <3> QED
      BY <3>1, <3>2 DEF SerialInv, BlankRows, MissionExists
  <2>13. ASSUME NEW x \in Missions PROVE AdShows(x)'
    <3>1. CASE x = m
      BY <2>4, <2>5, <2>7, <3>1 DEF AdShows, Engaged
    <3>2. CASE x # m
      <4>1. ~Sole(x)'
        BY <2>5, <3>2 DEF Sole
      <4> QED
        BY <4>1 DEF AdShows
    <3> QED
      BY <3>1, <3>2
  <2>14. PackagesFrozen
    BY <2>5 DEF PackagesFrozen
  <2>15. ContractStep
    <3> DEFINE phase == [x \in Missions |-> Phase(x)]
               money == [x \in Missions |-> payment[x].status]
    <3>1. \A x \in losers \union {m} : Phase(x) = "open"
      BY <2>8, <2>2, PhaseIs
    <3>2. Phase(m)' = "agreed" /\ \A x \in losers : Phase(x)' = "void"
      <4>1. Phase(m)' = "agreed"
        BY <2>5, PhaseBecomes
      <4>2. ASSUME NEW x \in losers PROVE Phase(x)' = "void"
        <5>1. /\ mission'[x].status = "CANCELLED"
              /\ payment'[x].status = "absent" /\ x \in Missions
          BY <2>5, <2>6, <2>8, <2>2
        <5> QED
          BY <5>1, PhaseBecomes
      <4> QED
        BY <4>1, <4>2
    <3>3. \A x \in Missions \ (losers \union {m}) : Phase(x)' = Phase(x)
      BY <2>3, <2>5, <2>6, SamePhase
    <3>4. phase' = [x \in Missions |-> IF x = m THEN "agreed"
                      ELSE IF x \in losers THEN "void" ELSE phase[x]]
      BY <2>2, <3>2, <3>3
    <3>5. money' = [money EXCEPT ![m] = "PENDING"]
      BY <2>6
    <3>6. /\ phase[m] = "open" /\ money[m] = "absent"
          /\ \A x \in losers : phase[x] = "open"
      BY <2>8, <2>2, <3>1
    <3>7. Contract!Agree(m, losers)
      BY <3>4, <3>5, <3>6 DEF Contract!Agree
    <3> QED
      BY <2>2, <3>7, ContractAgrees
  <2> QED
    BY <2>9, <2>10, <2>11, <2>12, <2>13, <2>14, <2>15 DEF Serves
<1> QED
  BY <1>2, <1>3

----------------------------------------------------------------------------
(* Every step *)

\* The next statement of the request that is served.
LEMMA ContinueServes ==
  ASSUME OneAtATime, SerialInv, NEW s \in Slots, Continue(s)
  PROVE  Serves
<1>1. CASE \/ WriteConversation(s) \/ HideConversation(s)
           \/ EraseConversation(s) \/ InsertOffer(s) \/ WakeConversation(s)
           \/ ReviveConversation(s) \/ WriteOfferEdit(s) \/ CheckCarrierKyc(s)
           \/ ReadMissionToAccept(s) \/ WriteRejection(s) \/ WriteCode(s)
           \/ CountAttempt(s)
  BY <1>1, WriteConversationServes, SideStatements
<1>2. CASE \/ CommitAcceptance(s) \/ InsertMission(s) \/ WritePackages(s)
           \/ EraseMission(s) \/ WriteCancellation(s) \/ RereadMission(s)
           \/ CancelEffects(s) \/ LoadProof(s) \/ CommitVerification(s)
           \/ CommitDispute(s) \/ CommitResolution(s) \/ ResolveEffects(s)
  BY <1>2, CommitAcceptanceServes, InsertMissionServes, WritePackagesServes,
     EraseMissionServes, WriteCancellationServes, RereadMissionServes,
     EffectsServe, LoadProofServes, CommitVerificationServes,
     CommitDisputeServes, CommitResolutionServes
<1> QED
  BY <1>1, <1>2 DEF Continue

\* The process restarts and forgets the request.
LEMMA RestartServes ==
  ASSUME SerialInv, Restart
  PROVE  Serves
<1>1. /\ UNCHANGED <<ad, mission, payment, dispute>> /\ "restart" \in Ops
      /\ \A s \in Slots : req'[s] = Idle
  BY DEF Restart, db
<1>2. \A s \in Slots : FrameHolds(s)'
  BY <1>1, PlainFrame
  DEF Idle, HoldSteps, PackageSteps, OwingSteps, CheckSteps
<1> QED
  BY <1>1, <1>2, AsideServes

\* Every step of a marketplace that serves one request at a time.
LEMMA StepServes ==
  ASSUME OneAtATime, SerialInv, [Next]_vars
  PROVE  Serves
<1>1. CASE \E s \in Slots : Arrive(s) \/ Continue(s)
  BY <1>1, ArriveServes, ContinueServes
<1>2. CASE OneStatement
  BY <1>2, PublishAdServes, DeleteAdServes, SideWebhooks DEF OneStatement
<1>3. CASE UNCHANGED vars
  BY <1>3, SideWebhooks
<1> QED
  BY <1>1, <1>2, <1>3, RestartServes DEF Next

\* Every step keeps the inductive invariant.
LEMMA SerialStep ==
  ASSUME OneAtATime
  PROVE  SerialInv /\ [Next]_vars => SerialInv'
BY StepServes, StandingStep DEF SerialInv, Serves

\* It holds when the tables are empty.
LEMMA SerialInit == Init => SerialInv
<1> SUFFICES ASSUME Init PROVE SerialInv
  OBVIOUS
<1>1. StandingInv
  BY StandingInit
<1>2. /\ \A m \in Missions : mission[m] = NoMission /\ payment[m] = NoPayment
                               /\ dispute[m] = "absent"
      /\ \A a \in Ads : ad[a] = "absent"
      /\ \A s \in Slots : req[s] = Idle
  BY DEF Init, StoreInit
<1>3. \A m \in Missions : mission[m].status = "absent" /\ mission[m].ad = None
  BY <1>2 DEF NoMission, Mission
<1>4. \A m \in Missions : RowAgrees(m) /\ AdShows(m)
  BY <1>2, <1>3 DEF RowAgrees, AdShows, Sole, MissionExists, NoRow, Engaged
<1>5. \A s \in Slots : FrameHolds(s)
  BY <1>2
  DEF FrameHolds, Idle, HoldSteps, PackageSteps, OwingSteps, CheckSteps
<1>6. AdsHaveDeals /\ BlankRows
  BY <1>2, <1>3 DEF AdsHaveDeals, BlankRows
<1> QED
  BY <1>1, <1>4, <1>5, <1>6 DEF SerialInv

\* One request at a time, what a request has read stays so until it writes,
\* and statuses, disputes, payments and advertisements agree.
THEOREM SerialInvariant ==
  ASSUME OneAtATime
  PROVE  Spec => []SerialInv
BY SerialInit, SerialStep, PTL DEF Spec

\* One request at a time, a dispute is OPEN exactly while its mission waits
\* for the arbitration (DisputesService.resolve, MissionsController).
THEOREM DisputesFollowMissions ==
  ASSUME OneAtATime
  PROVE  Spec => []OpenDisputeIffDisputed
<1>1. SerialInv => OpenDisputeIffDisputed
  BY DEF SerialInv, RowAgrees, OpenDisputeIffDisputed
<1> QED
  BY <1>1, SerialInvariant, PTL

\* One request at a time and without restarts, an advertisement with one
\* mission shows at rest where the mission stands (applyStatusSideEffects and
\* the transactions of acceptance, delivery and arbitration).
THEOREM AdsFollowMissions ==
  ASSUME OneAtATime, "restart" \notin Ops
  PROVE  Spec => []AdFollowsSoleMission
<1>1. SerialInv => AdFollowsSoleMission
  <2> SUFFICES ASSUME SerialInv, NEW m \in Missions, AtRest,
                      MissionExists(m),
                      \A x \in Missions \ {m} : mission[x].status = "absent"
               PROVE  ad[mission[m].ad] =
                        CASE mission[m].status \in {"ACCEPTED", "IN_TRANSIT", "DISPUTED"}
                               -> "IN_PROGRESS"
                          [] mission[m].status = "COMPLETED" -> "COMPLETED"
                          [] OTHER -> "OPEN"
    BY DEF AdFollowsSoleMission
  <2>1. Sole(m) /\ ~Ending(m)
    BY DEF Sole, Ending, AtRest, Idle, OwingSteps
  <2>2. AdShows(m)
    BY DEF SerialInv
  <2>3. mission[m].status \in MissionStatus
    BY SerialFacts DEF TypeOK, MissionRows, MissionExists, NoRow
  <2> QED
    BY <2>1, <2>2, <2>3 DEF AdShows, Engaged, MissionStatus
<1> QED
  BY <1>1, SerialInvariant, PTL

\* One request at a time, the packages of a mission with a carrier stay
\* (MissionsController checks PENDING before addPackages and removePackage).
THEOREM PackagesFreeze ==
  ASSUME OneAtATime
  PROVE  Spec => EngagedPackagesFrozen
<1>1. SerialInv /\ [Next]_vars =>
        [\A m \in Missions : mission[m].carrier # None =>
           mission'[m].packages = mission[m].packages]_mission
  BY StepServes DEF Serves, PackagesFrozen
<1> QED
  BY <1>1, SerialInvariant, PTL DEF Spec, EngagedPackagesFrozen

\* One request at a time, the marketplace implements the contract its users
\* are told: every commit is one documented move of one deal.
THEOREM ContractIsImplemented ==
  ASSUME OneAtATime
  PROVE  Spec => ImplementsContract
<1>1. Init => Contract!Init
  <2> SUFFICES ASSUME Init PROVE Contract!Init
    OBVIOUS
  <2>1. \A m \in Missions : /\ mission[m].status = "absent"
                            /\ payment[m].status = "absent"
    BY DEF Init, StoreInit, NoMission, Mission, NoPayment
  <2>2. \A m \in Missions : Phase(m) = "none"
    BY <2>1, PhaseIs
  <2> QED
    BY <2>1, <2>2 DEF Contract!Init
<1>2. SerialInv /\ [Next]_vars =>
        [Contract!Next]_<<[m \in Missions |-> Phase(m)],
                          [m \in Missions |-> payment[m].status]>>
  BY StepServes DEF Serves, ContractStep
<1> QED
  BY <1>1, <1>2, SerialInvariant, PTL
  DEF Spec, ImplementsContract, Contract!Spec
=============================================================================
