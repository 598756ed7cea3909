--------------------------- MODULE StandingProofs ---------------------------
(***************************************************************************)
(* What stands while missions are cancelled, disputed, resolved, verified   *)
(* and deleted, for any number of users, rows and requests: conversations   *)
(* lead to missions of their own parties, a contested mission can be        *)
(* arbitrated, attempts on a code are bounded, an accepted offer is not     *)
(* taken back and, as long as the process runs, the payment of a cancelled  *)
(* mission is settled or owed.                                              *)
(***************************************************************************)
EXTENDS EngagementProofs, FiniteSetTheorems

EffectSteps == {"cancel_effects", "resolve_commit", "resolve_effects"}
OwingSteps  == {"cancel_reread", "cancel_effects", "resolve_effects"}

\* The mission of a conversation exists, and so does the advertisement of a
\* mission: the foreign keys that detach and refuse.
ConvsAttached ==
  \A c \in Convs : conv[c].mission # None => MissionExists(conv[c].mission)
AdsStand ==
  \A m \in Missions : MissionExists(m) => AdExists(mission[m].ad)

\* A payment is recorded when its mission leaves PENDING, for good.
PaidStand ==
  \A m \in Missions : payment[m].status # "absent" =>
    MissionExists(m) /\ mission[m].status # "PENDING"

\* Mission m has the advertisement and the shipper of conversation c.
Suits(m, c) == mission[m].ad = c[1] /\ mission[m].shipper = Shipper(c)

\* A mission a request has read was inserted before, and as long as it exists
\* it is the one that was read.
DossierStands(s) ==
  At(s, "dossier_write") /\ req[s].mission # None =>
    /\ ~FreshMission(req[s].mission)
    /\ MissionExists(req[s].mission) => Suits(req[s].mission, req[s].conv)
EffectsStand(s) ==
  req[s].at \in EffectSteps =>
    /\ ~FreshMission(req[s].mission)
    /\ MissionExists(req[s].mission) => req[s].ad = mission[req[s].mission].ad
FrameStands(s) == DossierStands(s) /\ EffectsStand(s)

\* The submissions that have compared a wrong code and not counted it yet.
Checking(x) ==
  {s \in Slots : At(s, "verify_count")
                   /\ req[s].mission = x[1] /\ req[s].kind = x[2]}
AttemptsCovered ==
  \A x \in Missions \X ProofKinds :
    proof[x].attempts + Cardinality(Checking(x))
      <= MAX_OTP_ATTEMPTS - 1 + Cardinality(Slots)

\* The request in slot s owes the side effects of a cancellation.
Owes(s, m) ==
  /\ req[s].mission = m
  /\ \/ At(s, "cancel_reread")
     \/ /\ At(s, "cancel_effects") \/ At(s, "resolve_effects")
        /\ req[s].status = "CANCELLED"

StandingInv ==
  /\ EngagementInv
  /\ ConvsAttached /\ AdsStand /\ PaidStand
  /\ PartiesConsistent
  /\ DisputedHasOpenDispute
  /\ \A s \in Slots : FrameStands(s)
  /\ AttemptsCovered
  /\ "restart" \in Ops \/ CancelledIsSettledOrOwed

----------------------------------------------------------------------------
(* What a step may do *)

\* Missions are inserted under an advertisement that exists, keep their
\* parties, never become PENDING again, and stay once they are paid.
RowsSteady ==
  /\ \A m \in Missions : MissionExists(m)' =>
       \/ /\ MissionExists(m)
          /\ mission'[m].ad = mission[m].ad
          /\ mission'[m].shipper = mission[m].shipper
          /\ mission'[m].status = "PENDING" => mission[m].status = "PENDING"
       \/ /\ FreshMission(m) /\ mission'[m].status = "PENDING"
          /\ AdExists(mission[m].ad)'
  /\ \A m \in Missions : FreshMission(m)' => FreshMission(m)
  /\ \A m \in Missions :
       payment[m].status # "absent" /\ MissionExists(m) => MissionExists(m)'
  /\ \A m \in Missions :
       \/ payment'[m].status = "absent" \/ payment[m].status # "absent"
       \/ mission'[m].status = "ACCEPTED"
  /\ \A a \in Ads : AdExists(a) =>
       \/ AdExists(a)'
       \/ \A m \in Missions : mission[m].ad = a => ~MissionExists(m)'

\* A conversation keeps its mission, loses it or gets one of its own parties.
ConvsSteady ==
  \A c \in Convs : conv'[c].mission # None =>
    /\ MissionExists(conv[c].mission)'
    /\ conv'[c].mission = conv[c].mission \/ Suits(conv[c].mission, c)'

FramesSteady == \A s \in Slots : req'[s] = req[s] \/ FrameStands(s)'

\* A debt is kept until it is paid.
DebtsSteady ==
  \A m \in Missions :
    mission'[m].status = "CANCELLED" /\ payment'[m].status = "PENDING" =>
      \/ \E s \in Slots : Owes(s, m)'
      \/ /\ mission[m].status = "CANCELLED" /\ payment[m].status = "PENDING"
         /\ \A s \in Slots : Owes(s, m) => Owes(s, m)'

Steady ==
  /\ RowsSteady /\ ConvsSteady /\ FramesSteady
  /\ "restart" \in Ops \/ DebtsSteady
  /\ DisputedHasOpenDispute' /\ AttemptsCovered'

\* A steady step keeps the invariant.
LEMMA SteadyKeepsInv ==
  ASSUME StandingInv, EngagementInv', Steady
  PROVE  StandingInv'
<1> USE DEF StandingInv, Steady
<1>0. TypeOK /\ TypeOK' /\ DealsArePaid
  BY DEF EngagementInv
<1>1. ConvsAttached'
  BY DEF ConvsSteady, ConvsAttached, MissionExists
<1>2. AdsStand'
  <2> SUFFICES ASSUME NEW m \in Missions, MissionExists(m)'
               PROVE  AdExists(mission[m].ad)'
    BY DEF AdsStand
  <2>1. CASE FreshMission(m)
    BY <2>1 DEF RowsSteady, FreshMission, MissionExists, NoRow
  <2>2. CASE ~FreshMission(m)
    <3>1. MissionExists(m) /\ mission'[m].ad = mission[m].ad
      BY <2>2 DEF RowsSteady
    <3>2. AdExists(mission[m].ad) /\ mission[m].ad \in Ads
      BY <1>0, <3>1
      DEF AdsStand, TypeOK, MissionRows, MissionExists, NoRow
    <3> QED
      BY <3>1, <3>2 DEF RowsSteady, AdExists
  <2> QED
    BY <2>1, <2>2
<1>3. PaidStand'
  <2> SUFFICES ASSUME NEW m \in Missions, payment'[m].status # "absent"
               PROVE  MissionExists(m)' /\ mission'[m].status # "PENDING"
    BY DEF PaidStand
  <2>1. CASE payment[m].status # "absent"
    BY <2>1 DEF PaidStand, RowsSteady, MissionExists, FreshMission, NoRow
  <2>2. CASE mission'[m].status = "ACCEPTED"
    BY <2>2 DEF MissionExists, NoRow
  <2> QED
    BY <2>1, <2>2 DEF RowsSteady
<1>4. PartiesConsistent'
  <2> SUFFICES ASSUME NEW c \in Convs, conv'[c].mission # None
               PROVE  Suits(conv[c].mission, c)'
    BY DEF PartiesConsistent, Suits
  <2>1. CASE conv'[c].mission = conv[c].mission
    <3>1. PICK m \in Missions : m = conv[c].mission
      BY <1>0, <2>1 DEF TypeOK, ConvRows
    <3>2. MissionExists(m) /\ MissionExists(m)' /\ Suits(m, c)
      BY <2>1, <3>1 DEF ConvsAttached, ConvsSteady, PartiesConsistent, Suits,
                        MissionExists
    <3> QED
      BY <2>1, <3>1, <3>2
      DEF RowsSteady, Suits, MissionExists, FreshMission, NoRow
  <2> QED
    BY <2>1 DEF ConvsSteady
<1>5. ASSUME NEW m \in Missions, ~FreshMission(m), MissionExists(m)'
      PROVE  /\ MissionExists(m) /\ mission'[m].ad = mission[m].ad
             /\ mission'[m].shipper = mission[m].shipper
  BY <1>5 DEF RowsSteady
<1>6. ASSUME NEW s \in Slots PROVE FrameStands(s)'
  <2>1. CASE req'[s] = req[s]
    <3>1. DossierStands(s)'
      BY <1>0, <1>5, <2>1
      DEF FrameStands, DossierStands, RowsSteady, At, Suits, MissionExists,
          FreshMission, TypeOK, Frames, FrameRecords
    <3>2. EffectsStand(s)'
      <4> SUFFICES ASSUME req[s].at \in EffectSteps PROVE EffectsStand(s)'
        BY <2>1 DEF EffectsStand
      <4>1. req[s].mission \in Missions
        BY <1>0
        DEF TypeOK, Frames, FrameRecords, EffectSteps, MissionSteps, CancelSteps
      <4> QED
        BY <1>5, <2>1, <4>1
        DEF FrameStands, EffectsStand, RowsSteady, MissionExists, FreshMission
    <3> QED
      BY <3>1, <3>2 DEF FrameStands
  <2> QED
    BY <2>1 DEF FramesSteady
<1>7. "restart" \in Ops \/ CancelledIsSettledOrOwed'
  <2> SUFFICES ASSUME "restart" \notin Ops, NEW m \in Missions,
                      mission'[m].status = "CANCELLED",
                      payment'[m].status = "PENDING"
               PROVE  \E s \in Slots : Owes(s, m)'
    BY DEF CancelledIsSettledOrOwed, OwesSettlement, Owes, At
  <2> QED
    BY DEF DebtsSteady, CancelledIsSettledOrOwed, OwesSettlement, Owes
<1> QED
  BY <1>1, <1>2, <1>3, <1>4, <1>6, <1>7

----------------------------------------------------------------------------
(* What leaves a part of the state alone is steady about it *)

\* Missions and advertisements stay; a payment may be settled.
LEMMA SameRows ==
  ASSUME UNCHANGED <<ad, mission>>,
         \A m \in Missions :
           payment'[m].status = "absent" <=> payment[m].status = "absent"
  PROVE  RowsSteady
BY DEF RowsSteady, MissionExists, FreshMission, AdExists

\* Conversations may lose their mission while missions stay.
LEMMA SameConvs ==
  ASSUME StandingInv, mission' = mission,
         \A c \in Convs : conv'[c].mission \in {conv[c].mission, None}
  PROVE  ConvsSteady
BY DEF ConvsSteady, StandingInv, ConvsAttached, MissionExists

\* Who counts attempts is a finite set.
LEMMA CheckingFinite ==
  ASSUME NEW x
  PROVE  /\ IsFiniteSet(Checking(x)) /\ Cardinality(Checking(x)) \in Nat
         /\ Cardinality(Checking(x)) <= Cardinality(Slots)
         /\ Cardinality(Slots) \in Nat
<1>1. Checking(x) \subseteq Slots
  BY DEF Checking
<1> QED
  BY <1>1, FS_Subset, FS_CardinalityType, BoundsAssumption

\* Attempts are forgotten or kept, and no code is wrong anew.
LEMMA FewerAttempts ==
  ASSUME StandingInv,
         \A x \in Missions \X ProofKinds :
           /\ proof'[x].attempts \in Nat
           /\ proof'[x].attempts <= proof[x].attempts,
         \A s \in Slots : req'[s] = req[s] \/ req'[s].at # "verify_count"
  PROVE  AttemptsCovered'
<1> SUFFICES ASSUME NEW x \in Missions \X ProofKinds
             PROVE  proof'[x].attempts + Cardinality(Checking(x)')
                      <= MAX_OTP_ATTEMPTS - 1 + Cardinality(Slots)
  BY DEF AttemptsCovered
<1>1. Checking(x)' \subseteq Checking(x)
  BY DEF Checking, At
<1>2. /\ Cardinality(Checking(x)') <= Cardinality(Checking(x))
      /\ Cardinality(Checking(x)') \in Nat /\ Cardinality(Checking(x)) \in Nat
  BY <1>1, CheckingFinite, FS_Subset, FS_CardinalityType
<1>3. /\ proof[x].attempts \in Nat
      /\ proof[x].attempts + Cardinality(Checking(x))
            <= MAX_OTP_ATTEMPTS - 1 + Cardinality(Slots)
  BY DEF StandingInv, EngagementInv, TypeOK, ProofRows, AttemptsCovered
<1> QED
  BY <1>2, <1>3, CheckingFinite, BoundsAssumption

\* No code is wrong anew.
LEMMA SameAttempts ==
  ASSUME StandingInv, proof' = proof,
         \A s \in Slots : req'[s] = req[s] \/ req'[s].at # "verify_count"
  PROVE  AttemptsCovered'
<1>1. \A x \in Missions \X ProofKinds :
        proof'[x].attempts \in Nat /\ proof'[x].attempts <= proof[x].attempts
  BY DEF StandingInv, EngagementInv, TypeOK, ProofRows
<1> QED
  BY <1>1, FewerAttempts

\* No mission is cancelled, no payment appears and nobody drops a debt.
LEMMA SameDebts ==
  ASSUME \A m \in Missions :
           /\ mission'[m].status = "CANCELLED" => mission[m].status = "CANCELLED"
           /\ payment'[m].status = "PENDING" => payment[m].status = "PENDING",
         \A s \in Slots : req'[s] = req[s] \/ req[s].at \notin OwingSteps
  PROVE  DebtsSteady
BY DEF DebtsSteady, Owes, OwingSteps, At

\* The labels whose frames the invariant speaks of.
WatchedSteps == EffectSteps \union {"dossier_write", "verify_count"}

\* A frame at another label promises nothing.
LEMMA OtherFrames ==
  ASSUME \A s \in Slots : req'[s] = req[s] \/ req'[s].at \notin WatchedSteps
  PROVE  /\ FramesSteady
         /\ \A s \in Slots : req'[s] = req[s] \/ req'[s].at # "verify_count"
BY DEF FramesSteady, FrameStands, DossierStands, EffectsStand, WatchedSteps, At

\* A step of one slot that writes none of these tables.
LEMMA SideStep ==
  ASSUME StandingInv, UNCHANGED <<ad, mission, payment, dispute, proof>>,
         \A c \in Convs : conv'[c].mission \in {conv[c].mission, None},
         \A s \in Slots : req'[s] = req[s]
           \/ (req[s].at \notin OwingSteps /\ req'[s].at \notin WatchedSteps)
  PROVE  Steady
<1>1. RowsSteady /\ ConvsSteady
  BY SameRows, SameConvs
<1>2. FramesSteady /\ AttemptsCovered'
  BY OtherFrames, SameAttempts
<1>3. DebtsSteady
  BY SameDebts
<1>4. DisputedHasOpenDispute'
  BY DEF StandingInv, DisputedHasOpenDispute
<1> QED
  BY <1>1, <1>2, <1>3, <1>4 DEF Steady

\* The empty frame is at no label the invariant speaks of.
LEMMA IdleStands ==
  Idle.at = "idle" /\ Idle.at \notin WatchedSteps /\ Idle.at \notin OwingSteps
BY DEF Idle, WatchedSteps, EffectSteps, OwingSteps

\* A step of slot s from an ordinary label to another.
LEMMA OneSlot ==
  ASSUME TypeOK, NEW s \in Slots, NEW f, req' = [req EXCEPT ![s] = f],
         req[s].at \notin OwingSteps, f.at \notin WatchedSteps
  PROVE  \A v \in Slots : req'[v] = req[v]
           \/ (req[v].at \notin OwingSteps /\ req'[v].at \notin WatchedSteps)
<1>1. req'[s] = f /\ \A v \in Slots \ {s} : req'[v] = req[v]
  BY DEF TypeOK
<1>2. req'[s].at \notin WatchedSteps
  BY <1>1
<1> QED
  BY <1>1, <1>2

\* A request that begins with an ordinary frame, or is answered.
LEMMA BeginSteady ==
  ASSUME StandingInv, NEW s \in Slots, NEW f, Begin(s, f), UNCHANGED db,
         f.at \notin WatchedSteps
  PROVE  Steady
<1>1. \A v \in Slots : req'[v] = req[v]
        \/ (req[v].at \notin OwingSteps /\ req'[v].at \notin WatchedSteps)
  BY IdleStands, OneSlot DEF Begin, StandingInv, EngagementInv
<1>2. /\ UNCHANGED <<ad, mission, payment, dispute, proof>>
      /\ \A c \in Convs : conv'[c].mission \in {conv[c].mission, None}
  BY DEF db
<1> QED
  BY <1>1, <1>2, SideStep

\* An answer that writes nothing, to a request that owes nothing.
LEMMA RefuseSteady ==
  ASSUME StandingInv, NEW s \in Slots, Refuse(s), req[s].at \notin OwingSteps
  PROVE  Steady
<1>1. \A v \in Slots : req'[v] = req[v]
        \/ (req[v].at \notin OwingSteps /\ req'[v].at \notin WatchedSteps)
  BY IdleStands, OneSlot DEF Refuse, Reply, StandingInv, EngagementInv
<1>2. /\ UNCHANGED <<ad, mission, payment, dispute, proof>>
      /\ \A c \in Convs : conv'[c].mission \in {conv[c].mission, None}
  BY DEF Refuse, db
<1> QED
  BY <1>1, <1>2, SideStep

\* The same, for a request that goes on or is answered without any table.
LEMMA GotoSteady ==
  ASSUME StandingInv, NEW s \in Slots, NEW step,
         step \notin WatchedSteps, req[s].at \notin OwingSteps,
         Reply(s) \/ Goto(s, step),
         UNCHANGED <<ad, mission, payment, dispute, proof>>,
         \A c \in Convs : conv'[c].mission \in {conv[c].mission, None}
  PROVE  Steady
<1>0. TypeOK
  BY DEF StandingInv, EngagementInv
<1>1. \A v \in Slots : req'[v] = req[v]
        \/ (req[v].at \notin OwingSteps /\ req'[v].at \notin WatchedSteps)
  <2>1. CASE Reply(s)
    BY <1>0, <2>1, IdleStands, OneSlot DEF Reply
  <2>2. CASE Goto(s, step)
    <3> DEFINE f == [req[s] EXCEPT !.at = step]
    <3>1. req' = [req EXCEPT ![s] = f] /\ f.at = step
      BY <1>0, <2>2 DEF Goto, TypeOK, Frames, FrameRecords
    <3> HIDE DEF f
    <3> QED
      BY <1>0, <3>1, OneSlot
  <2> QED
    BY <2>1, <2>2
<1> QED
  BY <1>1, SideStep

----------------------------------------------------------------------------
(* Requests that arrive *)

\* Ordinary requests: their first frame promises nothing yet.
LEMMA OrdinaryArrivals ==
  ASSUME StandingInv, NEW s \in Slots, Arrive(s),
         \A c \in Convs : ~OpenConversation(s, c),
         \A m \in Missions, outcome \in {"COMPLETED", "CANCELLED"} :
           ~ResolveDispute(s, m, outcome)
  PROVE  Steady
<1> USE BeginSteady DEF WatchedSteps, EffectSteps, Idle
<1>1. CASE \E c \in Convs, u \in Users : RemoveConversation(s, c, u)
  BY <1>1 DEF RemoveConversation
<1>2. CASE \E c \in Convs, u \in Users, p \in Prices : SendOffer(s, c, u, p)
  BY <1>2 DEF SendOffer
<1>3. CASE \E o \in Offers, p \in Prices : EditOffer(s, o, p)
  BY <1>3 DEF EditOffer
<1>4. CASE \E o \in Offers, u \in Users : AcceptOffer(s, o, u)
  BY <1>4 DEF AcceptOffer
<1>5. CASE \E o \in Offers, u \in Users : RejectOffer(s, o, u)
  BY <1>5 DEF RejectOffer
<1>6. CASE \E a \in Ads, u \in Users : CreateMission(s, a, u)
  BY <1>6 DEF CreateMission
<1>7. CASE \E m \in Missions, p \in Packages,
           step \in {"package_add", "package_remove"} : ChangePackages(s, m, p, step)
  BY <1>7 DEF ChangePackages
<1>8. CASE \E m \in Missions : DeleteMission(s, m)
  BY <1>8 DEF DeleteMission
<1>9. CASE \E m \in Missions : CancelMission(s, m)
  BY <1>9 DEF CancelMission
<1>10. CASE \E m \in Missions, k \in ProofKinds : GenerateCode(s, m, k)
  BY <1>10 DEF GenerateCode
<1>11. CASE \E m \in Missions, k \in ProofKinds : SubmitCode(s, m, k)
  BY <1>11 DEF SubmitCode
<1>12. CASE \E m \in Missions : OpenDispute(s, m)
  BY <1>12 DEF OpenDispute
<1> QED
  BY <1>1, <1>2, <1>3, <1>4, <1>5, <1>6, <1>7, <1>8, <1>9, <1>10, <1>11, <1>12
  DEF Arrive

\* A frame that the invariant speaks of begins well.
LEMMA BeginWatched ==
  ASSUME StandingInv, NEW s \in Slots, NEW f, Begin(s, f), UNCHANGED db,
         f.at # "verify_count", FrameStands(s)'
  PROVE  Steady
<1>1. UNCHANGED <<ad, mission, payment, dispute, proof, conv>>
  BY DEF db
<1>2. /\ req'[s] = f /\ \A v \in Slots \ {s} : req'[v] = req[v]
      /\ req[s].at \notin OwingSteps
  BY IdleStands DEF Begin, StandingInv, EngagementInv, TypeOK
<1>3. RowsSteady /\ ConvsSteady
  BY <1>1, SameRows, SameConvs
<1>4. FramesSteady /\ AttemptsCovered'
  BY <1>1, <1>2, SameAttempts DEF FramesSteady
<1>5. DebtsSteady
  BY <1>1, <1>2, SameDebts
<1>6. DisputedHasOpenDispute'
  BY <1>1 DEF StandingInv, DisputedHasOpenDispute
<1> QED
  BY <1>3, <1>4, <1>5, <1>6 DEF Steady

\* The dossier that is found suits the conversation that is opened.
LEMMA OpenConversationSteady ==
  ASSUME StandingInv, NEW s \in Slots, NEW c \in Convs, OpenConversation(s, c)
  PROVE  Steady
<1> DEFINE dossiers == IF AdType[c[1]] = "SHIPPING"
                       THEN {m \in Missions : IsDossier(m, c[1])} ELSE {}
<1>1. PICK m \in IF dossiers = {} THEN {None} ELSE dossiers :
        Begin(s, [Idle EXCEPT !.at = "dossier_write", !.conv = c,
                              !.mission = m])
  BY DEF OpenConversation
<1> DEFINE f == [Idle EXCEPT !.at = "dossier_write", !.conv = c, !.mission = m]
<1>2. f.at = "dossier_write" /\ f.conv = c /\ f.mission = m
  BY DEF Idle
<1>3. m # None => IsDossier(m, c[1]) /\ AdType[c[1]] = "SHIPPING"
  OBVIOUS
<1>4. UNCHANGED db
  BY DEF OpenConversation
<1> HIDE DEF f, dossiers
<1>5. req'[s] = f
  BY <1>1 DEF Begin, f, StandingInv, EngagementInv, TypeOK
<1>6. FrameStands(s)'
  BY <1>2, <1>3, <1>4, <1>5
  DEF FrameStands, DossierStands, EffectsStand, EffectSteps, At, Suits,
      Shipper, IsDossier, FreshMission, db
<1> QED
  BY <1>1, <1>2, <1>4, <1>6, BeginWatched DEF f

\* An open dispute has a mission, whose advertisement the resolution takes.
LEMMA ResolveDisputeSteady ==
  ASSUME StandingInv, NEW s \in Slots, NEW m \in Missions,
         NEW outcome \in {"COMPLETED", "CANCELLED"},
         ResolveDispute(s, m, outcome)
  PROVE  Steady
<1> DEFINE f == [Idle EXCEPT !.at = "resolve_commit", !.mission = m,
                             !.ad = mission[m].ad, !.status = outcome]
<1>1. Begin(s, f) /\ UNCHANGED db /\ dispute[m] = "OPEN"
  BY DEF ResolveDispute
<1>2. f.at = "resolve_commit" /\ f.mission = m /\ f.ad = mission[m].ad
  BY DEF Idle
<1> HIDE DEF f
<1>3. req'[s] = f
  BY <1>1 DEF Begin, StandingInv, EngagementInv, TypeOK
<1>4. mission[m].status # "absent"
  BY <1>1
  DEF StandingInv, EngagementInv, DisputesAttached, MissionExists, NoRow
<1>5. FrameStands(s)'
  BY <1>1, <1>2, <1>3, <1>4
  DEF FrameStands, DossierStands, EffectsStand, At, FreshMission, db
<1> QED
  BY <1>1, <1>2, <1>5, BeginWatched

\* Every request that arrives.
LEMMA ArriveSteady ==
  ASSUME StandingInv, NEW s \in Slots, Arrive(s)
  PROVE  Steady
BY OrdinaryArrivals, OpenConversationSteady, ResolveDisputeSteady
----------------------------------------------------------------------------
(* Statements that write none of these tables *)

\* Conversations are hidden, woken up, archived or erased.
LEMMA ConversationsSteady ==
  ASSUME StandingInv, NEW s \in Slots,
         \/ HideConversation(s) \/ EraseConversation(s)
         \/ WakeConversation(s) \/ ReviveConversation(s)
  PROVE  Steady
<1> USE DEF WatchedSteps, EffectSteps, OwingSteps, At
<1>1. TypeOK
  BY DEF StandingInv, EngagementInv
<1>2. CASE Refuse(s)
  BY <1>2, RefuseSteady
     DEF HideConversation, EraseConversation, WakeConversation,
         ReviveConversation
<1>3. CASE HideConversation(s) /\ ~Refuse(s)
  <2> DEFINE d == req[s].conv
             h == [conv[d] EXCEPT !.hidden = @ \union {req[s].who}]
             g == [h EXCEPT !.status = "DELETED"]
  <2>2. d \in Convs
    BY <1>1, <1>3
    DEF HideConversation, TypeOK, Frames, FrameRecords, ConvSteps
  <2>3. h.mission = conv[d].mission /\ g.mission = conv[d].mission
    BY <1>1, <2>2 DEF TypeOK, ConvRows
  <2>4. \/ conv' = [conv EXCEPT ![d] = g]
        \/ conv' = [conv EXCEPT ![d] = h]
    BY <1>3 DEF HideConversation
  <2> HIDE DEF d, g, h
  <2>1. \A c \in Convs : conv'[c].mission = conv[c].mission
    BY <1>1, <2>2, <2>3, <2>4 DEF TypeOK
  <2> QED
    BY <1>3, <2>1, GotoSteady DEF HideConversation
<1>4. CASE EraseConversation(s) /\ ~Refuse(s)
  <2>1. \A c \in Convs : conv'[c].mission \in {conv[c].mission, None}
    BY <1>1, <1>4 DEF EraseConversation, TypeOK, NoConv
  <2> QED
    BY <1>4, <2>1, GotoSteady DEF EraseConversation
<1>5. CASE WakeConversation(s) /\ ~Refuse(s)
  <2>1. \A c \in Convs : conv'[c].mission = conv[c].mission
    BY <1>1, <1>5 DEF WakeConversation, TypeOK, ConvRows
  <2> QED
    BY <1>5, <2>1, GotoSteady DEF WakeConversation
<1>6. CASE ReviveConversation(s)
  <2>1. \A c \in Convs : conv'[c].mission = conv[c].mission
    BY <1>1, <1>6 DEF ReviveConversation, TypeOK, ConvRows
  <2> QED
    BY <1>6, <2>1, GotoSteady DEF ReviveConversation
<1> QED
  BY <1>2, <1>3, <1>4, <1>5, <1>6

\* Offers are inserted, edited and rejected; acceptances read.
LEMMA OffersSteady ==
  ASSUME StandingInv, NEW s \in Slots,
         \/ InsertOffer(s) \/ WriteOfferEdit(s) \/ WriteRejection(s)
         \/ CheckCarrierKyc(s) \/ ReadMissionToAccept(s)
  PROVE  Steady
<1> USE DEF WatchedSteps, EffectSteps, OwingSteps, At
<1>1. CASE Refuse(s)
  BY <1>1, RefuseSteady
     DEF InsertOffer, WriteOfferEdit, WriteRejection, CheckCarrierKyc,
         ReadMissionToAccept
<1>2. CASE InsertOffer(s) /\ ~Refuse(s)
  BY <1>2, GotoSteady DEF InsertOffer
<1>3. CASE WriteOfferEdit(s) /\ ~Refuse(s)
  BY <1>3, GotoSteady DEF WriteOfferEdit
<1>4. CASE WriteRejection(s) /\ ~Refuse(s)
  BY <1>4, GotoSteady DEF WriteRejection
<1>5. CASE CheckCarrierKyc(s)
  BY <1>5, GotoSteady DEF CheckCarrierKyc, db
<1>6. CASE ReadMissionToAccept(s)
  BY <1>6, GotoSteady DEF ReadMissionToAccept, db
<1> QED
  BY <1>1, <1>2, <1>3, <1>4, <1>5, <1>6

----------------------------------------------------------------------------
(* Statements that write missions *)

\* Operands of the statements that write one mission.
LEMMA MissionOperand ==
  ASSUME TypeOK, NEW s \in Slots, req[s].at \in MissionSteps
  PROVE  req[s].mission \in Missions
BY DEF TypeOK, Frames, FrameRecords

\* A row that exists is written: its parties stay.
LEMMA RowSteady ==
  ASSUME StandingInv, NEW m \in Missions, NEW r,
         mission' = [mission EXCEPT ![m] = r], MissionExists(m),
         r.ad = mission[m].ad, r.shipper = mission[m].shipper,
         r.status \in MissionStatus,
         r.status = "PENDING" => mission[m].status = "PENDING",
         \A a \in Ads : AdExists(a) => AdExists(a)',
         \A x \in Missions :
           payment'[x].status = "absent" <=> payment[x].status = "absent",
         \A c \in Convs : conv'[c].mission \in {conv[c].mission, None}
  PROVE  RowsSteady /\ ConvsSteady
<1>1. mission'[m] = r /\ \A x \in Missions \ {m} : mission'[x] = mission[x]
  BY DEF StandingInv, EngagementInv, TypeOK
<1>2. MissionExists(m)'
  BY <1>1 DEF MissionExists, MissionStatus, NoRow
<1>3. \A x \in Missions : MissionExists(x)' <=> MissionExists(x)
  BY <1>1, <1>2 DEF MissionExists
<1>4. RowsSteady
  BY <1>1, <1>3 DEF RowsSteady, FreshMission, MissionExists, NoRow
<1>5. ConvsSteady
  <2> SUFFICES ASSUME NEW c \in Convs, conv'[c].mission # None
               PROVE  /\ MissionExists(conv[c].mission)'
                      /\ conv'[c].mission = conv[c].mission
    BY DEF ConvsSteady
  <2>1. /\ conv'[c].mission = conv[c].mission
        /\ conv[c].mission \in Missions /\ MissionExists(conv[c].mission)
    BY DEF StandingInv, EngagementInv, TypeOK, ConvRows, ConvsAttached
  <2> QED
    BY <1>3, <2>1 DEF MissionExists
<1> QED
  BY <1>4, <1>5

\* A row is inserted under an advertisement that exists.
LEMMA CreationSteady ==
  ASSUME StandingInv, NEW m \in Missions, NEW a \in Ads, NEW u \in Users,
         NEW ps \in SUBSET Packages, FreshMission(m),
         mission' = [mission EXCEPT ![m] = Mission("PENDING", a, u, ps)],
         UNCHANGED payment,
         AdExists(a)', \A x \in Ads : AdExists(x) => AdExists(x)'
  PROVE  /\ RowsSteady
         /\ mission'[m].ad = a /\ mission'[m].shipper = u /\ MissionExists(m)'
         /\ mission'[m].status = "PENDING"
         /\ \A x \in Missions \ {m} : mission'[x] = mission[x]
<1> DEFINE r == Mission("PENDING", a, u, ps)
<1>1. r.ad = a /\ r.shipper = u /\ r.status = "PENDING"
  BY DEF Mission
<1> HIDE DEF r
<1>2. mission'[m] = r /\ \A x \in Missions \ {m} : mission'[x] = mission[x]
  BY DEF StandingInv, EngagementInv, TypeOK, r
<1>3. MissionExists(m)' /\ ~FreshMission(m)' /\ ~MissionExists(m)
  BY <1>1, <1>2 DEF MissionExists, FreshMission, NoRow
<1>4. \A x \in Missions \ {m} : MissionExists(x)' <=> MissionExists(x)
  BY <1>2 DEF MissionExists
<1>5. RowsSteady
  <2>1. \A x \in Missions : MissionExists(x)' =>
       \/ /\ MissionExists(x)
          /\ mission'[x].ad = mission[x].ad
          /\ mission'[x].shipper = mission[x].shipper
          /\ mission'[x].status = "PENDING" => mission[x].status = "PENDING"
       \/ /\ FreshMission(x) /\ mission'[x].status = "PENDING"
          /\ AdExists(mission[x].ad)'
    <3> SUFFICES ASSUME NEW x \in Missions, x = m
                 PROVE  /\ FreshMission(x) /\ mission'[x].status = "PENDING"
                        /\ AdExists(mission[x].ad)'
      BY <1>2, <1>4
    <3> QED
      BY <1>1, <1>2 DEF AdExists
  <2> QED
    BY <1>2, <1>3, <1>4, <2>1 DEF RowsSteady, FreshMission
<1> QED
  BY <1>1, <1>2, <1>3, <1>5

\* After an insertion the conversations of other missions are untouched.
LEMMA ConvsBesideCreation ==
  ASSUME StandingInv, NEW m \in Missions, FreshMission(m), MissionExists(m)',
         \A x \in Missions \ {m} : mission'[x] = mission[x],
         NEW c \in Convs, conv'[c].mission = conv[c].mission,
         conv'[c].mission # None
  PROVE  MissionExists(conv[c].mission)'
<1>1. conv[c].mission \in Missions /\ MissionExists(conv[c].mission)
  BY DEF StandingInv, EngagementInv, TypeOK, ConvRows, ConvsAttached
<1> QED
  BY <1>1 DEF MissionExists

\* Insertions, beside the frames: no debt, no dispute.
LEMMA CreationKeeps ==
  ASSUME StandingInv, NEW m \in Missions, mission'[m].status = "PENDING",
         \A x \in Missions \ {m} : mission'[x] = mission[x],
         UNCHANGED <<payment, dispute, proof>>,
         \A s \in Slots : req'[s] = req[s]
           \/ (req[s].at \notin OwingSteps /\ req'[s].at \notin WatchedSteps)
  PROVE  /\ FramesSteady /\ DebtsSteady
         /\ DisputedHasOpenDispute' /\ AttemptsCovered'
<1>1. FramesSteady /\ AttemptsCovered'
  BY OtherFrames, SameAttempts
<1>2. \A x \in Missions :
        mission'[x].status = mission[x].status
        \/ mission'[x].status = "PENDING"
  OBVIOUS
<1>3. DebtsSteady
  BY <1>2, SameDebts
<1>4. DisputedHasOpenDispute'
  BY <1>2 DEF StandingInv, DisputedHasOpenDispute
<1> QED
  BY <1>1, <1>3, <1>4

\* An advertisement is published with its dossier.
LEMMA PublishAdSteady ==
  ASSUME StandingInv, NEW a \in Ads, PublishAd(a)
  PROVE  Steady
<1>1. /\ UNCHANGED <<conv, payment, dispute, proof, req>>
      /\ AdExists(a)' /\ \A x \in Ads : AdExists(x) => AdExists(x)'
  BY DEF PublishAd, AdExists, NoRow, StandingInv, EngagementInv, TypeOK
<1>2. CASE UNCHANGED mission
  <2>1. RowsSteady
    BY <1>1, <1>2 DEF RowsSteady, MissionExists, FreshMission
  <2>2. ConvsSteady /\ FramesSteady /\ DebtsSteady /\ AttemptsCovered'
    BY <1>1, <1>2, SameConvs, SameDebts, SameAttempts DEF FramesSteady
  <2>3. DisputedHasOpenDispute'
    BY <1>1, <1>2 DEF StandingInv, DisputedHasOpenDispute
  <2> QED
    BY <2>1, <2>2, <2>3 DEF Steady
<1>3. CASE ~UNCHANGED mission
  <2>1. PICK m \in Missions, ps \in SUBSET Owned(AdAuthor[a]) :
          /\ FreshMission(m)
          /\ mission' = [mission EXCEPT ![m] =
                           Mission("PENDING", a, AdAuthor[a], ps)]
    BY <1>3 DEF PublishAd
  <2>2. AdAuthor[a] \in Users /\ ps \in SUBSET Packages
    BY IdsAssumption DEF Owned
  <2>3. /\ RowsSteady /\ MissionExists(m)' /\ mission'[m].status = "PENDING"
        /\ \A x \in Missions \ {m} : mission'[x] = mission[x]
    BY <1>1, <2>1, <2>2, CreationSteady
  <2>4. ConvsSteady
    BY <1>1, <2>1, <2>3, ConvsBesideCreation DEF ConvsSteady
  <2>5. /\ FramesSteady /\ DebtsSteady
        /\ DisputedHasOpenDispute' /\ AttemptsCovered'
    BY <1>1, <2>3, CreationKeeps
  <2> QED
    BY <2>3, <2>4, <2>5 DEF Steady
<1> QED
  BY <1>2, <1>3

\* A mission is created by a user.
LEMMA InsertMissionSteady ==
  ASSUME StandingInv, NEW s \in Slots, InsertMission(s)
  PROVE  Steady
<1>1. req[s].at = "mission_insert" /\ TypeOK
  BY DEF InsertMission, At, StandingInv, EngagementInv
<1>2. CASE Refuse(s)
  BY <1>1, <1>2, RefuseSteady DEF OwingSteps
<1>3. CASE ~Refuse(s)
  <2>1. PICK a \in Ads, u \in Users : a = req[s].ad /\ u = req[s].who
    BY <1>1 DEF TypeOK, Frames, FrameRecords, UserSteps
  <2>2. PICK m \in Missions, ps \in SUBSET Owned(u) :
          /\ FreshMission(m)
          /\ mission' = [mission EXCEPT ![m] = Mission("PENDING", a, u, ps)]
    BY <1>3, <2>1 DEF InsertMission
  <2>3. ps \in SUBSET Packages
    BY DEF Owned
  <2>4. /\ UNCHANGED <<ad, conv, payment, dispute, proof>> /\ Reply(s)
        /\ AdExists(a)
    BY <1>3, <2>1 DEF InsertMission
  <2>5. AdExists(a)' /\ \A x \in Ads : AdExists(x) => AdExists(x)'
    BY <2>4 DEF AdExists
  <2>6. /\ RowsSteady /\ MissionExists(m)' /\ mission'[m].status = "PENDING"
        /\ \A x \in Missions \ {m} : mission'[x] = mission[x]
    BY <2>2, <2>3, <2>4, <2>5, CreationSteady
  <2>7. ConvsSteady
    BY <2>2, <2>4, <2>6, ConvsBesideCreation DEF ConvsSteady
  <2>8. \A v \in Slots : req'[v] = req[v]
          \/ (req[v].at \notin OwingSteps /\ req'[v].at \notin WatchedSteps)
    BY <1>1, <2>4, IdleStands, OneSlot DEF Reply, OwingSteps
  <2>9. /\ FramesSteady /\ DebtsSteady
        /\ DisputedHasOpenDispute' /\ AttemptsCovered'
    BY <2>4, <2>6, <2>8, CreationKeeps
  <2> QED
    BY <2>6, <2>7, <2>9 DEF Steady
<1> QED
  BY <1>2, <1>3

\* A conversation is attached to the dossier that was found, if it is still
\* there, or to a new mission of its own parties.
LEMMA WriteConversationSteady ==
  ASSUME StandingInv, NEW s \in Slots, WriteConversation(s)
  PROVE  Steady
<1>1. /\ req[s].at = "dossier_write" /\ TypeOK /\ Reply(s)
      /\ UNCHANGED <<ad, payment, dispute, proof>>
  BY DEF WriteConversation, At, StandingInv, EngagementInv
<1>2. PICK c \in Convs : c = req[s].conv
  BY <1>1 DEF TypeOK, Frames, FrameRecords, ConvSteps
<1>3. \A v \in Slots : req'[v] = req[v]
        \/ (req[v].at \notin OwingSteps /\ req'[v].at \notin WatchedSteps)
  BY <1>1, IdleStands, OneSlot DEF Reply, OwingSteps
<1>4. CASE UNCHANGED <<mission, conv>>
  BY <1>1, <1>3, <1>4, SideStep
<1>5. ASSUME NEW m \in Missions, m = req[s].mission, MissionExists(m),
             Attach(c, m), UNCHANGED mission
      PROVE  Steady
  <2>1. RowsSteady
    BY <1>1, <1>5, SameRows
  <2>2. Suits(m, c)
    BY <1>1, <1>2, <1>5, NoneAssumption
    DEF StandingInv, FrameStands, DossierStands, At
  <2>3. conv'[c].mission = m /\ \A x \in Convs \ {c} : conv'[x] = conv[x]
    BY <1>1, <1>5 DEF Attach, TypeOK
  <2>4. ConvsSteady
    <3> SUFFICES ASSUME NEW x \in Convs, conv'[x].mission # None
                 PROVE  /\ MissionExists(conv[x].mission)'
                        /\ conv'[x].mission = conv[x].mission
                           \/ Suits(conv[x].mission, x)'
      BY DEF ConvsSteady
    <3>1. CASE x = c
      BY <1>5, <2>2, <2>3, <3>1 DEF MissionExists, Suits
    <3>2. CASE x # c
      BY <1>5, <2>3, <3>2 DEF StandingInv, ConvsAttached, MissionExists
    <3> QED
      BY <3>1, <3>2
  <2>5. FramesSteady /\ AttemptsCovered' /\ DebtsSteady
    BY <1>1, <1>3, <1>5, OtherFrames, SameAttempts, SameDebts
  <2>6. DisputedHasOpenDispute'
    BY <1>1, <1>5 DEF StandingInv, DisputedHasOpenDispute
  <2> QED
    BY <2>1, <2>4, <2>5, <2>6 DEF Steady
<1>6. ASSUME NEW m \in Missions, NEW ps \in SUBSET Owned(Shipper(c)),
             AdExists(c[1]), FreshMission(m),
             mission' = [mission EXCEPT ![m] =
                           Mission("PENDING", c[1], Shipper(c), ps)],
             Attach(c, m)
      PROVE  Steady
  <2>1. c[1] \in Ads /\ Shipper(c) \in Users /\ ps \in SUBSET Packages
    BY IdsAssumption DEF Convs, Shipper, Owned
  <2>2. AdExists(c[1])' /\ \A x \in Ads : AdExists(x) => AdExists(x)'
    BY <1>1, <1>6 DEF AdExists
  <2>3. /\ RowsSteady /\ MissionExists(m)' /\ mission'[m].status = "PENDING"
        /\ mission'[m].ad = c[1] /\ mission'[m].shipper = Shipper(c)
        /\ \A x \in Missions \ {m} : mission'[x] = mission[x]
    BY <1>1, <1>6, <2>1, <2>2, CreationSteady
  <2>4. conv'[c].mission = m /\ \A x \in Convs \ {c} : conv'[x] = conv[x]
    BY <1>1, <1>6 DEF Attach, TypeOK
  <2>5. ConvsSteady
    <3> SUFFICES ASSUME NEW x \in Convs, conv'[x].mission # None
                 PROVE  /\ MissionExists(conv[x].mission)'
                        /\ conv'[x].mission = conv[x].mission
                           \/ Suits(conv[x].mission, x)'
      BY DEF ConvsSteady
    <3>1. CASE x = c
      BY <2>3, <2>4, <3>1 DEF MissionExists, Suits
    <3>2. CASE x # c
      BY <1>6, <2>3, <2>4, <3>2, ConvsBesideCreation
    <3> QED
      BY <3>1, <3>2
  <2>6. /\ FramesSteady /\ DebtsSteady
        /\ DisputedHasOpenDispute' /\ AttemptsCovered'
    BY <1>1, <1>3, <2>3, CreationKeeps
  <2> QED
    BY <2>3, <2>5, <2>6 DEF Steady
<1>7. req[s].mission # None => req[s].mission \in Missions
  BY <1>1 DEF TypeOK, Frames, FrameRecords
<1> QED
  BY <1>2, <1>4, <1>5, <1>6, <1>7 DEF WriteConversation

\* The request in slot s is answered, the others wait.
LEMMA Answered ==
  ASSUME TypeOK, NEW s \in Slots, Reply(s)
  PROVE  /\ req'[s] = Idle /\ \A v \in Slots \ {s} : req'[v] = req[v]
         /\ \A v \in Slots : req'[v] = req[v] \/ req'[v].at \notin WatchedSteps
<1>1. req'[s] = Idle /\ \A v \in Slots \ {s} : req'[v] = req[v]
  BY DEF Reply, TypeOK
<1> QED
  BY <1>1, IdleStands

\* Packages are added or removed.
LEMMA WritePackagesSteady ==
  ASSUME StandingInv, NEW s \in Slots, WritePackages(s)
  PROVE  Steady
<1>1. /\ TypeOK /\ req[s].at \in MissionSteps
      /\ req[s].at \notin OwingSteps
  BY DEF WritePackages, At, StandingInv, EngagementInv, MissionSteps,
         PackageSteps, OwingSteps
<1>2. CASE Refuse(s)
  BY <1>1, <1>2, RefuseSteady
<1>3. CASE ~Refuse(s)
  <2>1. PICK m \in Missions : m = req[s].mission
    BY <1>1, MissionOperand
  <2>2. PICK ps \in {mission[m].packages \union {req[s].pkg},
                     mission[m].packages \ {req[s].pkg}} :
          mission' = [mission EXCEPT ![m] =
                        [mission[m] EXCEPT !.packages = ps]]
    BY <1>1, <1>3, <2>1 DEF WritePackages, TypeOK
  <2> DEFINE r == [mission[m] EXCEPT !.packages = ps]
  <2>3. /\ MissionExists(m) /\ Reply(s)
        /\ UNCHANGED <<ad, conv, payment, dispute, proof>>
    BY <1>3, <2>1 DEF WritePackages
  <2>4. /\ r.ad = mission[m].ad /\ r.shipper = mission[m].shipper
        /\ r.status = mission[m].status /\ r.status \in MissionStatus
    BY <1>1, <2>3, ExistingStatus DEF TypeOK, MissionRows
  <2> HIDE DEF r
  <2>5. \A a \in Ads : AdExists(a) => AdExists(a)'
    BY <2>3 DEF AdExists
  <2>6. RowsSteady /\ ConvsSteady
    BY <2>2, <2>3, <2>4, <2>5, RowSteady DEF r
  <2>7. \A x \in Missions : mission'[x].status = mission[x].status
    BY <1>1, <2>2, <2>4 DEF TypeOK, r
  <2>8. FramesSteady /\ AttemptsCovered'
    BY <1>1, <2>3, Answered, OtherFrames, SameAttempts
  <2>9. DebtsSteady
    BY <1>1, <2>3, <2>7, Answered, SameDebts
  <2>10. DisputedHasOpenDispute'
    BY <2>3, <2>7 DEF StandingInv, DisputedHasOpenDispute
  <2> QED
    BY <2>6, <2>8, <2>9, <2>10 DEF Steady
<1> QED
  BY <1>2, <1>3

----------------------------------------------------------------------------
(* Codes *)

\* A new code starts without attempts.
LEMMA WriteCodeSteady ==
  ASSUME StandingInv, NEW s \in Slots, WriteCode(s)
  PROVE  Steady
<1>1. TypeOK /\ req[s].at = "code_write" /\ req[s].at \notin OwingSteps
  BY DEF WriteCode, At, StandingInv, EngagementInv, OwingSteps
<1>2. CASE Refuse(s)
  BY <1>1, <1>2, RefuseSteady
<1>3. CASE ~Refuse(s)
  <2>1. PICK m \in Missions, k \in ProofKinds :
          m = req[s].mission /\ k = req[s].kind
    BY <1>1 DEF TypeOK, Frames, FrameRecords, MissionSteps, CodeSteps
  <2>2. /\ UNCHANGED <<ad, mission, conv, payment, dispute>> /\ Reply(s)
        /\ proof' = [proof EXCEPT ![<<m, k>>] =
                       [code |-> @.code + 1, used |-> FALSE, attempts |-> 0]]
    BY <1>3, <2>1 DEF WriteCode
  <2>3. \A x \in Missions \X ProofKinds :
          proof'[x].attempts \in Nat /\ proof'[x].attempts <= proof[x].attempts
    BY <1>1, <2>1, <2>2 DEF TypeOK, ProofRows
  <2>4. FramesSteady /\ AttemptsCovered'
    BY <1>1, <2>2, <2>3, Answered, OtherFrames, FewerAttempts
  <2>5. RowsSteady /\ ConvsSteady /\ DebtsSteady
    BY <1>1, <2>2, Answered, SameRows, SameConvs, SameDebts
  <2>6. DisputedHasOpenDispute'
    BY <2>2 DEF StandingInv, DisputedHasOpenDispute
  <2> QED
    BY <2>4, <2>5, <2>6 DEF Steady
<1> QED
  BY <1>2, <1>3

\* A submission that is let through finds fewer attempts than the maximum.
LEMMA LoadProofSteady ==
  ASSUME StandingInv, NEW s \in Slots, LoadProof(s)
  PROVE  Steady
<1>1. TypeOK /\ req[s].at = "verify_load" /\ req[s].at \notin OwingSteps
      /\ UNCHANGED <<ad, mission, conv, payment, dispute, proof>>
  BY DEF LoadProof, At, StandingInv, EngagementInv, OwingSteps, db
<1>2. PICK m \in Missions, k \in ProofKinds :
        m = req[s].mission /\ k = req[s].kind
  BY <1>1 DEF TypeOK, Frames, FrameRecords, MissionSteps, CodeSteps
<1>3. CASE Reply(s)
  BY <1>1, <1>3, Answered, SideStep
<1>4. CASE ~Reply(s)
  <2> DEFINE pr == proof[<<m, k>>]
  <2>1. PICK step \in {"verify_count", "verify_commit"} :
          req' = [req EXCEPT ![s].at = step, ![s].code = pr.code]
    BY <1>2, <1>4 DEF LoadProof
  <2>2. Verifiable(pr)
    BY <1>2, <1>4 DEF LoadProof
  <2>3. /\ req'[s].at = step /\ req'[s].mission = m /\ req'[s].kind = k
        /\ \A v \in Slots \ {s} : req'[v] = req[v]
    BY <1>1, <1>2, <2>1 DEF TypeOK, Frames, FrameRecords
  <2>4. FramesSteady
    BY <2>3 DEF FramesSteady, FrameStands, DossierStands, EffectsStand, At,
                EffectSteps
  <2>5. AttemptsCovered'
    <3> SUFFICES ASSUME NEW x \in Missions \X ProofKinds
                 PROVE  proof[x].attempts + Cardinality(Checking(x)')
                          <= MAX_OTP_ATTEMPTS - 1 + Cardinality(Slots)
      BY <1>1 DEF AttemptsCovered
    <3>1. CASE x = <<m, k>>
      <4>1. /\ proof[x].attempts \in Nat
            /\ proof[x].attempts < MAX_OTP_ATTEMPTS
        BY <1>1, <2>2, <3>1 DEF TypeOK, ProofRows, Verifiable
      <4>2. Checking(x)' \subseteq Slots
        BY DEF Checking
      <4>3. /\ Cardinality(Checking(x)') \in Nat /\ Cardinality(Slots) \in Nat
            /\ Cardinality(Checking(x)') <= Cardinality(Slots)
        BY <4>2, FS_Subset, FS_CardinalityType, BoundsAssumption
      <4> QED
        BY <4>1, <4>3, BoundsAssumption
    <3>2. CASE x # <<m, k>>
      <4>1. Checking(x)' \subseteq Checking(x)
        BY <2>3, <3>2 DEF Checking, At
      <4>2. /\ Cardinality(Checking(x)') <= Cardinality(Checking(x))
            /\ Cardinality(Checking(x)') \in Nat
            /\ Cardinality(Checking(x)) \in Nat
        BY <4>1, CheckingFinite, FS_Subset, FS_CardinalityType
      <4>3. /\ proof[x].attempts \in Nat
            /\ proof[x].attempts + Cardinality(Checking(x))
                 <= MAX_OTP_ATTEMPTS - 1 + Cardinality(Slots)
        BY <1>1 DEF StandingInv, TypeOK, ProofRows, AttemptsCovered
      <4> QED
        BY <4>2, <4>3, CheckingFinite, BoundsAssumption
    <3> QED
      BY <3>1, <3>2
  <2>6. RowsSteady /\ ConvsSteady
    BY <1>1, SameRows, SameConvs
  <2>7. DebtsSteady
    BY <1>1, <2>3, SameDebts
  <2>8. DisputedHasOpenDispute'
    BY <1>1 DEF StandingInv, DisputedHasOpenDispute
  <2> QED
    BY <2>4, <2>5, <2>6, <2>7, <2>8 DEF Steady
<1> QED
  BY <1>3, <1>4

\* A wrong code that is counted is no longer being checked.
LEMMA CountAttemptSteady ==
  ASSUME StandingInv, NEW s \in Slots, CountAttempt(s)
  PROVE  Steady
<1>1. TypeOK /\ req[s].at = "verify_count" /\ req[s].at \notin OwingSteps
  BY DEF CountAttempt, At, StandingInv, EngagementInv, OwingSteps
<1>2. CASE Refuse(s)
  BY <1>1, <1>2, RefuseSteady
<1>3. CASE ~Refuse(s)
  <2>1. PICK m \in Missions, k \in ProofKinds :
          m = req[s].mission /\ k = req[s].kind
    BY <1>1 DEF TypeOK, Frames, FrameRecords, MissionSteps, CodeSteps
  <2>2. /\ UNCHANGED <<ad, mission, conv, payment, dispute>> /\ Reply(s)
        /\ proof' = [proof EXCEPT ![<<m, k>>].attempts = @ + 1]
    BY <1>3, <2>1 DEF CountAttempt
  <2>3. /\ req'[s] = Idle /\ \A v \in Slots \ {s} : req'[v] = req[v]
        /\ \A v \in Slots : req'[v] = req[v] \/ req'[v].at \notin WatchedSteps
    BY <1>1, <2>2, Answered
  <2>4. AttemptsCovered'
    <3> SUFFICES ASSUME NEW x \in Missions \X ProofKinds
                 PROVE  proof'[x].attempts + Cardinality(Checking(x)')
                          <= MAX_OTP_ATTEMPTS - 1 + Cardinality(Slots)
      BY DEF AttemptsCovered
    <3>1. Checking(x)' = Checking(x) \ {s}
      BY <2>3 DEF Checking, At, Idle
    <3>2. /\ proof[x].attempts \in Nat
          /\ proof[x].attempts + Cardinality(Checking(x))
               <= MAX_OTP_ATTEMPTS - 1 + Cardinality(Slots)
      BY <1>1 DEF StandingInv, TypeOK, ProofRows, AttemptsCovered
    <3>3. /\ Cardinality(Checking(x)) \in Nat
          /\ Cardinality(Checking(x)') =
               IF s \in Checking(x) THEN Cardinality(Checking(x)) - 1
                                    ELSE Cardinality(Checking(x))
      BY <3>1, CheckingFinite, FS_RemoveElement
    <3>4. CASE x = <<m, k>>
      <4>1. s \in Checking(x)
        BY <1>1, <2>1, <3>4 DEF Checking, At
      <4>2. proof'[x].attempts = proof[x].attempts + 1
        BY <1>1, <2>1, <2>2, <3>4 DEF TypeOK, ProofRows
      <4> QED
        BY <3>2, <3>3, <4>1, <4>2, CheckingFinite, BoundsAssumption
    <3>5. CASE x # <<m, k>>
      <4>1. proof'[x].attempts = proof[x].attempts
        BY <1>1, <2>1, <2>2, <3>5 DEF TypeOK
      <4> QED
        BY <3>2, <3>3, <4>1, CheckingFinite, BoundsAssumption
    <3> QED
      BY <3>4, <3>5
  <2>5. FramesSteady
    BY <2>3, OtherFrames
  <2>6. RowsSteady /\ ConvsSteady /\ DebtsSteady
    BY <1>1, <2>2, <2>3, SameRows, SameConvs, SameDebts
  <2>7. DisputedHasOpenDispute'
    BY <2>2 DEF StandingInv, DisputedHasOpenDispute
  <2> QED
    BY <2>4, <2>5, <2>6, <2>7 DEF Steady
<1> QED
  BY <1>2, <1>3

----------------------------------------------------------------------------
(* Cancellations and their side effects *)

\* Missions stay, and so do advertisements.
LEMMA SameMissions ==
  ASSUME mission' = mission, \A a \in Ads : AdExists(a) => AdExists(a)',
         \A m \in Missions :
           payment'[m].status = "absent" <=> payment[m].status = "absent"
  PROVE  RowsSteady
BY DEF RowsSteady, MissionExists, FreshMission

\* The request that cancels owes the side effects from then on.
LEMMA WriteCancellationSteady ==
  ASSUME StandingInv, NEW s \in Slots, WriteCancellation(s)
  PROVE  Steady
<1>1. /\ TypeOK /\ req[s].at = "cancel_write" /\ req[s].at \notin OwingSteps
      /\ req[s].at \in MissionSteps
  BY DEF WriteCancellation, At, StandingInv, EngagementInv, OwingSteps,
         MissionSteps, CancelSteps
<1>2. CASE Refuse(s)
  BY <1>1, <1>2, RefuseSteady
<1>3. CASE ~Refuse(s)
  <2>1. PICK m \in Missions : m = req[s].mission
    BY <1>1, MissionOperand
  <2>2. req[s].status \in MissionStatus
    BY <1>1 DEF TypeOK, Frames, FrameRecords, CancelSteps
  <2> DEFINE r == [mission[m] EXCEPT !.status = "CANCELLED"]
  <2>3. /\ mission[m].status = req[s].status /\ Goto(s, "cancel_reread")
        /\ UNCHANGED <<ad, conv, payment, dispute, proof>>
        /\ mission' = [mission EXCEPT ![m] = r]
    BY <1>1, <1>3, <2>1 DEF WriteCancellation, TypeOK
  <2>4. /\ r.ad = mission[m].ad /\ r.shipper = mission[m].shipper
        /\ r.status = "CANCELLED"
    BY <1>1 DEF TypeOK, MissionRows
  <2> HIDE DEF r
  <2>5. MissionExists(m) /\ \A a \in Ads : AdExists(a) => AdExists(a)'
    BY <2>2, <2>3 DEF AdExists, MissionExists, MissionStatus, NoRow
  <2>6. RowsSteady /\ ConvsSteady
    BY <2>3, <2>4, <2>5, RowSteady DEF MissionStatus
  <2>7. /\ mission'[m].status = "CANCELLED"
        /\ \A x \in Missions \ {m} : mission'[x] = mission[x]
    BY <1>1, <2>3, <2>4 DEF TypeOK
  <2>8. /\ req'[s].at = "cancel_reread" /\ req'[s].mission = m
        /\ \A v \in Slots \ {s} : req'[v] = req[v]
    BY <1>1, <2>1, <2>3 DEF Goto, TypeOK, Frames, FrameRecords
  <2>9. FramesSteady /\ AttemptsCovered'
    BY <2>3, <2>8, OtherFrames, SameAttempts DEF WatchedSteps, EffectSteps
  <2>10. Owes(s, m)'
    BY <2>8 DEF Owes, At
  <2>11. \A v \in Slots, x \in Missions : Owes(v, x) => Owes(v, x)'
    BY <1>1, <2>8 DEF Owes, At, OwingSteps
  <2>12. DebtsSteady
    BY <2>3, <2>7, <2>10, <2>11 DEF DebtsSteady
  <2>13. DisputedHasOpenDispute'
    BY <2>3, <2>7 DEF StandingInv, DisputedHasOpenDispute
  <2> QED
    BY <2>6, <2>9, <2>12, <2>13 DEF Steady
<1> QED
  BY <1>2, <1>3

\* The status and the advertisement of the side effects are read again.
LEMMA RereadMissionSteady ==
  ASSUME StandingInv, NEW s \in Slots, RereadMission(s)
  PROVE  Steady
<1>1. /\ TypeOK /\ req[s].at = "cancel_reread" /\ req[s].at \in MissionSteps
      /\ UNCHANGED <<ad, mission, conv, payment, dispute, proof>>
  BY DEF RereadMission, At, StandingInv, EngagementInv, MissionSteps, db
<1>2. PICK m \in Missions : m = req[s].mission
  BY <1>1, MissionOperand
<1>3. RowsSteady /\ ConvsSteady
  BY <1>1, SameRows, SameConvs
<1>4. DisputedHasOpenDispute'
  BY <1>1 DEF StandingInv, DisputedHasOpenDispute
<1>5. CASE MissionExists(m)
  <2> DEFINE f == [req[s] EXCEPT !.at = "cancel_effects",
                                 !.ad = mission[m].ad,
                                 !.status = mission[m].status]
  <2>1. req' = [req EXCEPT ![s] = f]
    BY <1>1, <1>2, <1>5 DEF RereadMission, TypeOK
  <2>2. /\ f.at = "cancel_effects" /\ f.mission = m
        /\ f.ad = mission[m].ad /\ f.status = mission[m].status
    BY <1>1, <1>2 DEF TypeOK, Frames, FrameRecords
  <2> HIDE DEF f
  <2>3. req'[s] = f /\ \A v \in Slots \ {s} : req'[v] = req[v]
    BY <1>1, <2>1 DEF TypeOK
  <2>4. FrameStands(s)'
    BY <1>1, <1>5, <2>2, <2>3
    DEF FrameStands, DossierStands, EffectsStand, At, MissionExists,
        FreshMission, NoRow
  <2>5. FramesSteady /\ AttemptsCovered'
    BY <1>1, <2>2, <2>3, <2>4, SameAttempts DEF FramesSteady
  <2>6. DebtsSteady
    BY <1>1, <1>2, <2>2, <2>3 DEF DebtsSteady, Owes, At
  <2> QED
    BY <1>3, <1>4, <2>5, <2>6 DEF Steady
<1>6. CASE ~MissionExists(m)
  <2>1. /\ req'[s] = Idle /\ \A v \in Slots \ {s} : req'[v] = req[v]
        /\ \A v \in Slots : req'[v] = req[v] \/ req'[v].at \notin WatchedSteps
    BY <1>1, <1>2, <1>6, Answered DEF RereadMission
  <2>2. FramesSteady /\ AttemptsCovered'
    BY <1>1, <2>1, OtherFrames, SameAttempts
  <2>3. DebtsSteady
    BY <1>1, <1>2, <1>6, <2>1 DEF DebtsSteady, Owes, At, MissionExists, NoRow
  <2> QED
    BY <1>3, <1>4, <2>2, <2>3 DEF Steady
<1> QED
  BY <1>5, <1>6

\* Side effects settle what was owed; they only fail on an advertisement that
\* is gone, and then its mission is gone too, with no payment.
LEMMA SideEffectsSteady ==
  ASSUME StandingInv, NEW s \in Slots,
         At(s, "cancel_effects") \/ At(s, "resolve_effects"),
         ApplyStatusSideEffects(s)
  PROVE  Steady
<1>1. /\ TypeOK /\ req[s].at \in MissionSteps /\ req[s].at \in EffectSteps
      /\ Reply(s) /\ UNCHANGED <<mission, dispute, proof>>
  BY DEF At, StandingInv, EngagementInv, MissionSteps, EffectSteps,
         ApplyStatusSideEffects, Refuse, CancelSteps, db
<1>2. PICK m \in Missions : m = req[s].mission
  BY <1>1, MissionOperand
<1>3. /\ req'[s] = Idle /\ \A v \in Slots \ {s} : req'[v] = req[v]
      /\ \A v \in Slots : req'[v] = req[v] \/ req'[v].at \notin WatchedSteps
  BY <1>1, Answered
<1>4. FramesSteady /\ AttemptsCovered'
  BY <1>1, <1>3, OtherFrames, SameAttempts
<1>5. DisputedHasOpenDispute'
  BY <1>1 DEF StandingInv, DisputedHasOpenDispute
<1>6. CASE AdExists(req[s].ad)
  <2>1. payment' = SettledPayment(m, req[s].status)
    BY <1>2, <1>6 DEF ApplyStatusSideEffects
  <2>2. \A x \in Missions :
          /\ payment'[x].status = "absent" <=> payment[x].status = "absent"
          /\ payment'[x].status = "PENDING" =>
               /\ payment[x].status = "PENDING"
               /\ ~(x = m /\ req[s].status = "CANCELLED")
    BY <1>1, <2>1 DEF SettledPayment, TypeOK, PaymentRows
  <2>3. \A c \in Convs : conv'[c].mission = conv[c].mission
    BY <1>1, <1>6
    DEF ApplyStatusSideEffects, ArchivedConv, TypeOK, ConvRows
  <2>4. \A a \in Ads : AdExists(a) => AdExists(a)'
    BY <1>1, <1>6
    DEF ApplyStatusSideEffects, AdStatusAfter, AdExists, NoRow, TypeOK
  <2>5. RowsSteady /\ ConvsSteady
    BY <1>1, <2>2, <2>3, <2>4, SameMissions, SameConvs
  <2>6. DebtsSteady
    BY <1>1, <1>2, <1>3, <2>2
    DEF DebtsSteady, Owes, At, EffectSteps
  <2> QED
    BY <1>4, <1>5, <2>5, <2>6 DEF Steady
<1>7. CASE ~AdExists(req[s].ad)
  <2>1. UNCHANGED <<ad, conv, payment>>
    BY <1>7 DEF ApplyStatusSideEffects, Refuse, db
  <2>2. payment[m].status = "absent"
    BY <1>1, <1>2, <1>7
    DEF StandingInv, PaidStand, AdsStand, FrameStands, EffectsStand
  <2>3. DebtsSteady
    BY <1>1, <1>2, <1>3, <2>1, <2>2 DEF DebtsSteady, Owes, At
  <2>4. RowsSteady /\ ConvsSteady
    BY <1>1, <2>1, SameRows, SameConvs
  <2> QED
    BY <1>4, <1>5, <2>3, <2>4 DEF Steady
<1> QED
  BY <1>6, <1>7

----------------------------------------------------------------------------
(* Disputes and verified codes *)

\* A mission becomes DISPUTED with its open dispute.
LEMMA CommitDisputeSteady ==
  ASSUME StandingInv, NEW s \in Slots, CommitDispute(s)
  PROVE  Steady
<1>1. /\ TypeOK /\ req[s].at = "dispute_open" /\ req[s].at \notin OwingSteps
      /\ req[s].at \in MissionSteps
  BY DEF CommitDispute, At, StandingInv, EngagementInv, OwingSteps,
         MissionSteps
<1>2. CASE Refuse(s)
  BY <1>1, <1>2, RefuseSteady
<1>3. CASE ~Refuse(s)
  <2>1. PICK m \in Missions : m = req[s].mission
    BY <1>1, MissionOperand
  <2> DEFINE r == [mission[m] EXCEPT !.status = "DISPUTED"]
  <2>2. /\ MissionExists(m) /\ Reply(s)
        /\ UNCHANGED <<ad, conv, payment, proof>>
        /\ dispute' = [dispute EXCEPT ![m] = "OPEN"]
        /\ mission' = [mission EXCEPT ![m] = r]
    BY <1>1, <1>3, <2>1 DEF CommitDispute, TypeOK
  <2>3. /\ r.ad = mission[m].ad /\ r.shipper = mission[m].shipper
        /\ r.status = "DISPUTED"
    BY <1>1 DEF TypeOK, MissionRows
  <2> HIDE DEF r
  <2>4. \A a \in Ads : AdExists(a) => AdExists(a)'
    BY <2>2 DEF AdExists
  <2>5. RowsSteady /\ ConvsSteady
    BY <2>2, <2>3, <2>4, RowSteady DEF MissionStatus
  <2>6. /\ mission'[m].status = "DISPUTED"
        /\ \A x \in Missions \ {m} : mission'[x] = mission[x]
    BY <1>1, <2>2, <2>3 DEF TypeOK
  <2>7. FramesSteady /\ AttemptsCovered'
    BY <1>1, <2>2, Answered, OtherFrames, SameAttempts
  <2>8. DebtsSteady
    BY <1>1, <2>2, <2>6, Answered, SameDebts
  <2>9. DisputedHasOpenDispute'
    BY <1>1, <2>2, <2>6 DEF StandingInv, DisputedHasOpenDispute, TypeOK
  <2> QED
    BY <2>5, <2>7, <2>8, <2>9 DEF Steady
<1> QED
  BY <1>2, <1>3

\* The resolution that cancels owes the side effects.
LEMMA CommitResolutionSteady ==
  ASSUME StandingInv, NEW s \in Slots, CommitResolution(s)
  PROVE  Steady
<1>1. /\ TypeOK /\ req[s].at = "resolve_commit" /\ req[s].at \notin OwingSteps
      /\ req[s].at \in MissionSteps /\ req[s].at \in EffectSteps
  BY DEF CommitResolution, At, StandingInv, EngagementInv, OwingSteps,
         MissionSteps, EffectSteps
<1>2. CASE Refuse(s)
  BY <1>1, <1>2, RefuseSteady
<1>3. CASE ~Refuse(s)
  <2>1. PICK m \in Missions : m = req[s].mission
    BY <1>1, MissionOperand
  <2>2. PICK outcome \in {"COMPLETED", "CANCELLED"} : outcome = req[s].status
    BY <1>1 DEF TypeOK, Frames
  <2> DEFINE r == [mission[m] EXCEPT !.status = outcome]
  <2>3. /\ dispute[m] = "OPEN" /\ Goto(s, "resolve_effects")
        /\ UNCHANGED <<ad, conv, payment, proof>>
        /\ dispute' = [dispute EXCEPT ![m] = "RESOLVED"]
        /\ mission' = [mission EXCEPT ![m] = r]
    BY <1>1, <1>3, <2>1, <2>2 DEF CommitResolution, TypeOK
  <2>4. /\ r.ad = mission[m].ad /\ r.shipper = mission[m].shipper
        /\ r.status = outcome
    BY <1>1 DEF TypeOK, MissionRows
  <2> HIDE DEF r
  <2>5. MissionExists(m) /\ \A a \in Ads : AdExists(a) => AdExists(a)'
    BY <2>3 DEF AdExists, StandingInv, EngagementInv, DisputesAttached
  <2>6. RowsSteady /\ ConvsSteady
    BY <2>3, <2>4, <2>5, RowSteady DEF MissionStatus
  <2>7. /\ mission'[m] = r /\ \A x \in Missions \ {m} : mission'[x] = mission[x]
    BY <1>1, <2>3 DEF TypeOK
  <2>8. /\ req'[s].at = "resolve_effects" /\ req'[s].mission = m
        /\ req'[s].ad = req[s].ad /\ req'[s].status = outcome
        /\ \A v \in Slots \ {s} : req'[v] = req[v]
    BY <1>1, <2>1, <2>2, <2>3 DEF Goto, TypeOK, Frames, FrameRecords
  <2>9. FrameStands(s)'
    <3>1. mission'[m].ad = req[s].ad /\ ~FreshMission(m)'
      BY <1>1, <2>1, <2>4, <2>5, <2>7
      DEF StandingInv, FrameStands, EffectsStand, FreshMission
    <3> QED
      BY <2>8, <3>1
      DEF FrameStands, DossierStands, EffectsStand, At, FreshMission
  <2>10. FramesSteady /\ AttemptsCovered'
    BY <2>3, <2>8, <2>9, SameAttempts DEF FramesSteady
  <2>11. outcome = "CANCELLED" => Owes(s, m)'
    BY <2>8 DEF Owes, At
  <2>12. \A v \in Slots, x \in Missions : Owes(v, x) => Owes(v, x)'
    BY <1>1, <2>8 DEF Owes, At, OwingSteps
  <2>13. DebtsSteady
    BY <2>3, <2>4, <2>7, <2>11, <2>12 DEF DebtsSteady
  <2>14. DisputedHasOpenDispute'
    BY <1>1, <2>3, <2>4, <2>7
    DEF StandingInv, DisputedHasOpenDispute, TypeOK
  <2> QED
    BY <2>6, <2>10, <2>13, <2>14 DEF Steady
<1> QED
  BY <1>2, <1>3

\* A code that is used leads a mission on; its payment may be completed.
LEMMA CommitVerificationSteady ==
  ASSUME StandingInv, NEW s \in Slots, CommitVerification(s)
  PROVE  Steady
<1>1. /\ TypeOK /\ req[s].at = "verify_commit" /\ req[s].at \notin OwingSteps
      /\ req[s].at \in MissionSteps
  BY DEF CommitVerification, At, StandingInv, EngagementInv, OwingSteps,
         MissionSteps, CodeSteps
<1>2. CASE Refuse(s)
  BY <1>1, <1>2, RefuseSteady
<1>3. CASE ~Refuse(s)
  <2>1. PICK m \in Missions, k \in ProofKinds :
          m = req[s].mission /\ k = req[s].kind
    BY <1>1 DEF TypeOK, Frames, FrameRecords, MissionSteps, CodeSteps
  <2>2. /\ MissionExists(m) /\ Reply(s) /\ UNCHANGED <<conv, dispute>>
        /\ proof' = [proof EXCEPT ![<<m, k>>].used = TRUE]
    BY <1>3, <2>1 DEF CommitVerification
  <2>3. PICK status \in {"IN_TRANSIT", "COMPLETED"} :
          mission' = [mission EXCEPT ![m] =
                        [mission[m] EXCEPT !.status = status]]
    BY <1>1, <1>3, <2>1 DEF CommitVerification, TypeOK
  <2> DEFINE r == [mission[m] EXCEPT !.status = status]
  <2>4. /\ r.ad = mission[m].ad /\ r.shipper = mission[m].shipper
        /\ r.status = status
    BY <1>1 DEF TypeOK, MissionRows
  <2>5. mission' = [mission EXCEPT ![m] = r]
    BY <2>3
  <2> HIDE DEF r
  <2>6. \A x \in Missions :
          /\ payment'[x].status = "absent" <=> payment[x].status = "absent"
          /\ payment'[x].status = "PENDING" => payment[x].status = "PENDING"
    BY <1>1, <1>3, <2>1 DEF CommitVerification, TypeOK, PaymentRows
  <2>7. \A a \in Ads : AdExists(a) => AdExists(a)'
    BY <1>1, <1>3, <2>1 DEF CommitVerification, TypeOK, AdExists, NoRow
  <2>8. RowsSteady /\ ConvsSteady
    BY <2>2, <2>4, <2>5, <2>6, <2>7, RowSteady DEF MissionStatus
  <2>9. /\ mission'[m].status \in {"IN_TRANSIT", "COMPLETED"}
        /\ \A x \in Missions \ {m} : mission'[x] = mission[x]
    BY <1>1, <2>4, <2>5 DEF TypeOK
  <2>10. \A x \in Missions \X ProofKinds :
           proof'[x].attempts \in Nat /\ proof'[x].attempts <= proof[x].attempts
    <3> SUFFICES ASSUME NEW x \in Missions \X ProofKinds
                 PROVE  /\ proof[x].attempts \in Nat
                        /\ proof'[x].attempts = proof[x].attempts
      OBVIOUS
    <3>1. proof[x] \in ProofRows
      BY <1>1 DEF TypeOK
    <3>2. proof'[x] \in {proof[x], [proof[x] EXCEPT !.used = TRUE]}
      BY <1>1, <2>2 DEF TypeOK
    <3> QED
      BY <3>1, <3>2 DEF ProofRows
  <2>11. FramesSteady /\ AttemptsCovered'
    BY <1>1, <2>2, <2>10, Answered, OtherFrames, FewerAttempts
  <2>12. \A x \in Missions :
           mission'[x].status = "CANCELLED" => mission[x].status = "CANCELLED"
    BY <2>9
  <2>13. \A v \in Slots : req'[v] = req[v] \/ req[v].at \notin OwingSteps
    BY <1>1, <2>2, Answered
  <2>14. DebtsSteady
    BY <2>6, <2>12, <2>13, SameDebts
  <2>15. DisputedHasOpenDispute'
    BY <2>2, <2>9 DEF StandingInv, DisputedHasOpenDispute
  <2> QED
    BY <2>8, <2>11, <2>14, <2>15 DEF Steady
<1> QED
  BY <1>2, <1>3

----------------------------------------------------------------------------
(* Acceptances and deletions *)

\* The competitors that are cancelled were never paid.
LEMMA CommitAcceptanceSteady ==
  ASSUME StandingInv, NEW s \in Slots, CommitAcceptance(s)
  PROVE  Steady
<1>1. /\ TypeOK /\ req[s].at = "accept_commit" /\ req[s].at \notin OwingSteps
      /\ req[s].at \in MissionSteps
  BY DEF CommitAcceptance, At, StandingInv, EngagementInv, OwingSteps,
         MissionSteps, AcceptSteps
<1>2. CASE Refuse(s)
  BY <1>1, <1>2, RefuseSteady
<1>3. CASE ~Refuse(s)
  <2>1. PICK m \in Missions, u \in {Carrier(req[s].conv)},
             p \in {req[s].price} :
          m = req[s].mission
    BY <1>1, MissionOperand
  <2>2. /\ mission[m].status = "PENDING" /\ Reply(s)
        /\ UNCHANGED <<dispute, proof>>
        /\ mission' = [x \in Missions |-> EngagedMission(x, m, u, p)]
        /\ payment' = [payment EXCEPT ![m] =
                         [status |-> "PENDING", amount |-> p]]
    BY <1>3, <2>1 DEF CommitAcceptance, CanEngage
  <2>3. /\ mission'[m].status = "ACCEPTED"
        /\ mission'[m].ad = mission[m].ad
        /\ mission'[m].shipper = mission[m].shipper
    <3>1. mission[m] \in MissionRows /\ mission'[m] = EngagedMission(m, m, u, p)
      BY <1>1, <2>2 DEF TypeOK
    <3> QED
      BY <3>1 DEF EngagedMission, MissionRows
  <2>4. ASSUME NEW x \in Missions \ {m}
        PROVE  \/ mission'[x] = mission[x]
               \/ /\ mission[x].status = "PENDING"
                  /\ mission'[x].status = "CANCELLED"
                  /\ mission'[x].ad = mission[x].ad
                  /\ mission'[x].shipper = mission[x].shipper
    <3>1. mission[x] \in MissionRows /\ mission'[x] = EngagedMission(x, m, u, p)
      BY <1>1, <2>2 DEF TypeOK
    <3> QED
      BY <3>1 DEF EngagedMission, MissionRows
  <2>5. \A x \in Missions :
          /\ MissionExists(x)' <=> MissionExists(x)
          /\ FreshMission(x)' <=> FreshMission(x)
          /\ mission'[x].ad = mission[x].ad
          /\ mission'[x].shipper = mission[x].shipper
          /\ mission'[x].status = "PENDING" => mission[x].status = "PENDING"
    BY <2>2, <2>3, <2>4 DEF MissionExists, FreshMission, NoRow
  <2>6. \A a \in Ads : AdExists(a) => AdExists(a)'
    BY <1>1, <1>3, <2>1 DEF CommitAcceptance, TypeOK, AdExists, NoRow
  <2>7. \A x \in Missions \ {m} : payment'[x] = payment[x]
    BY <1>1, <2>2 DEF TypeOK
  <2>8. RowsSteady
    <3>1. \A x \in Missions :
            \/ payment'[x].status = "absent" \/ payment[x].status # "absent"
            \/ mission'[x].status = "ACCEPTED"
      BY <2>3, <2>7
    <3> QED
      BY <2>5, <2>6, <3>1 DEF RowsSteady
  <2>9. \A c \in Convs : conv'[c].mission = conv[c].mission
    BY <1>1, <1>3 DEF CommitAcceptance, ClosedConv, TypeOK, ConvRows
  <2>10. ConvsSteady
    <3> SUFFICES ASSUME NEW c \in Convs, conv'[c].mission # None
                 PROVE  MissionExists(conv[c].mission)'
      BY <2>9 DEF ConvsSteady
    <3>1. PICK x \in Missions : x = conv[c].mission /\ MissionExists(x)
      BY <1>1, <2>9 DEF TypeOK, ConvRows, StandingInv, ConvsAttached
    <3>2. MissionExists(x)'
      BY <2>5, <3>1
    <3> QED
      BY <2>9, <3>1, <3>2 DEF MissionExists
  <2>11. FramesSteady /\ AttemptsCovered'
    BY <1>1, <2>2, Answered, OtherFrames, SameAttempts
  <2>12. \A v \in Slots, x \in Missions : Owes(v, x) => Owes(v, x)'
    <3>1. \A v \in Slots : req'[v] = req[v] \/ req[v].at \notin OwingSteps
      BY <1>1, <2>2, Answered
    <3> QED
      BY <3>1 DEF Owes, At, OwingSteps
  <2>13. DebtsSteady
    <3> SUFFICES ASSUME NEW x \in Missions, mission'[x].status = "CANCELLED",
                        payment'[x].status = "PENDING"
                 PROVE  mission[x].status = "CANCELLED"
                        /\ payment[x].status = "PENDING"
      BY <2>12 DEF DebtsSteady
    <3>1. x # m /\ payment[x].status = "PENDING"
      BY <2>3, <2>7
    <3>2. mission[x].status # "PENDING"
      BY <3>1 DEF StandingInv, PaidStand
    <3> QED
      BY <2>4, <3>1, <3>2
  <2>14. DisputedHasOpenDispute'
    BY <2>2, <2>3, <2>4 DEF StandingInv, DisputedHasOpenDispute
  <2> QED
    BY <2>8, <2>10, <2>11, <2>13, <2>14 DEF Steady
<1> QED
  BY <1>2, <1>3

\* Missions that are deleted were never paid; nothing leads to them any more.
LEMMA ErasureSteady ==
  ASSUME StandingInv, NEW D \in SUBSET Missions, Erasable(D),
         EraseMissions(D), UNCHANGED payment,
         \A a \in Ads : AdExists(a) =>
           AdExists(a)' \/ \A m \in Missions : mission[m].ad = a => m \in D,
         \A s \in Slots : req'[s] = req[s]
           \/ (req[s].at \notin OwingSteps /\ req'[s].at \notin WatchedSteps)
  PROVE  Steady
<1>1. TypeOK
  BY DEF StandingInv, EngagementInv
<1>2. /\ \A m \in D : mission'[m].status = "erased"
      /\ \A m \in Missions \ D :
           mission'[m] = mission[m] /\ dispute'[m] = dispute[m]
  BY DEF EraseMissions, NoMission, Mission
<1>3. \A m \in Missions : MissionExists(m)' => m \notin D /\ MissionExists(m)
  BY <1>2 DEF MissionExists, NoRow
<1>4. \A m \in Missions :
        payment[m].status # "absent" /\ MissionExists(m) => MissionExists(m)'
  BY <1>2 DEF Erasable, MissionExists
<1>5. \A m \in Missions : FreshMission(m)' => FreshMission(m)
  BY <1>2 DEF FreshMission
<1>6. RowsSteady
  <2>1. \A m \in Missions : MissionExists(m)' =>
          MissionExists(m) /\ mission'[m] = mission[m]
    BY <1>2, <1>3
  <2>2. \A a \in Ads : AdExists(a) =>
          AdExists(a)' \/ \A m \in Missions :
                            mission[m].ad = a => ~MissionExists(m)'
    BY <1>3
  <2> QED
    BY <1>4, <1>5, <2>1, <2>2 DEF RowsSteady
<1>7. ConvsSteady
  <2> SUFFICES ASSUME NEW c \in Convs, conv'[c].mission # None
               PROVE  /\ MissionExists(conv[c].mission)'
                      /\ conv'[c].mission = conv[c].mission
    BY DEF ConvsSteady
  <2>1. conv[c].mission \notin D /\ conv'[c] = conv[c]
    BY <1>1 DEF EraseMissions, TypeOK, ConvRows
  <2>2. conv[c].mission \in Missions /\ MissionExists(conv[c].mission)
    BY <1>1, <2>1 DEF TypeOK, ConvRows, StandingInv, ConvsAttached
  <2> QED
    BY <1>2, <2>1, <2>2 DEF MissionExists
<1>8. \A x \in Missions \X ProofKinds :
        proof'[x].attempts \in Nat /\ proof'[x].attempts <= proof[x].attempts
  BY <1>1 DEF EraseMissions, NoProof, TypeOK, ProofRows
<1>9. FramesSteady /\ AttemptsCovered'
  BY <1>8, OtherFrames, FewerAttempts
<1>10. DebtsSteady
  BY <1>2, SameDebts
<1>11. DisputedHasOpenDispute'
  BY <1>2 DEF StandingInv, DisputedHasOpenDispute
<1> QED
  BY <1>6, <1>7, <1>9, <1>10, <1>11 DEF Steady

\* A mission is deleted by its shipper.
LEMMA EraseMissionSteady ==
  ASSUME StandingInv, NEW s \in Slots, EraseMission(s)
  PROVE  Steady
<1>1. /\ TypeOK /\ req[s].at = "mission_delete" /\ req[s].at \notin OwingSteps
      /\ req[s].at \in MissionSteps
  BY DEF EraseMission, At, StandingInv, EngagementInv, OwingSteps, MissionSteps
<1>2. CASE Refuse(s)
  BY <1>1, <1>2, RefuseSteady
<1>3. CASE ~Refuse(s)
  <2>1. PICK m \in Missions : m = req[s].mission
    BY <1>1, MissionOperand
  <2>2. /\ Erasable({m}) /\ EraseMissions({m}) /\ Reply(s)
        /\ UNCHANGED <<ad, payment>>
    BY <1>3, <2>1 DEF EraseMission
  <2>3. \A a \in Ads : AdExists(a) => AdExists(a)'
    BY <2>2 DEF AdExists
  <2>4. \A v \in Slots : req'[v] = req[v]
          \/ (req[v].at \notin OwingSteps /\ req'[v].at \notin WatchedSteps)
    BY <1>1, <2>2, IdleStands, OneSlot DEF Reply
  <2> QED
    BY <2>2, <2>3, <2>4, ErasureSteady
<1> QED
  BY <1>2, <1>3

\* An advertisement is deleted with its missions.
LEMMA DeleteAdSteady ==
  ASSUME StandingInv, NEW a \in Ads, DeleteAd(a)
  PROVE  Steady
<1> DEFINE D == {m \in Missions : mission[m].ad = a}
<1>1. /\ Erasable(D) /\ EraseMissions(D) /\ D \in SUBSET Missions
      /\ UNCHANGED <<payment, req>> /\ ad' = [ad EXCEPT ![a] = "erased"]
  BY DEF DeleteAd
<1>2. \A x \in Ads : AdExists(x) =>
        AdExists(x)' \/ \A m \in Missions : mission[m].ad = x => m \in D
  BY <1>1 DEF StandingInv, EngagementInv, TypeOK, AdExists
<1> HIDE DEF D
<1> QED
  BY <1>1, <1>2, ErasureSteady

----------------------------------------------------------------------------
(* Every step *)

\* Every statement of a request in flight.
LEMMA ContinueSteady ==
  ASSUME StandingInv, NEW s \in Slots, Continue(s)
  PROVE  Steady
<1>1. CASE \/ HideConversation(s) \/ EraseConversation(s)
           \/ WakeConversation(s) \/ ReviveConversation(s)
  BY <1>1, ConversationsSteady
<1>2. CASE \/ InsertOffer(s) \/ WriteOfferEdit(s) \/ WriteRejection(s)
           \/ CheckCarrierKyc(s) \/ ReadMissionToAccept(s)
  BY <1>2, OffersSteady
<1>3. CASE CancelEffects(s) \/ ResolveEffects(s)
  BY <1>3, SideEffectsSteady DEF CancelEffects, ResolveEffects
<1>4. CASE WriteConversation(s)
  BY <1>4, WriteConversationSteady
<1>5. CASE CommitAcceptance(s)
  BY <1>5, CommitAcceptanceSteady
<1>6. CASE InsertMission(s) \/ WritePackages(s) \/ EraseMission(s)
  BY <1>6, InsertMissionSteady, WritePackagesSteady, EraseMissionSteady
<1>7. CASE WriteCancellation(s) \/ RereadMission(s)
  BY <1>7, WriteCancellationSteady, RereadMissionSteady
<1>8. CASE WriteCode(s) \/ LoadProof(s) \/ CountAttempt(s)
  BY <1>8, WriteCodeSteady, LoadProofSteady, CountAttemptSteady
<1>9. CASE CommitVerification(s)
  BY <1>9, CommitVerificationSteady
<1>10. CASE CommitDispute(s) \/ CommitResolution(s)
  BY <1>10, CommitDisputeSteady, CommitResolutionSteady
<1> QED
  BY <1>1, <1>2, <1>3, <1>4, <1>5, <1>6, <1>7, <1>8, <1>9, <1>10 DEF Continue

\* A restart forgets debts, which is why it is excluded where they matter.
LEMMA RestartSteady ==
  ASSUME StandingInv, Restart
  PROVE  Steady
<1>1. /\ "restart" \in Ops
      /\ UNCHANGED <<ad, mission, conv, payment, dispute, proof>>
  BY DEF Restart, db
<1>2. \A s \in Slots : req'[s].at \notin WatchedSteps
  BY IdleStands DEF Restart
<1>3. RowsSteady /\ ConvsSteady
  BY <1>1, SameRows, SameConvs
<1>4. FramesSteady /\ AttemptsCovered'
  BY <1>1, <1>2, OtherFrames, SameAttempts
<1>5. DisputedHasOpenDispute'
  BY <1>1 DEF StandingInv, DisputedHasOpenDispute
<1> QED
  BY <1>1, <1>3, <1>4, <1>5 DEF Steady

\* Every step is steady: one of a request, of a single statement, a restart
\* or none at all.
LEMMA StepIsSteady ==
  ASSUME StandingInv, [Next]_vars
  PROVE  Steady
<1>1. CASE \E s \in Slots : Arrive(s) \/ Continue(s)
  BY <1>1, ArriveSteady, ContinueSteady
<1>2. CASE OneStatement
  <2>1. CASE \/ \E o \in Offers : DeleteMessage(o)
             \/ \E u \in Users : BadgeGranted(u) \/ BadgeRevoked(u)
    <3>1. UNCHANGED <<ad, mission, conv, payment, dispute, proof, req>>
      BY <2>1 DEF DeleteMessage, BadgeGranted, BadgeRevoked
    <3> QED
      BY <3>1, SideStep
  <2> QED
    BY <1>2, <2>1, PublishAdSteady, DeleteAdSteady DEF OneStatement
<1>3. CASE Restart
  BY <1>3, RestartSteady
<1>4. CASE UNCHANGED vars
  <2>1. UNCHANGED <<ad, mission, conv, payment, dispute, proof, req>>
    BY <1>4 DEF vars
  <2> QED
    BY <2>1, SideStep
<1> QED
  BY <1>1, <1>2, <1>3, <1>4 DEF Next

\* The invariant is inductive.
LEMMA StandingStep == StandingInv /\ [Next]_vars => StandingInv'
BY EngagementStep, StepIsSteady, SteadyKeepsInv DEF StandingInv

\* The empty tables.
LEMMA StandingInit == Init => StandingInv
<1> SUFFICES ASSUME Init PROVE StandingInv
  OBVIOUS
<1>1. EngagementInv
  BY EngagementInit
<1>2. /\ ConvsAttached /\ AdsStand /\ PaidStand
      /\ PartiesConsistent /\ DisputedHasOpenDispute
      /\ CancelledIsSettledOrOwed
  BY DEF Init, StoreInit, ConvsAttached, AdsStand, PaidStand,
         PartiesConsistent, DisputedHasOpenDispute, CancelledIsSettledOrOwed,
         MissionExists, NoRow, NoMission, Mission, NoConv, NoPayment
<1>3. \A s \in Slots : req[s] = Idle
  BY DEF Init, StoreInit
<1>4. \A s \in Slots : FrameStands(s)
  BY <1>3, IdleStands
  DEF FrameStands, DossierStands, EffectsStand, WatchedSteps, At
<1>5. AttemptsCovered
  <2> SUFFICES ASSUME NEW x \in Missions \X ProofKinds
               PROVE  proof[x].attempts + Cardinality(Checking(x))
                        <= MAX_OTP_ATTEMPTS - 1 + Cardinality(Slots)
    BY DEF AttemptsCovered
  <2>1. proof[x].attempts = 0
    BY DEF Init, StoreInit, NoProof
  <2> QED
    BY <2>1, CheckingFinite, BoundsAssumption
<1> QED
  BY <1>1, <1>2, <1>4, <1>5 DEF StandingInv

\* Whatever requests interleave and whenever the process restarts, foreign
\* keys hold, requests work on what they read or on nothing, attempts are
\* covered and, without restarts, debts are kept.
THEOREM StandingInvariant == Spec => []StandingInv
BY StandingInit, StandingStep, PTL DEF Spec

\* An acceptance engages the parties of the conversation it is made in
\* (ConversationsService attaches a dossier of the same advertisement).
THEOREM ConversationsSuit == Spec => []PartiesConsistent
BY StandingInvariant, PTL DEF StandingInv

\* A mission under dispute can be resolved by an admin (DisputesService).
THEOREM DisputesAreOpen == Spec => []DisputedHasOpenDispute
BY StandingInvariant, PTL DEF StandingInv

\* Attempts on a code exceed the maximum by the submissions checked at the
\* same time, no more (ProofService counts after it compares).
THEOREM AttemptsAreBounded == Spec => []AttemptsBounded
<1>1. StandingInv => AttemptsBounded
  <2> SUFFICES ASSUME StandingInv, NEW x \in Missions \X ProofKinds
               PROVE  proof[x].attempts
                        <= MAX_OTP_ATTEMPTS - 1 + Cardinality(Slots)
    BY DEF AttemptsBounded
  <2>1. /\ proof[x].attempts \in Nat
        /\ proof[x].attempts + Cardinality(Checking(x))
             <= MAX_OTP_ATTEMPTS - 1 + Cardinality(Slots)
    BY DEF StandingInv, EngagementInv, TypeOK, ProofRows, AttemptsCovered
  <2> QED
    BY <2>1, CheckingFinite, BoundsAssumption
<1> QED
  BY <1>1, StandingInvariant, PTL

\* As long as the process runs, a cancelled mission with a PENDING payment is
\* owed its side effects by a request in flight (applyStatusSideEffects).
THEOREM SettlementIsOwed ==
  ASSUME "restart" \notin Ops
  PROVE  Spec => []CancelledIsSettledOrOwed
<1>1. StandingInv => CancelledIsSettledOrOwed
  BY DEF StandingInv
<1> QED
  BY <1>1, StandingInvariant, PTL

----------------------------------------------------------------------------
(* What was accepted is not taken back *)

\* An accepted offer is deleted or kept at its price by this step.
AcceptanceKept ==
  \A o \in Offers : offer[o].status = "ACCEPTED" =>
    \/ offer'[o].status = "erased"
    \/ /\ offer'[o].status = "ACCEPTED"
       /\ offer'[o].price = offer[o].price

\* Requests that arrive write no offer.
LEMMA ArriveKeepsOffers ==
  ASSUME NEW s \in Slots, Arrive(s)
  PROVE  offer' = offer
BY DEF Arrive, db, OpenConversation, RemoveConversation, SendOffer, EditOffer,
       AcceptOffer, RejectOffer, CreateMission, ChangePackages, DeleteMission,
       CancelMission, GenerateCode, SubmitCode, OpenDispute, ResolveDispute

\* A refused request writes no offer.
LEMMA RefuseKeepsOffers ==
  ASSUME NEW s \in Slots, Refuse(s)
  PROVE  offer' = offer
BY DEF Refuse, db

\* Deleted missions take their reference from offers, nothing else.
LEMMA ErasureKeepsAcceptance ==
  ASSUME TypeOK, NEW D \in SUBSET Missions, EraseMissions(D)
  PROVE  AcceptanceKept
BY DEF AcceptanceKept, EraseMissions, TypeOK, OfferRows

\* The statements that write offers, one by one.
LEMMA WritersKeepAcceptance ==
  ASSUME TypeOK, NEW s \in Slots,
         \/ InsertOffer(s) \/ WriteOfferEdit(s) \/ WriteRejection(s)
         \/ CommitAcceptance(s) \/ EraseConversation(s) \/ EraseMission(s)
  PROVE  AcceptanceKept
<1>1. CASE Refuse(s)
  BY <1>1, RefuseKeepsOffers DEF AcceptanceKept
<1>2. CASE InsertOffer(s) /\ ~Refuse(s)
  BY <1>2 DEF InsertOffer, AcceptanceKept, TypeOK
<1>3. CASE (WriteOfferEdit(s) \/ WriteRejection(s)) /\ ~Refuse(s)
  BY <1>3 DEF WriteOfferEdit, WriteRejection, AcceptanceKept, TypeOK
<1>4. CASE CommitAcceptance(s) /\ ~Refuse(s)
  <2> SUFFICES ASSUME NEW o \in Offers, offer[o].status = "ACCEPTED"
               PROVE  /\ offer'[o].status = "ACCEPTED"
                      /\ offer'[o].price = offer[o].price
    BY DEF AcceptanceKept
  <2>1. /\ offer[o] \in OfferRows
        /\ offer'[o] = SettledOffer(o, req[s].offer, req[s].mission)
    BY <1>4 DEF CommitAcceptance, TypeOK
  <2> QED
    BY <2>1 DEF SettledOffer, OfferRows
<1>5. CASE EraseConversation(s) /\ ~Refuse(s)
  BY <1>5 DEF EraseConversation, AcceptanceKept, NoOffer
<1>6. CASE EraseMission(s) /\ ~Refuse(s)
  <2>1. PICK m \in Missions : m = req[s].mission
    BY <1>6 DEF EraseMission, At, TypeOK, Frames, FrameRecords, MissionSteps
  <2> QED
    BY <1>6, <2>1, ErasureKeepsAcceptance DEF EraseMission
<1> QED
  BY <1>1, <1>2, <1>3, <1>4, <1>5, <1>6

\* The other statements write no offer.
LEMMA OthersKeepOffers ==
  ASSUME NEW s \in Slots, Continue(s),
         ~(\/ InsertOffer(s) \/ WriteOfferEdit(s) \/ WriteRejection(s)
           \/ CommitAcceptance(s) \/ EraseConversation(s) \/ EraseMission(s))
  PROVE  offer' = offer
<1>1. CASE Refuse(s)
  BY <1>1, RefuseKeepsOffers
<1>2. CASE ~Refuse(s)
  BY <1>2
  DEF Continue, db, WriteConversation, HideConversation, WakeConversation,
      ReviveConversation, CheckCarrierKyc, ReadMissionToAccept, InsertMission,
      WritePackages, WriteCancellation, RereadMission, CancelEffects,
      ApplyStatusSideEffects, WriteCode, LoadProof, CountAttempt,
      CommitVerification, CommitDispute, CommitResolution, ResolveEffects
<1> QED
  BY <1>1, <1>2

\* Every step.
LEMMA StepKeepsAcceptance == TypeOK /\ [Next]_vars => AcceptanceKept
<1> SUFFICES ASSUME TypeOK, [Next]_vars PROVE AcceptanceKept
  OBVIOUS
<1>1. CASE offer' = offer
  BY <1>1 DEF AcceptanceKept
<1>2. CASE \E s \in Slots : Arrive(s) \/ Continue(s)
  BY <1>1, <1>2, ArriveKeepsOffers, WritersKeepAcceptance, OthersKeepOffers
<1>3. CASE OneStatement
  <2>1. CASE \E o \in Offers : DeleteMessage(o)
    BY <2>1 DEF DeleteMessage, AcceptanceKept, TypeOK, NoOffer
  <2>2. CASE \E a \in Ads : DeleteAd(a)
    <3>1. PICK a \in Ads : DeleteAd(a)
      BY <2>2
    <3> DEFINE D == {m \in Missions : mission[m].ad = a}
    <3>2. EraseMissions(D) /\ D \in SUBSET Missions
      BY <3>1 DEF DeleteAd
    <3> QED
      BY <3>2, ErasureKeepsAcceptance
  <2>3. CASE \/ \E a \in Ads : PublishAd(a)
             \/ \E u \in Users : BadgeGranted(u) \/ BadgeRevoked(u)
    BY <1>1, <2>3 DEF PublishAd, BadgeGranted, BadgeRevoked
  <2> QED
    BY <1>3, <2>1, <2>2, <2>3 DEF OneStatement
<1>4. CASE Restart \/ UNCHANGED vars
  BY <1>1, <1>4 DEF Restart, db, vars
<1> QED
  BY <1>2, <1>3, <1>4 DEF Next

\* A rejection, an edit or a second acceptance that read an offer PENDING does
\* not undo its acceptance: their writes look at the status again.
THEOREM AcceptanceStands == Spec => AcceptedOfferStands
<1>1. TypeOK /\ [Next]_vars => [AcceptanceKept]_offer
  BY StepKeepsAcceptance
<1> QED
  BY <1>1, TypeInvariant, PTL DEF Spec, AcceptedOfferStands, AcceptanceKept
=============================================================================
