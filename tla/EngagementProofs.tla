-------------------------- MODULE EngagementProofs --------------------------
(***************************************************************************)
(* The type invariant of the marketplace, deals, payments and accepted      *)
(* offers hold for every number of users, rows and requests in flight, and  *)
(* every behaviour is one of the EngagementLedger.  First the types: rows   *)
(* never lose a NOT NULL column, and a request in flight always has the     *)
(* operands of its next statements, one lemma per handler step.  Then the   *)
(* deals: only CommitAcceptance makes one, every other step is shown to be  *)
(* Quiet, and the invariant is derived from that once.                      *)
(***************************************************************************)
EXTENDS Marketplace, TLAPS

----------------------------------------------------------------------------
(* How frames change *)

\* The empty frame is a frame.
LEMMA IdleIsFrame == Idle \in Frames
BY NoneAssumption
DEF Idle, Frames, FrameRecords, Steps, ConvSteps, OfferSteps, PriceSteps,
    UserSteps, MissionSteps, AcceptSteps, CodeSteps, PackageSteps,
      CancelSteps

\* A request begins with a frame of its type.
LEMMA BeginFrame ==
  ASSUME TypeOK, NEW s \in Slots, NEW f \in Frames, Begin(s, f)
  PROVE  req' \in [Slots -> Frames]
BY DEF Begin, TypeOK

\* An answer empties the slot.
LEMMA ReplyFrame ==
  ASSUME TypeOK, NEW s \in Slots, Reply(s)
  PROVE  req' \in [Slots -> Frames]
BY IdleIsFrame DEF Reply, TypeOK

\* An error answer leaves every table as it was.
LEMMA RefuseType ==
  ASSUME TypeOK, NEW s \in Slots, Refuse(s)
  PROVE  TypeOK'
<1>1. req' \in [Slots -> Frames]
  BY ReplyFrame DEF Refuse
<1> QED
  BY <1>1 DEF Refuse, db, TypeOK

\* A step may carry a status and an advertisement to the next.
LEMMA CarriedStatus ==
  ASSUME NEW g \in FrameRecords, NEW step \in Steps, NEW a \in Ads,
         NEW status \in MissionStatus
  PROVE  [g EXCEPT !.at = step, !.ad = a, !.status = status] \in FrameRecords
BY DEF FrameRecords

\* The code that was compared goes on with the frame.
LEMMA CarriedCode ==
  ASSUME NEW g \in FrameRecords, NEW step \in Steps, NEW code \in Nat
  PROVE  [g EXCEPT !.at = step, !.code = code] \in FrameRecords
BY DEF FrameRecords

\* A later step that uses no operand the current one does not use may come.
LEMMA GotoFrame ==
  ASSUME TypeOK, NEW s \in Slots, NEW step \in Steps, Goto(s, step),
         step \in ConvSteps => req[s].at \in ConvSteps,
         step \in OfferSteps => req[s].at \in OfferSteps,
         step \in PriceSteps => req[s].at \in PriceSteps,
         step \in UserSteps => req[s].at \in UserSteps,
         step \in MissionSteps => req[s].at \in MissionSteps,
         step \in PackageSteps => req[s].at \in PackageSteps,
         step \in CodeSteps => req[s].at \in CodeSteps,
         step \in CancelSteps => req[s].at \in CancelSteps,
         step # "mission_insert",
         step \notin {"resolve_commit", "resolve_effects"}
           \/ req[s].at = "resolve_commit"
  PROVE  req' \in [Slots -> Frames]
<1>1. [req[s] EXCEPT !.at = step] \in Frames
  BY DEF TypeOK, Frames, FrameRecords
<1> QED
  BY <1>1 DEF Goto, TypeOK

----------------------------------------------------------------------------
(* Advertisements *)

\* A mission that is created is a row: PENDING, without a carrier.
LEMMA NewMissionRow ==
  ASSUME NEW a \in Ads, NEW u \in Users, NEW ps \in SUBSET Packages
  PROVE  Mission("PENDING", a, u, ps) \in MissionRows
BY NoneAssumption DEF Mission, MissionRows, MissionStatus

\* PublishAd keeps the types.
LEMMA PublishAdType ==
  ASSUME TypeOK, NEW a \in Ads, PublishAd(a)
  PROVE  TypeOK'
<1>1. ad' \in [Ads -> AdStatus \union NoRow]
  BY DEF PublishAd, TypeOK, AdStatus
<1>2. mission' \in [Missions -> MissionRows]
  <2>1. CASE AdType[a] = "DELIVERY"
    BY <2>1 DEF PublishAd, TypeOK
  <2>2. CASE AdType[a] = "SHIPPING"
    <3>1. PICK m \in Missions, ps \in SUBSET Owned(AdAuthor[a]) :
            mission' = [mission EXCEPT ![m] =
                          Mission("PENDING", a, AdAuthor[a], ps)]
      BY <2>2 DEF PublishAd
    <3>2. Mission("PENDING", a, AdAuthor[a], ps) \in MissionRows
      BY NewMissionRow, IdsAssumption DEF Owned
    <3> QED
      BY <3>1, <3>2 DEF TypeOK
  <2> QED
    BY <2>1, <2>2, IdsAssumption
<1> QED
  BY <1>1, <1>2 DEF PublishAd, TypeOK

\* Deleting missions leaves rows of the right types.
LEMMA EraseMissionsType ==
  ASSUME TypeOK, NEW D \in SUBSET Missions, EraseMissions(D)
  PROVE  /\ mission' \in [Missions -> MissionRows]
         /\ conv' \in [Convs -> ConvRows]
         /\ offer' \in [Offers -> OfferRows]
         /\ dispute' \in [Missions -> {"absent", "OPEN", "RESOLVED"}]
         /\ proof' \in [Missions \X ProofKinds -> ProofRows]
<1>1. mission' \in [Missions -> MissionRows]
  BY DEF EraseMissions, TypeOK, NoMission, Mission, MissionRows, NoRow,
         MissionStatus
<1>2. conv' \in [Convs -> ConvRows]
  BY DEF EraseMissions, TypeOK, ConvRows
<1>3. offer' \in [Offers -> OfferRows]
  BY DEF EraseMissions, TypeOK, OfferRows
<1>4. dispute' \in [Missions -> {"absent", "OPEN", "RESOLVED"}]
  BY DEF EraseMissions, TypeOK
<1>5. proof' \in [Missions \X ProofKinds -> ProofRows]
  BY DEF EraseMissions, TypeOK, ProofRows, NoProof
<1> QED
  BY <1>1, <1>2, <1>3, <1>4, <1>5

\* DeleteAd keeps the types.
LEMMA DeleteAdType ==
  ASSUME TypeOK, NEW a \in Ads, DeleteAd(a)
  PROVE  TypeOK'
<1>1. ad' \in [Ads -> AdStatus \union NoRow]
  BY DEF DeleteAd, TypeOK, NoRow
<1>2. EraseMissions({m \in Missions : mission[m].ad = a})
  BY DEF DeleteAd
<1> QED
  BY <1>1, <1>2, EraseMissionsType DEF DeleteAd, TypeOK

----------------------------------------------------------------------------
(* Conversations *)

\* OpenConversation keeps the types.
LEMMA OpenConversationType ==
  ASSUME TypeOK, NEW s \in Slots, NEW c \in Convs, OpenConversation(s, c)
  PROVE  TypeOK'
<1>1. PICK m \in Missions \union {None} :
        Begin(s, [Idle EXCEPT !.at = "dossier_write", !.conv = c,
                              !.mission = m])
  BY DEF OpenConversation
<1>2. [Idle EXCEPT !.at = "dossier_write", !.conv = c, !.mission = m]
        \in Frames
  BY NoneAssumption
  DEF Idle, Frames, FrameRecords, Steps, ConvSteps, OfferSteps, PriceSteps,
      UserSteps, MissionSteps, AcceptSteps, CodeSteps, PackageSteps,
      CancelSteps
<1>3. req' \in [Slots -> Frames]
  BY <1>1, <1>2, BeginFrame
<1> QED
  BY <1>3 DEF OpenConversation, TypeOK, db

\* A mission that is attached to a conversation is one of the table.
LEMMA AttachType ==
  ASSUME TypeOK, NEW c, NEW m \in Missions, Attach(c, m)
  PROVE  conv' \in [Convs -> ConvRows]
BY DEF Attach, TypeOK, ConvRows, ConvStatus

\* WriteConversation keeps the types.
LEMMA WriteConversationType ==
  ASSUME TypeOK, NEW s \in Slots, WriteConversation(s)
  PROVE  TypeOK'
<1> DEFINE c == req[s].conv
           a == req[s].conv[1]
<1>1. req' \in [Slots -> Frames]
  BY ReplyFrame DEF WriteConversation
<1>2. /\ c \in Convs
      /\ req[s].mission \in Missions \union {None}
  BY DEF WriteConversation, At, TypeOK, Frames, FrameRecords, ConvSteps
<1>3. a \in Ads /\ Shipper(c) \in Users
  BY <1>2, IdsAssumption DEF Convs, Shipper
<1>4. /\ mission' \in [Missions -> MissionRows]
      /\ conv' \in [Convs -> ConvRows]
  <2>1. CASE UNCHANGED <<mission, conv>>
    BY <2>1 DEF TypeOK
  <2>2. CASE /\ req[s].mission # None
             /\ UNCHANGED mission
             /\ UNCHANGED conv \/ Attach(c, req[s].mission)
    BY <2>2, <1>2, AttachType DEF TypeOK
  <2>3. CASE \E m \in Missions, ps \in SUBSET Owned(Shipper(c)) :
               /\ mission' = [mission EXCEPT ![m] =
                                Mission("PENDING", a, Shipper(c), ps)]
               /\ Attach(c, m)
    <3>1. PICK m \in Missions, ps \in SUBSET Owned(Shipper(c)) :
            /\ mission' = [mission EXCEPT ![m] =
                             Mission("PENDING", a, Shipper(c), ps)]
            /\ Attach(c, m)
      BY <2>3
    <3>2. Mission("PENDING", a, Shipper(c), ps) \in MissionRows
      BY NewMissionRow, <1>3 DEF Owned
    <3> QED
      BY <3>1, <3>2, AttachType DEF TypeOK
  <2> QED
    BY <2>1, <2>2, <2>3 DEF WriteConversation
<1> QED
  BY <1>1, <1>4 DEF WriteConversation, TypeOK

\* RemoveConversation keeps the types.
LEMMA RemoveConversationType ==
  ASSUME TypeOK, NEW s \in Slots, NEW c \in Convs, NEW u \in Users,
         RemoveConversation(s, c, u)
  PROVE  TypeOK'
<1>1. PICK step \in {"conv_hide", "conv_retain", "conv_delete"} :
        Begin(s, [Idle EXCEPT !.at = step, !.conv = c, !.who = u])
  BY DEF RemoveConversation
<1>2. [Idle EXCEPT !.at = step, !.conv = c, !.who = u] \in Frames
  BY NoneAssumption
  DEF Idle, Frames, FrameRecords, Steps, ConvSteps, OfferSteps, PriceSteps,
      UserSteps, MissionSteps, AcceptSteps, CodeSteps, PackageSteps,
      CancelSteps
<1>3. req' \in [Slots -> Frames]
  BY <1>1, <1>2, BeginFrame
<1> QED
  BY <1>3 DEF RemoveConversation, TypeOK, db

\* Hiding a conversation from more users leaves a row.
LEMMA HiddenConvRow ==
  ASSUME NEW r \in ConvRows, NEW h \in SUBSET Users
  PROVE  [r EXCEPT !.hidden = h] \in ConvRows
BY DEF ConvRows

\* HideConversation keeps the types.
LEMMA HideConversationType ==
  ASSUME TypeOK, NEW s \in Slots, HideConversation(s)
  PROVE  TypeOK'
<1>1. CASE Refuse(s)
  BY <1>1, RefuseType
<1>2. CASE ~Refuse(s)
  <2>1. req' \in [Slots -> Frames]
    BY <1>2, ReplyFrame DEF HideConversation
  <2>2. req[s].who \in Users
    BY DEF HideConversation, At, TypeOK, Frames, FrameRecords, UserSteps
  <2> DEFINE c == req[s].conv
             hidden == [conv[c] EXCEPT !.hidden = @ \union {req[s].who}]
  <2>3. c \in Convs
    BY DEF HideConversation, At, TypeOK, Frames, FrameRecords, ConvSteps
  <2>4. hidden \in ConvRows
    <3>1. conv[c] \in ConvRows
      BY <2>3 DEF TypeOK
    <3>2. conv[c].hidden \union {req[s].who} \in SUBSET Users
      BY <3>1, <2>2 DEF ConvRows
    <3> QED
      BY <3>1, <3>2, HiddenConvRow
  <2>5. [hidden EXCEPT !.status = "DELETED"] \in ConvRows
    BY <2>4 DEF ConvRows, ConvStatus
  <2>6. conv' = [conv EXCEPT ![c] =
                  IF At(s, "conv_retain")
                  THEN [hidden EXCEPT !.status = "DELETED"] ELSE hidden]
    BY <1>2 DEF HideConversation
  <2>7. conv' \in [Convs -> ConvRows]
    BY <2>4, <2>5, <2>6 DEF TypeOK
  <2> QED
    BY <1>2, <2>1, <2>7 DEF HideConversation, TypeOK
<1> QED
  BY <1>1, <1>2

\* An erased offer is a row.
LEMMA ErasedOfferRow == [NoOffer EXCEPT !.status = "erased"] \in OfferRows
BY DEF NoOffer, OfferRows, OfferStatus, NoRow

\* EraseConversation keeps the types.
LEMMA EraseConversationType ==
  ASSUME TypeOK, NEW s \in Slots, EraseConversation(s)
  PROVE  TypeOK'
<1>1. CASE Refuse(s)
  BY <1>1, RefuseType
<1>2. CASE ~Refuse(s)
  <2>1. req' \in [Slots -> Frames]
    BY <1>2, ReplyFrame DEF EraseConversation
  <2>2. conv' \in [Convs -> ConvRows]
    BY <1>2 DEF EraseConversation, TypeOK, ConvRows, NoConv, NoRow
  <2>3. offer' \in [Offers -> OfferRows]
    BY <1>2, ErasedOfferRow DEF EraseConversation, TypeOK
  <2>4. UNCHANGED <<ad, mission, payment, dispute, proof, pkg, kyc>>
    BY <1>2 DEF EraseConversation
  <2> QED
    BY <2>1, <2>2, <2>3, <2>4 DEF TypeOK
<1> QED
  BY <1>1, <1>2

----------------------------------------------------------------------------
(* Messages *)

\* SendOffer keeps the types.
LEMMA SendOfferType ==
  ASSUME TypeOK, NEW s \in Slots, NEW c \in Convs, NEW u \in Users,
         NEW p \in Prices, SendOffer(s, c, u, p)
  PROVE  TypeOK'
<1> DEFINE f == [Idle EXCEPT !.at = "offer_insert", !.conv = c, !.who = u,
                           !.price = p]
<1>1. f \in Frames
  BY NoneAssumption
  DEF Idle, Frames, FrameRecords, Steps, ConvSteps,
      OfferSteps, PriceSteps, UserSteps, MissionSteps, AcceptSteps,
      CodeSteps, PackageSteps, CancelSteps
<1>2. req' \in [Slots -> Frames]
  BY <1>1, BeginFrame DEF SendOffer
<1> QED
  BY <1>2 DEF SendOffer, TypeOK, db

\* InsertOffer keeps the types.
LEMMA InsertOfferType ==
  ASSUME TypeOK, NEW s \in Slots, InsertOffer(s)
  PROVE  TypeOK'
<1>1. CASE Refuse(s)
  BY <1>1, RefuseType
<1>2. CASE ~Refuse(s)
  <2>1. /\ req[s].conv \in Convs /\ req[s].who \in Users
        /\ req[s].price \in Prices
    BY DEF InsertOffer, At, TypeOK, Frames, FrameRecords, ConvSteps,
           PriceSteps, UserSteps
  <2>2. PICK o \in Offers :
          offer' = [offer EXCEPT ![o] =
            [status |-> "PENDING", conv |-> req[s].conv,
             author |-> req[s].who, price |-> req[s].price,
             mission |-> None]]
    BY <1>2 DEF InsertOffer
  <2>3. offer' \in [Offers -> OfferRows]
    BY <2>1, <2>2, NoneAssumption DEF TypeOK, OfferRows, OfferStatus
  <2>4. req' \in [Slots -> Frames]
    BY <1>2, GotoFrame
    DEF InsertOffer, At, Steps, ConvSteps, OfferSteps, PriceSteps, UserSteps,
        MissionSteps, AcceptSteps, CodeSteps, PackageSteps, CancelSteps
  <2> QED
    BY <1>2, <2>1, <2>2, <2>3, <2>4 DEF InsertOffer, TypeOK
<1> QED
  BY <1>1, <1>2

\* WakeConversation keeps the types.
LEMMA WakeConversationType ==
  ASSUME TypeOK, NEW s \in Slots, WakeConversation(s)
  PROVE  TypeOK'
<1>1. CASE Refuse(s)
  BY <1>1, RefuseType
<1>2. CASE ~Refuse(s)
  <2>1. conv' \in [Convs -> ConvRows]
    <3>1. \A r \in ConvRows : [r EXCEPT !.hidden = {}] \in ConvRows
      BY HiddenConvRow
    <3> QED
      BY <1>2, <3>1 DEF WakeConversation, TypeOK
  <2>2. req' \in [Slots -> Frames]
    <3>1. Goto(s, "offer_revive") /\ req[s].at = "offer_wake"
      BY <1>2 DEF WakeConversation, At
    <3> QED
      BY <3>1, GotoFrame
      DEF Steps, ConvSteps, OfferSteps, PriceSteps, UserSteps, MissionSteps,
          AcceptSteps, CodeSteps, PackageSteps,
      CancelSteps
  <2>3. UNCHANGED <<ad, mission, offer, payment, dispute, proof, pkg, kyc>>
    BY <1>2 DEF WakeConversation
  <2> QED
    BY <2>1, <2>2, <2>3 DEF TypeOK
<1> QED
  BY <1>1, <1>2

\* ReviveConversation keeps the types.
LEMMA ReviveConversationType ==
  ASSUME TypeOK, NEW s \in Slots, ReviveConversation(s)
  PROVE  TypeOK'
<1>1. req' \in [Slots -> Frames]
  BY ReplyFrame DEF ReviveConversation
<1>2. conv' \in [Convs -> ConvRows]
  <2>1. \A r \in ConvRows : [r EXCEPT !.status = "ACTIVE"] \in ConvRows
    BY DEF ConvRows, ConvStatus
  <2>2. conv \in [Convs -> ConvRows]
    BY DEF TypeOK
  <2> QED
    BY <2>1, <2>2 DEF ReviveConversation
<1> QED
  BY <1>1, <1>2 DEF ReviveConversation, TypeOK

\* EditOffer keeps the types.
LEMMA EditOfferType ==
  ASSUME TypeOK, NEW s \in Slots, NEW o \in Offers, NEW p \in Prices,
         EditOffer(s, o, p)
  PROVE  TypeOK'
<1> DEFINE f == [Idle EXCEPT !.at = "offer_edit", !.offer = o, !.price = p]
<1>1. f \in Frames
  BY NoneAssumption
  DEF Idle, Frames, FrameRecords, Steps, ConvSteps,
      OfferSteps, PriceSteps, UserSteps, MissionSteps, AcceptSteps,
      CodeSteps, PackageSteps, CancelSteps
<1>2. req' \in [Slots -> Frames]
  BY <1>1, BeginFrame DEF EditOffer
<1> QED
  BY <1>2 DEF EditOffer, TypeOK, db

\* WriteOfferEdit keeps the types.
LEMMA WriteOfferEditType ==
  ASSUME TypeOK, NEW s \in Slots, WriteOfferEdit(s)
  PROVE  TypeOK'
<1>1. CASE Refuse(s)
  BY <1>1, RefuseType
<1>2. CASE ~Refuse(s)
  <2>1. req[s].price \in Prices
    BY DEF WriteOfferEdit, At, TypeOK, Frames, FrameRecords, PriceSteps
  <2>2. offer' \in [Offers -> OfferRows]
    <3>1. \A r \in OfferRows : [r EXCEPT !.price = req[s].price] \in OfferRows
      BY <2>1, NoneAssumption DEF OfferRows
    <3> QED
      BY <1>2, <3>1 DEF WriteOfferEdit, TypeOK
  <2>3. req' \in [Slots -> Frames]
    BY <1>2, ReplyFrame DEF WriteOfferEdit
  <2> QED
    BY <1>2, <2>1, <2>2, <2>3 DEF WriteOfferEdit, TypeOK
<1> QED
  BY <1>1, <1>2

\* DeleteMessage keeps the types.
LEMMA DeleteMessageType ==
  ASSUME TypeOK, NEW o \in Offers, DeleteMessage(o)
  PROVE  TypeOK'
<1>1. offer' \in [Offers -> OfferRows]
  BY ErasedOfferRow DEF DeleteMessage, TypeOK
<1> QED
  BY <1>1 DEF DeleteMessage, TypeOK

----------------------------------------------------------------------------
(* Offers *)

\* AcceptOffer keeps the types.
LEMMA AcceptOfferType ==
  ASSUME TypeOK, NEW s \in Slots, NEW o \in Offers, NEW u \in Users,
         AcceptOffer(s, o, u)
  PROVE  TypeOK'
<1> DEFINE c == offer[o].conv
           f == [Idle EXCEPT !.at = "accept_kyc", !.offer = o, !.conv = c,
                             !.mission = conv[c].mission,
                             !.price = offer[o].price]
<1>1. c \in Convs /\ offer[o].price \in Prices
  BY DEF AcceptOffer, TypeOK, OfferRows, OfferStatus
<1>2. conv[c].mission \in Missions
  BY <1>1 DEF AcceptOffer, TypeOK, ConvRows
<1>3. f \in Frames
  BY <1>1, <1>2, NoneAssumption
  DEF Idle, Frames, FrameRecords, Steps, ConvSteps, OfferSteps, PriceSteps,
      UserSteps, MissionSteps, AcceptSteps, CodeSteps, PackageSteps,
      CancelSteps
<1>4. req' \in [Slots -> Frames]
  BY <1>3, BeginFrame DEF AcceptOffer
<1> QED
  BY <1>4 DEF AcceptOffer, TypeOK, db

\* CheckCarrierKyc keeps the types.
LEMMA CheckCarrierKycType ==
  ASSUME TypeOK, NEW s \in Slots, CheckCarrierKyc(s)
  PROVE  TypeOK'
<1>1. req' \in [Slots -> Frames]
  BY GotoFrame, ReplyFrame
  DEF CheckCarrierKyc, At, Steps, ConvSteps, OfferSteps, PriceSteps,
      UserSteps, MissionSteps, AcceptSteps, CodeSteps, PackageSteps,
      CancelSteps
<1> QED
  BY <1>1 DEF CheckCarrierKyc, TypeOK, db

\* ReadMissionToAccept keeps the types.
LEMMA ReadMissionToAcceptType ==
  ASSUME TypeOK, NEW s \in Slots, ReadMissionToAccept(s)
  PROVE  TypeOK'
<1>1. req' \in [Slots -> Frames]
  BY GotoFrame, ReplyFrame
  DEF ReadMissionToAccept, At, Steps, ConvSteps, OfferSteps, PriceSteps,
      UserSteps, MissionSteps, AcceptSteps, CodeSteps, PackageSteps,
      CancelSteps
<1> QED
  BY <1>1 DEF ReadMissionToAccept, TypeOK, db

\* Changing the status of an offer that exists leaves a row.
LEMMA OfferStatusRow ==
  ASSUME NEW r \in OfferRows, r.status \in OfferStatus,
         NEW status \in OfferStatus
  PROVE  [r EXCEPT !.status = status] \in OfferRows
BY DEF OfferRows

\* Changing the status of a mission that exists leaves a row.
LEMMA MissionStatusRow ==
  ASSUME NEW r \in MissionRows, r.status \in MissionStatus,
         NEW status \in MissionStatus
  PROVE  [r EXCEPT !.status = status] \in MissionRows
BY DEF MissionRows

\* CommitAcceptance keeps the types.
LEMMA CommitAcceptanceType ==
  ASSUME TypeOK, NEW s \in Slots, CommitAcceptance(s)
  PROVE  TypeOK'
<1> DEFINE f == req[s]
           m == req[s].mission
           u == Carrier(req[s].conv)
<1>1. CASE Refuse(s)
  BY <1>1, RefuseType
<1>2. CASE ~Refuse(s)
  <2>1. /\ m \in Missions /\ f.conv \in Convs /\ f.offer \in Offers
        /\ f.price \in Prices
    BY DEF CommitAcceptance, At, TypeOK, Frames, FrameRecords, ConvSteps,
           OfferSteps, PriceSteps, MissionSteps, AcceptSteps
  <2>2. u \in Users
    BY <2>1, IdsAssumption DEF Convs, Carrier
  <2>3. CanEngage(m) /\ OfferExists(f.offer)
    BY <1>2 DEF CommitAcceptance
  <2>4. mission' \in [Missions -> MissionRows]
    <3>1. mission' = [x \in Missions |-> EngagedMission(x, m, u, f.price)]
      BY <1>2 DEF CommitAcceptance
    <3>2. ASSUME NEW x \in Missions
          PROVE  EngagedMission(x, m, u, f.price) \in MissionRows
      <4>1. mission[x] \in MissionRows /\ mission[m] \in MissionRows
        BY <2>1 DEF TypeOK
      <4>2. CASE x = m
        BY <4>1, <4>2, <2>1, <2>2, <2>3
        DEF EngagedMission, CanEngage, MissionRows, MissionStatus
      <4>3. CASE x # m
        BY <4>1, <4>3, MissionStatusRow DEF EngagedMission, MissionStatus
      <4> QED
        BY <4>2, <4>3
    <3> QED
      BY <3>1, <3>2
  <2>5. ad' \in [Ads -> AdStatus \union NoRow]
    BY <1>2 DEF CommitAcceptance, TypeOK, AdStatus
  <2>6. offer' \in [Offers -> OfferRows]
    <3>1. offer' = [x \in Offers |-> SettledOffer(x, f.offer, m)]
      BY <1>2 DEF CommitAcceptance
    <3>2. ASSUME NEW x \in Offers
          PROVE  SettledOffer(x, f.offer, m) \in OfferRows
      <4>1. offer[x] \in OfferRows
        BY DEF TypeOK
      <4>2. CASE x = f.offer
        BY <4>1, <4>2, <2>1, <2>3
        DEF SettledOffer, OfferExists, OfferRows, OfferStatus, NoRow
      <4>3. CASE x # f.offer
        BY <4>1, <4>3, OfferStatusRow DEF SettledOffer, OfferStatus
      <4> QED
        BY <4>2, <4>3
    <3> QED
      BY <3>1, <3>2
  <2>7. payment' \in [Missions -> PaymentRows]
    <3>1. [status |-> "PENDING", amount |-> f.price] \in PaymentRows
      BY <2>1, NoneAssumption DEF PaymentRows, PaymentStatus
    <3> QED
      BY <1>2, <3>1 DEF CommitAcceptance, TypeOK
  <2>8. conv' \in [Convs -> ConvRows]
    <3>1. \A x \in Convs : ClosedConv(x, f.conv) \in ConvRows
      BY DEF ClosedConv, TypeOK, ConvRows, ConvStatus
    <3> QED
      BY <1>2, <3>1 DEF CommitAcceptance
  <2>9. req' \in [Slots -> Frames]
    BY <1>2, ReplyFrame DEF CommitAcceptance
  <2> QED
    BY <1>2, <2>4, <2>5, <2>6, <2>7, <2>8, <2>9
    DEF CommitAcceptance, TypeOK
<1> QED
  BY <1>1, <1>2

\* RejectOffer keeps the types.
LEMMA RejectOfferType ==
  ASSUME TypeOK, NEW s \in Slots, NEW o \in Offers, NEW u \in Users,
         RejectOffer(s, o, u)
  PROVE  TypeOK'
<1> DEFINE f == [Idle EXCEPT !.at = "offer_reject", !.offer = o]
<1>1. f \in Frames
  BY NoneAssumption
  DEF Idle, Frames, FrameRecords, Steps, ConvSteps,
      OfferSteps, PriceSteps, UserSteps, MissionSteps, AcceptSteps,
      CodeSteps, PackageSteps, CancelSteps
<1>2. req' \in [Slots -> Frames]
  BY <1>1, BeginFrame DEF RejectOffer
<1> QED
  BY <1>2 DEF RejectOffer, TypeOK, db

\* WriteRejection keeps the types.
LEMMA WriteRejectionType ==
  ASSUME TypeOK, NEW s \in Slots, WriteRejection(s)
  PROVE  TypeOK'
<1>1. CASE Refuse(s)
  BY <1>1, RefuseType
<1>2. CASE ~Refuse(s)
  <2>1. req[s].offer \in Offers
    BY DEF WriteRejection, At, TypeOK, Frames, FrameRecords, OfferSteps
  <2>2. offer' \in [Offers -> OfferRows]
    <3>1. /\ offer[req[s].offer].status = "PENDING"
          /\ offer' = [offer EXCEPT ![req[s].offer] =
                         [offer[req[s].offer] EXCEPT !.status = "REJECTED"]]
      BY <1>2, <2>1 DEF WriteRejection, TypeOK
    <3>2. [offer[req[s].offer] EXCEPT !.status = "REJECTED"] \in OfferRows
      BY <2>1, <3>1, OfferStatusRow DEF TypeOK, OfferStatus
    <3> QED
      BY <3>1, <3>2 DEF TypeOK
  <2>3. req' \in [Slots -> Frames]
    BY <1>2, ReplyFrame DEF WriteRejection
  <2>4. UNCHANGED <<ad, mission, conv, payment, dispute, proof, pkg, kyc>>
    BY <1>2 DEF WriteRejection
  <2> QED
    BY <2>2, <2>3, <2>4 DEF TypeOK
<1> QED
  BY <1>1, <1>2

----------------------------------------------------------------------------
(* Missions *)

\* CreateMission keeps the types.
LEMMA CreateMissionType ==
  ASSUME TypeOK, NEW s \in Slots, NEW a \in Ads, NEW u \in Users,
         CreateMission(s, a, u)
  PROVE  TypeOK'
<1> DEFINE f == [Idle EXCEPT !.at = "mission_insert", !.ad = a, !.who = u]
<1>1. f \in Frames
  BY NoneAssumption
  DEF Idle, Frames, FrameRecords, Steps, ConvSteps,
      OfferSteps, PriceSteps, UserSteps, MissionSteps, AcceptSteps,
      CodeSteps, PackageSteps, CancelSteps
<1>2. req' \in [Slots -> Frames]
  BY <1>1, BeginFrame DEF CreateMission
<1> QED
  BY <1>2 DEF CreateMission, TypeOK, db

\* InsertMission keeps the types.
LEMMA InsertMissionType ==
  ASSUME TypeOK, NEW s \in Slots, InsertMission(s)
  PROVE  TypeOK'
<1>1. CASE Refuse(s)
  BY <1>1, RefuseType
<1>2. CASE ~Refuse(s)
  <2>1. req[s].ad \in Ads /\ req[s].who \in Users
    BY DEF InsertMission, At, TypeOK, Frames, FrameRecords, UserSteps
  <2>2. PICK m \in Missions, ps \in SUBSET Owned(req[s].who) :
          mission' = [mission EXCEPT ![m] =
            Mission("PENDING", req[s].ad, req[s].who, ps)]
    BY <1>2 DEF InsertMission
  <2>3. Mission("PENDING", req[s].ad, req[s].who, ps) \in MissionRows
    BY <2>1, NewMissionRow DEF Owned
  <2>4. mission' \in [Missions -> MissionRows]
    BY <2>2, <2>3 DEF TypeOK
  <2>5. req' \in [Slots -> Frames]
    BY <1>2, ReplyFrame DEF InsertMission
  <2> QED
    BY <1>2, <2>1, <2>2, <2>3, <2>4, <2>5 DEF InsertMission, TypeOK
<1> QED
  BY <1>1, <1>2

\* ChangePackages keeps the types.
LEMMA ChangePackagesType ==
  ASSUME TypeOK, NEW s \in Slots, NEW m \in Missions, NEW p \in Packages,
         NEW step \in {"package_add", "package_remove"},
         ChangePackages(s, m, p, step)
  PROVE  TypeOK'
<1> DEFINE f == [Idle EXCEPT !.at = step, !.mission = m, !.pkg = p]
<1>1. f \in Frames
  BY NoneAssumption
  DEF Idle, Frames, FrameRecords, Steps, ConvSteps, OfferSteps, PriceSteps,
      UserSteps, MissionSteps, AcceptSteps, CodeSteps, PackageSteps,
      CancelSteps
<1>2. req' \in [Slots -> Frames]
  BY <1>1, BeginFrame DEF ChangePackages
<1> QED
  BY <1>2 DEF ChangePackages, TypeOK, db

\* WritePackages keeps the types.
LEMMA WritePackagesType ==
  ASSUME TypeOK, NEW s \in Slots, WritePackages(s)
  PROVE  TypeOK'
<1>1. CASE Refuse(s)
  BY <1>1, RefuseType
<1>2. CASE ~Refuse(s)
  <2>1. req[s].mission \in Missions /\ req[s].pkg \in Packages
    BY DEF WritePackages, At, TypeOK, Frames, FrameRecords, MissionSteps,
           PackageSteps
  <2>2. \A r \in MissionRows :
          /\ [r EXCEPT !.packages = @ \union {req[s].pkg}] \in MissionRows
          /\ [r EXCEPT !.packages = @ \ {req[s].pkg}] \in MissionRows
    BY <2>1 DEF MissionRows
  <2>3. mission' = [mission EXCEPT ![req[s].mission] =
                     [mission[req[s].mission] EXCEPT
                        !.packages = @ \union {req[s].pkg}]]
          \/ mission' = [mission EXCEPT ![req[s].mission] =
                     [mission[req[s].mission] EXCEPT
                        !.packages = @ \ {req[s].pkg}]]
    BY <1>2, <2>1 DEF WritePackages, TypeOK
  <2>4. mission' \in [Missions -> MissionRows]
    <3>1. mission \in [Missions -> MissionRows]
      BY DEF TypeOK
    <3>2. PICK r \in MissionRows :
            mission' = [mission EXCEPT ![req[s].mission] = r]
      <4>1. mission[req[s].mission] \in MissionRows
        BY <2>1, <3>1
      <4> QED
        BY <2>2, <2>3, <4>1
    <3> QED
      BY <3>1, <3>2
  <2>5. req' \in [Slots -> Frames]
    BY <1>2, ReplyFrame DEF WritePackages
  <2> QED
    BY <1>2, <2>1, <2>2, <2>3, <2>4, <2>5 DEF WritePackages, TypeOK
<1> QED
  BY <1>1, <1>2

\* DeleteMission keeps the types.
LEMMA DeleteMissionType ==
  ASSUME TypeOK, NEW s \in Slots, NEW m \in Missions, DeleteMission(s, m)
  PROVE  TypeOK'
<1> DEFINE f == [Idle EXCEPT !.at = "mission_delete", !.mission = m]
<1>1. f \in Frames
  BY NoneAssumption
  DEF Idle, Frames, FrameRecords, Steps, ConvSteps,
      OfferSteps, PriceSteps, UserSteps, MissionSteps, AcceptSteps,
      CodeSteps, PackageSteps, CancelSteps
<1>2. req' \in [Slots -> Frames]
  BY <1>1, BeginFrame DEF DeleteMission
<1> QED
  BY <1>2 DEF DeleteMission, TypeOK, db

\* EraseMission keeps the types.
LEMMA EraseMissionType ==
  ASSUME TypeOK, NEW s \in Slots, EraseMission(s)
  PROVE  TypeOK'
<1>1. CASE Refuse(s)
  BY <1>1, RefuseType
<1>2. CASE ~Refuse(s)
  <2>1. req[s].mission \in Missions
    BY DEF EraseMission, At, TypeOK, Frames, FrameRecords, MissionSteps
  <2>2. EraseMissions({req[s].mission})
    BY <1>2 DEF EraseMission
  <2>3. req' \in [Slots -> Frames]
    BY <1>2, ReplyFrame DEF EraseMission
  <2> QED
    BY <1>2, <2>1, <2>2, <2>3, EraseMissionsType DEF EraseMission, TypeOK
<1> QED
  BY <1>1, <1>2

\* A mission that exists has a status of the enumeration.
LEMMA ExistingStatus ==
  ASSUME TypeOK, NEW m \in Missions, MissionExists(m)
  PROVE  mission[m].status \in MissionStatus
BY DEF TypeOK, MissionRows, MissionExists

\* CancelMission keeps the types.
LEMMA CancelMissionType ==
  ASSUME TypeOK, NEW s \in Slots, NEW m \in Missions, CancelMission(s, m)
  PROVE  TypeOK'
<1> DEFINE f == [Idle EXCEPT !.at = "cancel_write", !.mission = m,
                           !.status = mission[m].status]
<1>1. f \in Frames
  <2>1. mission[m].status \in MissionStatus
    BY DEF CancelMission, Allowed, MissionStatus
  <2> QED
    BY <2>1, NoneAssumption
    DEF Idle, Frames, FrameRecords, Steps, ConvSteps, OfferSteps, PriceSteps,
        UserSteps, MissionSteps, AcceptSteps, CodeSteps, PackageSteps,
        CancelSteps
<1>2. req' \in [Slots -> Frames]
  BY <1>1, BeginFrame DEF CancelMission
<1> QED
  BY <1>2 DEF CancelMission, TypeOK, db

\* WriteCancellation keeps the types.
LEMMA WriteCancellationType ==
  ASSUME TypeOK, NEW s \in Slots, WriteCancellation(s)
  PROVE  TypeOK'
<1>1. CASE Refuse(s)
  BY <1>1, RefuseType
<1>2. CASE ~Refuse(s)
  <2>1. req[s].mission \in Missions
        /\ req[s].status \in MissionStatus
    BY DEF WriteCancellation, At, TypeOK, Frames, FrameRecords, MissionSteps,
           CancelSteps
  <2>2. mission[req[s].mission].status \in MissionStatus
    BY <1>2, <2>1 DEF WriteCancellation
  <2>3. mission' \in [Missions -> MissionRows]
    <3>1. mission' = [mission EXCEPT ![req[s].mission] =
                       [mission[req[s].mission] EXCEPT !.status = "CANCELLED"]]
      BY <1>2, <2>1 DEF WriteCancellation, TypeOK
    <3>2. [mission[req[s].mission] EXCEPT !.status = "CANCELLED"]
            \in MissionRows
      BY <2>1, <2>2, MissionStatusRow DEF TypeOK, MissionStatus
    <3> QED
      BY <3>1, <3>2 DEF TypeOK
  <2>4. req' \in [Slots -> Frames]
    BY <1>2, GotoFrame
    DEF WriteCancellation, At, Steps, ConvSteps, OfferSteps, PriceSteps,
        UserSteps, MissionSteps, AcceptSteps, CodeSteps, PackageSteps,
        CancelSteps
  <2>5. UNCHANGED <<ad, conv, offer, payment, dispute, proof, pkg, kyc>>
    BY <1>2 DEF WriteCancellation
  <2> QED
    BY <2>3, <2>4, <2>5 DEF TypeOK
<1> QED
  BY <1>1, <1>2

\* RereadMission keeps the types.
LEMMA RereadMissionType ==
  ASSUME TypeOK, NEW s \in Slots, RereadMission(s)
  PROVE  TypeOK'
<1> DEFINE m == req[s].mission
           f == [req[s] EXCEPT !.at = "cancel_effects", !.ad = mission[m].ad,
                               !.status = mission[m].status]
<1>1. CASE MissionExists(m)
  <2>1. req[s] \in Frames /\ req[s].at = "cancel_reread"
    BY DEF RereadMission, At, TypeOK
  <2>2. m \in Missions
    BY <2>1 DEF Frames, FrameRecords, MissionSteps
  <2>3. mission[m].status \in MissionStatus
    BY <1>1, <2>2, ExistingStatus
  <2>4. mission[m].ad \in Ads
    BY <2>2, <2>3 DEF TypeOK, MissionRows
  <2>5. f \in Frames
    <3>1. f \in FrameRecords
      <4>1. req[s] \in FrameRecords /\ "cancel_effects" \in Steps
        BY <2>1 DEF Frames, Steps
      <4> QED
        BY <4>1, <2>3, <2>4, CarriedStatus
    <3>2. /\ f.at = "cancel_effects" /\ f.mission # None
          /\ f.status # None
      BY <2>1, <2>2, <2>3, NoneAssumption
      DEF Frames, FrameRecords
    <3> QED
      BY <3>1, <3>2
      DEF Frames, ConvSteps, OfferSteps, PriceSteps, UserSteps, MissionSteps,
          AcceptSteps, CodeSteps, PackageSteps, CancelSteps
  <2>6. req' = [req EXCEPT ![s] = f]
    BY <1>1, <2>1 DEF RereadMission, TypeOK
  <2>7. req' \in [Slots -> Frames]
    BY <2>5, <2>6 DEF TypeOK
  <2> QED
    BY <2>7 DEF RereadMission, TypeOK, db
<1>2. CASE ~MissionExists(m)
  <2>1. req' \in [Slots -> Frames]
    BY <1>2, ReplyFrame DEF RereadMission
  <2> QED
    BY <2>1 DEF RereadMission, TypeOK, db
<1> QED
  BY <1>1, <1>2

\* The side effects of a status keep the types, whatever the status.
LEMMA SideEffectsType ==
  ASSUME TypeOK, NEW s \in Slots, ApplyStatusSideEffects(s)
  PROVE  TypeOK'
<1> DEFINE f == req[s]
<1>1. CASE Refuse(s)
  BY <1>1, RefuseType
<1>2. CASE ~Refuse(s)
  <2>1. ad' \in [Ads -> AdStatus \union NoRow]
    <3>1. \A old \in AdStatus \union NoRow :
            AdStatusAfter(f.status, old) \in AdStatus \union NoRow
      BY DEF AdStatusAfter, AdStatus
    <3> QED
      BY <1>2, <3>1 DEF ApplyStatusSideEffects, TypeOK
  <2>2. payment' \in [Missions -> PaymentRows]
    <3>1. \A r \in PaymentRows : r.status = "PENDING" =>
            [r EXCEPT !.status = "CANCELLED"] \in PaymentRows
      BY DEF PaymentRows, PaymentStatus
    <3>2. \/ payment' = payment
          \/ /\ payment[f.mission].status = "PENDING"
             /\ payment' = [payment EXCEPT ![f.mission].status = "CANCELLED"]
      BY <1>2 DEF ApplyStatusSideEffects, SettledPayment
    <3> QED
      BY <3>1, <3>2 DEF TypeOK
  <2>3. conv' \in [Convs -> ConvRows]
    <3>1. \A c \in Convs : ArchivedConv(c, f.mission, f.status) \in ConvRows
      BY DEF ArchivedConv, TypeOK, ConvRows, ConvStatus
    <3> QED
      BY <1>2, <3>1 DEF ApplyStatusSideEffects
  <2>4. req' \in [Slots -> Frames]
    BY <1>2, ReplyFrame DEF ApplyStatusSideEffects
  <2> QED
    BY <1>2, <2>1, <2>2, <2>3, <2>4 DEF ApplyStatusSideEffects, TypeOK
<1> QED
  BY <1>1, <1>2

----------------------------------------------------------------------------
(* Proofs *)

\* GenerateCode keeps the types.
LEMMA GenerateCodeType ==
  ASSUME TypeOK, NEW s \in Slots, NEW m \in Missions, NEW k \in ProofKinds,
         GenerateCode(s, m, k)
  PROVE  TypeOK'
<1> DEFINE f == [Idle EXCEPT !.at = "code_write", !.mission = m, !.kind = k]
<1>1. f \in Frames
  BY NoneAssumption
  DEF Idle, Frames, FrameRecords, Steps, ConvSteps,
      OfferSteps, PriceSteps, UserSteps, MissionSteps, AcceptSteps,
      CodeSteps, PackageSteps, CancelSteps
<1>2. req' \in [Slots -> Frames]
  BY <1>1, BeginFrame DEF GenerateCode
<1> QED
  BY <1>2 DEF GenerateCode, TypeOK, db

\* WriteCode keeps the types.
LEMMA WriteCodeType ==
  ASSUME TypeOK, NEW s \in Slots, WriteCode(s)
  PROVE  TypeOK'
<1>1. CASE Refuse(s)
  BY <1>1, RefuseType
<1>2. CASE ~Refuse(s)
  <2>1. req[s].mission \in Missions /\ req[s].kind \in ProofKinds
    BY DEF WriteCode, At, TypeOK, Frames, FrameRecords, MissionSteps,
           CodeSteps
  <2>2. proof' \in [Missions \X ProofKinds -> ProofRows]
    <3> DEFINE x == <<req[s].mission, req[s].kind>>
    <3>1. x \in Missions \X ProofKinds /\ proof[x] \in ProofRows
      BY <2>1 DEF TypeOK
    <3>2. [code |-> proof[x].code + 1, used |-> FALSE, attempts |-> 0]
            \in ProofRows
      BY <3>1 DEF ProofRows
    <3>3. proof' = [proof EXCEPT ![x] =
                      [code |-> proof[x].code + 1, used |-> FALSE, attempts |-> 0]]
      BY <1>2, <3>1 DEF WriteCode, TypeOK
    <3> QED
      BY <3>1, <3>2, <3>3 DEF TypeOK
  <2>3. req' \in [Slots -> Frames]
    BY <1>2, ReplyFrame DEF WriteCode
  <2> QED
    BY <1>2, <2>1, <2>2, <2>3 DEF WriteCode, TypeOK
<1> QED
  BY <1>1, <1>2

\* SubmitCode keeps the types.
LEMMA SubmitCodeType ==
  ASSUME TypeOK, NEW s \in Slots, NEW m \in Missions, NEW k \in ProofKinds,
         SubmitCode(s, m, k)
  PROVE  TypeOK'
<1> DEFINE f == [Idle EXCEPT !.at = "verify_load", !.mission = m, !.kind = k]
<1>1. f \in Frames
  BY NoneAssumption
  DEF Idle, Frames, FrameRecords, Steps, ConvSteps,
      OfferSteps, PriceSteps, UserSteps, MissionSteps, AcceptSteps,
      CodeSteps, PackageSteps, CancelSteps
<1>2. req' \in [Slots -> Frames]
  BY <1>1, BeginFrame DEF SubmitCode
<1> QED
  BY <1>2 DEF SubmitCode, TypeOK, db

\* LoadProof keeps the types.
LEMMA LoadProofType ==
  ASSUME TypeOK, NEW s \in Slots, LoadProof(s)
  PROVE  TypeOK'
<1> DEFINE pr == proof[<<req[s].mission, req[s].kind>>]
<1>1. CASE Verifiable(pr)
  <2>1. PICK step \in {"verify_count", "verify_commit"} :
          req' = [req EXCEPT ![s].at = step, ![s].code = pr.code]
    BY <1>1 DEF LoadProof
  <2>2. req[s].mission \in Missions /\ req[s].kind \in ProofKinds
        /\ req[s] \in Frames /\ req[s].at = "verify_load"
    BY DEF LoadProof, At, TypeOK, Frames, FrameRecords, MissionSteps,
           CodeSteps
  <2>3. pr.code \in Nat
    BY <2>2 DEF TypeOK, ProofRows
  <2> DEFINE f == [req[s] EXCEPT !.at = step, !.code = pr.code]
  <2>4. f \in Frames
    <3>1. f \in FrameRecords
      <4>1. req[s] \in FrameRecords /\ step \in Steps
        BY <2>2 DEF Frames, Steps
      <4> QED
        BY <4>1, <2>3, CarriedCode
    <3>2. f.at = step /\ f.mission # None /\ f.kind # None
      BY <2>2, NoneAssumption DEF Frames, FrameRecords
    <3> QED
      BY <3>1, <3>2
      DEF Frames, ConvSteps, OfferSteps, PriceSteps, UserSteps, MissionSteps,
          AcceptSteps, CodeSteps, PackageSteps, CancelSteps
  <2>5. req' \in [Slots -> Frames]
    BY <2>1, <2>4 DEF TypeOK
  <2> QED
    BY <2>5 DEF LoadProof, TypeOK, db
<1>2. CASE ~Verifiable(pr)
  <2>1. req' \in [Slots -> Frames]
    BY <1>2, ReplyFrame DEF LoadProof
  <2> QED
    BY <2>1 DEF LoadProof, TypeOK, db
<1> QED
  BY <1>1, <1>2

\* CountAttempt keeps the types.
LEMMA CountAttemptType ==
  ASSUME TypeOK, NEW s \in Slots, CountAttempt(s)
  PROVE  TypeOK'
<1>1. CASE Refuse(s)
  BY <1>1, RefuseType
<1>2. CASE ~Refuse(s)
  <2>1. req[s].mission \in Missions /\ req[s].kind \in ProofKinds
    BY DEF CountAttempt, At, TypeOK, Frames, FrameRecords, MissionSteps,
           CodeSteps
  <2>2. proof' \in [Missions \X ProofKinds -> ProofRows]
    <3> DEFINE x == <<req[s].mission, req[s].kind>>
    <3>1. x \in Missions \X ProofKinds /\ proof[x] \in ProofRows
      BY <2>1 DEF TypeOK
    <3>2. [proof[x] EXCEPT !.attempts = @ + 1] \in ProofRows
      BY <3>1 DEF ProofRows
    <3>3. proof' = [proof EXCEPT ![x] = [proof[x] EXCEPT !.attempts = @ + 1]]
      BY <1>2, <3>1 DEF CountAttempt, TypeOK
    <3> QED
      BY <3>1, <3>2, <3>3 DEF TypeOK
  <2>3. req' \in [Slots -> Frames]
    BY <1>2, ReplyFrame DEF CountAttempt
  <2> QED
    BY <1>2, <2>1, <2>2, <2>3 DEF CountAttempt, TypeOK
<1> QED
  BY <1>1, <1>2

\* CommitVerification keeps the types.
LEMMA CommitVerificationType ==
  ASSUME TypeOK, NEW s \in Slots, CommitVerification(s)
  PROVE  TypeOK'
<1>1. CASE Refuse(s)
  BY <1>1, RefuseType
<1>2. CASE ~Refuse(s)
  <2>1. req[s].mission \in Missions /\ req[s].kind \in ProofKinds
    BY DEF CommitVerification, At, TypeOK, Frames, FrameRecords, MissionSteps,
           CodeSteps
  <2>2. mission[req[s].mission].status \in MissionStatus
    BY <1>2, <2>1, ExistingStatus DEF CommitVerification
  <2>3. proof' \in [Missions \X ProofKinds -> ProofRows]
    <3> DEFINE x == <<req[s].mission, req[s].kind>>
    <3>1. x \in Missions \X ProofKinds /\ proof[x] \in ProofRows
      BY <2>1 DEF TypeOK
    <3>2. [proof[x] EXCEPT !.used = TRUE] \in ProofRows
      BY <3>1 DEF ProofRows
    <3>3. proof' = [proof EXCEPT ![x] = [proof[x] EXCEPT !.used = TRUE]]
      BY <1>2, <3>1 DEF CommitVerification, TypeOK
    <3> QED
      BY <3>1, <3>2, <3>3 DEF TypeOK
  <2>4. mission' \in [Missions -> MissionRows]
    <3>1. \A st \in MissionStatus :
            [mission[req[s].mission] EXCEPT !.status = st] \in MissionRows
      BY <2>1, <2>2, MissionStatusRow DEF TypeOK
    <3>2. \E st \in {"IN_TRANSIT", "COMPLETED"} :
            mission' = [mission EXCEPT ![req[s].mission].status = st]
      BY <1>2 DEF CommitVerification
    <3> QED
      BY <2>1, <3>1, <3>2 DEF TypeOK, MissionStatus
  <2>5. ad' \in [Ads -> AdStatus \union NoRow]
    BY <1>2 DEF CommitVerification, TypeOK, AdStatus
  <2>6. payment' \in [Missions -> PaymentRows]
    <3>1. \A r \in PaymentRows : r.status = "PENDING" =>
            [r EXCEPT !.status = "COMPLETED"] \in PaymentRows
      BY DEF PaymentRows, PaymentStatus
    <3>2. \/ payment' = payment
          \/ /\ payment[req[s].mission].status = "PENDING"
             /\ payment' = [payment EXCEPT ![req[s].mission].status =
                              "COMPLETED"]
      BY <1>2 DEF CommitVerification
    <3> QED
      BY <3>1, <3>2 DEF TypeOK
  <2>7. pkg' \in [Packages -> PackageStatus]
    BY <1>2 DEF CommitVerification, PackagesBecome, TypeOK, PackageStatus
  <2>8. req' \in [Slots -> Frames]
    BY <1>2, ReplyFrame DEF CommitVerification
  <2> QED
    BY <1>2, <2>1, <2>2, <2>3, <2>4, <2>5, <2>6, <2>7, <2>8
    DEF CommitVerification, TypeOK
<1> QED
  BY <1>1, <1>2

----------------------------------------------------------------------------
(* Disputes, identity, restart *)

\* OpenDispute keeps the types.
LEMMA OpenDisputeType ==
  ASSUME TypeOK, NEW s \in Slots, NEW m \in Missions, OpenDispute(s, m)
  PROVE  TypeOK'
<1> DEFINE f == [Idle EXCEPT !.at = "dispute_open", !.mission = m]
<1>1. f \in Frames
  BY NoneAssumption
  DEF Idle, Frames, FrameRecords, Steps, ConvSteps,
      OfferSteps, PriceSteps, UserSteps, MissionSteps, AcceptSteps,
      CodeSteps, PackageSteps, CancelSteps
<1>2. req' \in [Slots -> Frames]
  BY <1>1, BeginFrame DEF OpenDispute
<1> QED
  BY <1>2 DEF OpenDispute, TypeOK, db

\* CommitDispute keeps the types.
LEMMA CommitDisputeType ==
  ASSUME TypeOK, NEW s \in Slots, CommitDispute(s)
  PROVE  TypeOK'
<1>1. CASE Refuse(s)
  BY <1>1, RefuseType
<1>2. CASE ~Refuse(s)
  <2>1. req[s].mission \in Missions
    BY DEF CommitDispute, At, TypeOK, Frames, FrameRecords, MissionSteps
  <2>2. mission[req[s].mission].status \in MissionStatus
    BY <1>2, <2>1, ExistingStatus DEF CommitDispute
  <2>3. mission' \in [Missions -> MissionRows]
    <3>1. mission' = [mission EXCEPT ![req[s].mission] =
                       [mission[req[s].mission] EXCEPT !.status = "DISPUTED"]]
      BY <1>2, <2>1 DEF CommitDispute, TypeOK
    <3>2. [mission[req[s].mission] EXCEPT !.status = "DISPUTED"]
            \in MissionRows
      BY <2>1, <2>2, MissionStatusRow DEF TypeOK, MissionStatus
    <3> QED
      BY <3>1, <3>2 DEF TypeOK
  <2>4. dispute' \in [Missions -> {"absent", "OPEN", "RESOLVED"}]
    BY <1>2 DEF CommitDispute, TypeOK
  <2>5. req' \in [Slots -> Frames]
    BY <1>2, ReplyFrame DEF CommitDispute
  <2> QED
    BY <1>2, <2>1, <2>2, <2>3, <2>4, <2>5 DEF CommitDispute, TypeOK
<1> QED
  BY <1>1, <1>2

\* ResolveDispute keeps the types.
LEMMA ResolveDisputeType ==
  ASSUME TypeOK, NEW s \in Slots, NEW m \in Missions,
         NEW outcome \in {"COMPLETED", "CANCELLED"},
         ResolveDispute(s, m, outcome)
  PROVE  TypeOK'
<1> DEFINE f == [Idle EXCEPT !.at = "resolve_commit", !.mission = m,
                             !.ad = mission[m].ad, !.status = outcome]
<1>1. mission[m].ad \in Ads \union {None}
  BY DEF TypeOK, MissionRows
<1>2. f \in Frames
  BY <1>1, NoneAssumption
  DEF MissionStatus, Idle, Frames, FrameRecords, Steps, ConvSteps,
      OfferSteps, PriceSteps, UserSteps, MissionSteps, AcceptSteps,
      CodeSteps, PackageSteps, CancelSteps
<1>3. req' \in [Slots -> Frames]
  BY <1>2, BeginFrame DEF ResolveDispute
<1> QED
  BY <1>3 DEF ResolveDispute, TypeOK, db

\* CommitResolution keeps the types.
LEMMA CommitResolutionType ==
  ASSUME TypeOK, DisputesAttached, NEW s \in Slots, CommitResolution(s)
  PROVE  TypeOK'
<1>1. CASE Refuse(s)
  BY <1>1, RefuseType
<1>2. CASE ~Refuse(s)
  <2>1. req[s].mission \in Missions
        /\ req[s].status \in {"COMPLETED", "CANCELLED"}
    BY DEF CommitResolution, At, TypeOK, Frames, FrameRecords, MissionSteps
  <2>2. mission[req[s].mission].status \in MissionStatus
    BY <1>2, <2>1, ExistingStatus DEF CommitResolution, DisputesAttached
  <2>3. mission' \in [Missions -> MissionRows]
    <3>1. mission' = [mission EXCEPT ![req[s].mission] =
                       [mission[req[s].mission] EXCEPT
                          !.status = req[s].status]]
      BY <1>2, <2>1 DEF CommitResolution, TypeOK
    <3>2. [mission[req[s].mission] EXCEPT !.status = req[s].status]
            \in MissionRows
      BY <2>1, <2>2, MissionStatusRow DEF TypeOK, MissionStatus
    <3> QED
      BY <3>1, <3>2 DEF TypeOK
  <2>4. dispute' \in [Missions -> {"absent", "OPEN", "RESOLVED"}]
    BY <1>2 DEF CommitResolution, TypeOK
  <2>5. req' \in [Slots -> Frames]
    BY <1>2, GotoFrame
    DEF CommitResolution, At, Steps, ConvSteps, OfferSteps, PriceSteps,
        UserSteps, MissionSteps, AcceptSteps, CodeSteps, PackageSteps,
        CancelSteps
  <2> QED
    BY <1>2, <2>1, <2>2, <2>3, <2>4, <2>5 DEF CommitResolution, TypeOK
<1> QED
  BY <1>1, <1>2

\* A badge that is given or taken keeps the types.
LEMMA BadgeType ==
  ASSUME TypeOK, NEW u \in Users, BadgeGranted(u) \/ BadgeRevoked(u)
  PROVE  TypeOK'
BY DEF BadgeGranted, BadgeRevoked, TypeOK

\* A restart keeps the types.
LEMMA RestartType == TypeOK /\ Restart => TypeOK'
<1> SUFFICES ASSUME TypeOK, Restart PROVE TypeOK'
  OBVIOUS
<1>1. req' \in [Slots -> Frames]
  BY IdleIsFrame DEF Restart
<1> QED
  BY <1>1 DEF Restart, TypeOK, db

----------------------------------------------------------------------------
(* The specification *)

\* The empty tables and slots are well typed.
LEMMA TypeInit == Init => TypeOK
<1> SUFFICES ASSUME Init PROVE TypeOK
  OBVIOUS
<1>1. req \in [Slots -> Frames]
  BY IdleIsFrame DEF Init, StoreInit
<1>2. mission \in [Missions -> MissionRows]
  BY DEF Init, StoreInit, NoMission, Mission, MissionRows, MissionStatus,
         NoRow
<1>3. offer \in [Offers -> OfferRows]
  BY DEF Init, StoreInit, NoOffer, OfferRows, OfferStatus, NoRow
<1>4. payment \in [Missions -> PaymentRows]
  BY DEF Init, StoreInit, NoPayment, PaymentRows, PaymentStatus
<1>5. /\ conv \in [Convs -> ConvRows]
      /\ proof \in [Missions \X ProofKinds -> ProofRows]
  BY DEF Init, StoreInit, NoConv, ConvRows, NoRow, NoProof, ProofRows
<1> QED
  BY <1>1, <1>2, <1>3, <1>4, <1>5, IdsAssumption
  DEF Init, StoreInit, TypeOK, NoRow, PackageStatus

\* A request that arrives.
LEMMA ArriveType ==
  ASSUME TypeOK, NEW s \in Slots, Arrive(s)
  PROVE  TypeOK'
<1>1. CASE \E c \in Convs :
              OpenConversation(s, c)
  BY <1>1, OpenConversationType
<1>2. CASE \E c \in Convs, u \in Users :
              RemoveConversation(s, c, u)
  BY <1>2, RemoveConversationType
<1>3. CASE \E c \in Convs, u \in Users, p \in Prices :
              SendOffer(s, c, u, p)
  BY <1>3, SendOfferType
<1>4. CASE \E o \in Offers, p \in Prices :
              EditOffer(s, o, p)
  BY <1>4, EditOfferType
<1>5. CASE \E o \in Offers, u \in Users :
              AcceptOffer(s, o, u)
  BY <1>5, AcceptOfferType
<1>6. CASE \E o \in Offers, u \in Users :
              RejectOffer(s, o, u)
  BY <1>6, RejectOfferType
<1>7. CASE \E a \in Ads, u \in Users :
              CreateMission(s, a, u)
  BY <1>7, CreateMissionType
<1>8. CASE \E m \in Missions, p \in Packages,
              step \in {"package_add", "package_remove"} :
              ChangePackages(s, m, p, step)
  BY <1>8, ChangePackagesType
<1>9. CASE \E m \in Missions :
              DeleteMission(s, m)
  BY <1>9, DeleteMissionType
<1>10. CASE \E m \in Missions :
              CancelMission(s, m)
  BY <1>10, CancelMissionType
<1>11. CASE \E m \in Missions, k \in ProofKinds :
              GenerateCode(s, m, k)
  BY <1>11, GenerateCodeType
<1>12. CASE \E m \in Missions, k \in ProofKinds :
              SubmitCode(s, m, k)
  BY <1>12, SubmitCodeType
<1>13. CASE \E m \in Missions :
              OpenDispute(s, m)
  BY <1>13, OpenDisputeType
<1>14. CASE \E m \in Missions, outcome \in {"COMPLETED", "CANCELLED"} :
              ResolveDispute(s, m, outcome)
  BY <1>14, ResolveDisputeType
<1> QED
  BY <1>1, <1>2, <1>3, <1>4, <1>5, <1>6, <1>7,
     <1>8, <1>9, <1>10, <1>11, <1>12, <1>13, <1>14 DEF Arrive

\* A request that goes on.
LEMMA ContinueType ==
  ASSUME TypeOK, DisputesAttached, NEW s \in Slots, Continue(s)
  PROVE  TypeOK'
<1>1. CASE WriteConversation(s)
  BY <1>1, WriteConversationType
<1>2. CASE HideConversation(s)
  BY <1>2, HideConversationType
<1>3. CASE EraseConversation(s)
  BY <1>3, EraseConversationType
<1>4. CASE InsertOffer(s)
  BY <1>4, InsertOfferType
<1>5. CASE WakeConversation(s)
  BY <1>5, WakeConversationType
<1>6. CASE ReviveConversation(s)
  BY <1>6, ReviveConversationType
<1>7. CASE WriteOfferEdit(s)
  BY <1>7, WriteOfferEditType
<1>8. CASE CheckCarrierKyc(s)
  BY <1>8, CheckCarrierKycType
<1>9. CASE ReadMissionToAccept(s)
  BY <1>9, ReadMissionToAcceptType
<1>10. CASE CommitAcceptance(s)
  BY <1>10, CommitAcceptanceType
<1>11. CASE WriteRejection(s)
  BY <1>11, WriteRejectionType
<1>12. CASE InsertMission(s)
  BY <1>12, InsertMissionType
<1>13. CASE WritePackages(s)
  BY <1>13, WritePackagesType
<1>14. CASE EraseMission(s)
  BY <1>14, EraseMissionType
<1>15. CASE WriteCancellation(s)
  BY <1>15, WriteCancellationType
<1>16. CASE RereadMission(s)
  BY <1>16, RereadMissionType
<1>17. CASE CancelEffects(s)
  BY <1>17, SideEffectsType DEF CancelEffects
<1>18. CASE WriteCode(s)
  BY <1>18, WriteCodeType
<1>19. CASE LoadProof(s)
  BY <1>19, LoadProofType
<1>20. CASE CountAttempt(s)
  BY <1>20, CountAttemptType
<1>21. CASE CommitVerification(s)
  BY <1>21, CommitVerificationType
<1>22. CASE CommitDispute(s)
  BY <1>22, CommitDisputeType
<1>23. CASE CommitResolution(s)
  BY <1>23, CommitResolutionType
<1>24. CASE ResolveEffects(s)
  BY <1>24, SideEffectsType DEF ResolveEffects
<1> QED
  BY <1>1, <1>2, <1>3, <1>4, <1>5, <1>6, <1>7, <1>8,
     <1>9, <1>10, <1>11, <1>12, <1>13, <1>14, <1>15, <1>16,
     <1>17, <1>18, <1>19, <1>20, <1>21, <1>22, <1>23, <1>24 DEF Continue

\* Every step of the specification keeps the types.
LEMMA TypeStep == TypeOK /\ DisputesAttached /\ [Next]_vars => TypeOK'
<1> SUFFICES ASSUME TypeOK, DisputesAttached, [Next]_vars PROVE TypeOK'
  OBVIOUS
<1>1. CASE \E s \in Slots : Arrive(s) \/ Continue(s)
  BY <1>1, ArriveType, ContinueType
<1>2. CASE OneStatement
  BY <1>2, PublishAdType, DeleteAdType, DeleteMessageType, BadgeType
  DEF OneStatement
<1>3. CASE Restart
  BY <1>3, RestartType
<1>4. CASE UNCHANGED vars
  BY <1>4 DEF vars, TypeOK
<1> QED
  BY <1>1, <1>2, <1>3, <1>4 DEF Next

----------------------------------------------------------------------------
(* What every step but an acceptance leaves alone *)


\* No mission changes its deal, no row becomes fresh again.
MissionsQuiet ==
  \A m \in Missions :
    /\ mission'[m].carrier = mission[m].carrier
    /\ mission'[m].price = mission[m].price
    /\ mission'[m].status = "absent" => mission[m].status = "absent"

\* At most one payment is settled.
PaymentsQuiet ==
  \/ payment' = payment
  \/ \E m \in Missions, outcome \in {"COMPLETED", "CANCELLED"} :
       /\ payment[m].status = "PENDING"
       /\ payment' = [payment EXCEPT ![m].status = outcome]

\* No offer becomes ACCEPTED, or changes its conversation or its mission.
OffersQuiet ==
  \A o \in Offers :
    /\ offer'[o].status = "absent" => offer[o].status = "absent"
    /\ offer'[o].status \in OfferStatus =>
         \/ offer[o].status = "absent"
         \/ /\ offer[o].status \in OfferStatus
            /\ offer'[o].conv = offer[o].conv
    /\ offer'[o].status = "ACCEPTED" =>
         /\ offer[o].status = "ACCEPTED"
         /\ offer'[o].conv = offer[o].conv
         /\ offer'[o].mission = offer[o].mission

\* An acceptance in flight keeps the offer and the conversation it has read.
FramesQuiet ==
  \A s \in Slots : req'[s].at \in AcceptSteps =>
    \/ /\ req[s].at \in AcceptSteps
       /\ req'[s].offer = req[s].offer
       /\ req'[s].conv = req[s].conv
    \/ /\ req'[s].offer \in Offers
       /\ offer[req'[s].offer].status = "PENDING"
       /\ req'[s].conv = offer[req'[s].offer].conv

Quiet == /\ MissionsQuiet /\ PaymentsQuiet /\ OffersQuiet /\ FramesQuiet
         /\ DisputesAttached'

----------------------------------------------------------------------------
(* What leaves a part of the state alone is quiet about it *)

\* A free slot accepts nothing.
LEMMA IdleNotAccepting == Idle.at \notin AcceptSteps
BY DEF Idle, AcceptSteps

\* Answering, or going on outside an acceptance, accepts nothing.
LEMMA ReplyQuiet ==
  ASSUME TypeOK, NEW s \in Slots, Reply(s)
  PROVE  FramesQuiet
BY IdleNotAccepting DEF Reply, FramesQuiet, TypeOK

\* A request that begins elsewhere than in an acceptance keeps the frames of
\* acceptances.
LEMMA BeginQuiet ==
  ASSUME TypeOK, NEW s \in Slots, NEW f, f.at \notin AcceptSteps, Begin(s, f)
  PROVE  FramesQuiet
BY DEF Begin, FramesQuiet, TypeOK

\* A request that goes on outside an acceptance keeps the frames of
\* acceptances.
LEMMA GotoQuiet ==
  ASSUME TypeOK, NEW s \in Slots, NEW step,
         step \notin AcceptSteps \/ req[s].at \in AcceptSteps, Goto(s, step)
  PROVE  FramesQuiet
BY DEF Goto, FramesQuiet, TypeOK, Frames, FrameRecords

\* Without a change of frames, those of acceptances are kept.
LEMMA SameFramesQuiet == TypeOK /\ req' = req => FramesQuiet
BY DEF FramesQuiet

\* Without a change of missions, no deal is touched.
LEMMA SameMissionsQuiet == mission' = mission => MissionsQuiet
BY DEF MissionsQuiet

\* Without a change of offers, none is accepted.
LEMMA SameOffersQuiet ==
  ASSUME TypeOK, offer' = offer
  PROVE  OffersQuiet
BY DEF OffersQuiet, TypeOK

\* Without a change of missions and disputes, disputes stay attached.
LEMMA SameDisputesQuiet ==
  ASSUME DisputesAttached, mission' = mission, dispute' = dispute
  PROVE  DisputesAttached'
BY DEF DisputesAttached, MissionExists

\* A step that only changes frames, and not those of acceptances, is quiet.
LEMMA FramesOnlyQuiet ==
  ASSUME TypeOK, DisputesAttached, UNCHANGED db, FramesQuiet
  PROVE  Quiet
BY SameMissionsQuiet, SameOffersQuiet, SameDisputesQuiet
DEF Quiet, PaymentsQuiet, db

\* So is one that leaves missions, payments, offers and disputes alone.
LEMMA SideTablesQuiet ==
  ASSUME TypeOK, DisputesAttached, FramesQuiet,
         UNCHANGED <<mission, payment, offer, dispute>>
  PROVE  Quiet
BY SameMissionsQuiet, SameOffersQuiet, SameDisputesQuiet
DEF Quiet, PaymentsQuiet

\* A refusal is quiet.
LEMMA RefuseQuiet ==
  ASSUME TypeOK, DisputesAttached, NEW s \in Slots, Refuse(s)
  PROVE  Quiet
BY ReplyQuiet, FramesOnlyQuiet DEF Refuse

----------------------------------------------------------------------------
(* Requests that arrive *)

\* OpenConversation is quiet.
LEMMA OpenConversationQuiet ==
  ASSUME TypeOK, DisputesAttached, NEW s \in Slots, NEW c \in Convs,
         OpenConversation(s, c)
  PROVE  Quiet
<1>1. PICK m : Begin(s, [Idle EXCEPT !.at = "dossier_write", !.conv = c,
                                      !.mission = m])
  BY DEF OpenConversation
<1>2. FramesQuiet
  BY <1>1, BeginQuiet DEF Idle, AcceptSteps
<1> QED
  BY <1>2, FramesOnlyQuiet DEF OpenConversation

\* RemoveConversation is quiet.
LEMMA RemoveConversationQuiet ==
  ASSUME TypeOK, DisputesAttached, NEW s \in Slots, NEW c \in Convs,
         NEW u \in Users,
         RemoveConversation(s, c, u)
  PROVE  Quiet
<1>1. PICK step \in {"conv_hide", "conv_retain", "conv_delete"} :
        Begin(s, [Idle EXCEPT !.at = step, !.conv = c, !.who = u])
  BY DEF RemoveConversation
<1>2. FramesQuiet
  BY <1>1, BeginQuiet DEF Idle, AcceptSteps
<1> QED
  BY <1>2, FramesOnlyQuiet DEF RemoveConversation

\* SendOffer is quiet.
LEMMA SendOfferQuiet ==
  ASSUME TypeOK, DisputesAttached, NEW s \in Slots, NEW c \in Convs,
         NEW u \in Users,
         NEW p \in Prices,
         SendOffer(s, c, u, p)
  PROVE  Quiet
<1>1. FramesQuiet
  BY BeginQuiet DEF SendOffer, Idle, AcceptSteps
<1> QED
  BY <1>1, FramesOnlyQuiet DEF SendOffer

\* EditOffer is quiet.
LEMMA EditOfferQuiet ==
  ASSUME TypeOK, DisputesAttached, NEW s \in Slots, NEW o \in Offers,
         NEW p \in Prices,
         EditOffer(s, o, p)
  PROVE  Quiet
<1>1. FramesQuiet
  BY BeginQuiet DEF EditOffer, Idle, AcceptSteps
<1> QED
  BY <1>1, FramesOnlyQuiet DEF EditOffer

\* RejectOffer is quiet.
LEMMA RejectOfferQuiet ==
  ASSUME TypeOK, DisputesAttached, NEW s \in Slots, NEW o \in Offers,
         NEW u \in Users,
         RejectOffer(s, o, u)
  PROVE  Quiet
<1>1. FramesQuiet
  BY BeginQuiet DEF RejectOffer, Idle, AcceptSteps
<1> QED
  BY <1>1, FramesOnlyQuiet DEF RejectOffer

\* CreateMission is quiet.
LEMMA CreateMissionQuiet ==
  ASSUME TypeOK, DisputesAttached, NEW s \in Slots, NEW a \in Ads,
         NEW u \in Users,
         CreateMission(s, a, u)
  PROVE  Quiet
<1>1. FramesQuiet
  BY BeginQuiet DEF CreateMission, Idle, AcceptSteps
<1> QED
  BY <1>1, FramesOnlyQuiet DEF CreateMission

\* ChangePackages is quiet.
LEMMA ChangePackagesQuiet ==
  ASSUME TypeOK, DisputesAttached, NEW s \in Slots, NEW m \in Missions,
         NEW p \in Packages, NEW step \in PackageSteps,
         ChangePackages(s, m, p, step)
  PROVE  Quiet
<1>1. FramesQuiet
  BY BeginQuiet DEF ChangePackages, Idle, AcceptSteps, PackageSteps
<1> QED
  BY <1>1, FramesOnlyQuiet DEF ChangePackages

\* DeleteMission is quiet.
LEMMA DeleteMissionQuiet ==
  ASSUME TypeOK, DisputesAttached, NEW s \in Slots, NEW m \in Missions,
         DeleteMission(s, m)
  PROVE  Quiet
<1>1. FramesQuiet
  BY BeginQuiet DEF DeleteMission, Idle, AcceptSteps
<1> QED
  BY <1>1, FramesOnlyQuiet DEF DeleteMission

\* CancelMission is quiet.
LEMMA CancelMissionQuiet ==
  ASSUME TypeOK, DisputesAttached, NEW s \in Slots, NEW m \in Missions,
         CancelMission(s, m)
  PROVE  Quiet
<1>1. FramesQuiet
  BY BeginQuiet DEF CancelMission, Idle, AcceptSteps
<1> QED
  BY <1>1, FramesOnlyQuiet DEF CancelMission

\* GenerateCode is quiet.
LEMMA GenerateCodeQuiet ==
  ASSUME TypeOK, DisputesAttached, NEW s \in Slots, NEW m \in Missions,
         NEW k \in ProofKinds,
         GenerateCode(s, m, k)
  PROVE  Quiet
<1>1. FramesQuiet
  BY BeginQuiet DEF GenerateCode, Idle, AcceptSteps
<1> QED
  BY <1>1, FramesOnlyQuiet DEF GenerateCode

\* SubmitCode is quiet.
LEMMA SubmitCodeQuiet ==
  ASSUME TypeOK, DisputesAttached, NEW s \in Slots, NEW m \in Missions,
         NEW k \in ProofKinds,
         SubmitCode(s, m, k)
  PROVE  Quiet
<1>1. FramesQuiet
  BY BeginQuiet DEF SubmitCode, Idle, AcceptSteps
<1> QED
  BY <1>1, FramesOnlyQuiet DEF SubmitCode

\* OpenDispute is quiet.
LEMMA OpenDisputeQuiet ==
  ASSUME TypeOK, DisputesAttached, NEW s \in Slots, NEW m \in Missions,
         OpenDispute(s, m)
  PROVE  Quiet
<1>1. FramesQuiet
  BY BeginQuiet DEF OpenDispute, Idle, AcceptSteps
<1> QED
  BY <1>1, FramesOnlyQuiet DEF OpenDispute

\* ResolveDispute is quiet.
LEMMA ResolveDisputeQuiet ==
  ASSUME TypeOK, DisputesAttached, NEW s \in Slots, NEW m \in Missions,
         NEW outcome \in {"COMPLETED", "CANCELLED"},
         ResolveDispute(s, m, outcome)
  PROVE  Quiet
<1>1. FramesQuiet
  BY BeginQuiet DEF ResolveDispute, Idle, AcceptSteps
<1> QED
  BY <1>1, FramesOnlyQuiet DEF ResolveDispute

\* AcceptOffer is quiet.
LEMMA AcceptOfferQuiet ==
  ASSUME TypeOK, DisputesAttached, NEW s \in Slots, NEW o \in Offers,
         NEW u \in Users, AcceptOffer(s, o, u)
  PROVE  Quiet
<1> DEFINE f == [Idle EXCEPT !.at = "accept_kyc", !.offer = o,
                             !.conv = offer[o].conv,
                             !.mission = conv[offer[o].conv].mission,
                             !.price = offer[o].price]
<1>1. req' = [req EXCEPT ![s] = f] /\ offer[o].status = "PENDING"
  BY DEF AcceptOffer, Begin
<1>2. f.offer = o /\ f.conv = offer[o].conv
  BY DEF Idle
<1>3. FramesQuiet
  BY <1>1, <1>2 DEF FramesQuiet, TypeOK
<1> QED
  BY <1>3, FramesOnlyQuiet DEF AcceptOffer

----------------------------------------------------------------------------
(* Statements that write neither missions, payments, offers nor disputes *)

\* HideConversation is quiet.
LEMMA HideConversationQuiet ==
  ASSUME TypeOK, DisputesAttached, NEW s \in Slots, HideConversation(s)
  PROVE  Quiet
<1>1. CASE Refuse(s)
  BY <1>1, RefuseQuiet
<1>2. CASE ~Refuse(s)
  <2>1. FramesQuiet
    BY <1>2, ReplyQuiet DEF HideConversation
  <2> QED
    BY <1>2, <2>1, SideTablesQuiet DEF HideConversation
<1> QED
  BY <1>1, <1>2

\* WriteCode is quiet.
LEMMA WriteCodeQuiet ==
  ASSUME TypeOK, DisputesAttached, NEW s \in Slots, WriteCode(s)
  PROVE  Quiet
<1>1. CASE Refuse(s)
  BY <1>1, RefuseQuiet
<1>2. CASE ~Refuse(s)
  <2>1. FramesQuiet
    BY <1>2, ReplyQuiet DEF WriteCode
  <2> QED
    BY <1>2, <2>1, SideTablesQuiet DEF WriteCode
<1> QED
  BY <1>1, <1>2

\* CountAttempt is quiet.
LEMMA CountAttemptQuiet ==
  ASSUME TypeOK, DisputesAttached, NEW s \in Slots, CountAttempt(s)
  PROVE  Quiet
<1>1. CASE Refuse(s)
  BY <1>1, RefuseQuiet
<1>2. CASE ~Refuse(s)
  <2>1. FramesQuiet
    BY <1>2, ReplyQuiet DEF CountAttempt
  <2> QED
    BY <1>2, <2>1, SideTablesQuiet DEF CountAttempt
<1> QED
  BY <1>1, <1>2

\* WakeConversation is quiet.
LEMMA WakeConversationQuiet ==
  ASSUME TypeOK, DisputesAttached, NEW s \in Slots, WakeConversation(s)
  PROVE  Quiet
<1>1. CASE Refuse(s)
  BY <1>1, RefuseQuiet
<1>2. CASE ~Refuse(s)
  <2>1. FramesQuiet
    BY <1>2, GotoQuiet DEF WakeConversation, AcceptSteps
  <2> QED
    BY <1>2, <2>1, SideTablesQuiet DEF WakeConversation
<1> QED
  BY <1>1, <1>2

\* ReviveConversation is quiet.
LEMMA ReviveConversationQuiet ==
  ASSUME TypeOK, DisputesAttached, NEW s \in Slots, ReviveConversation(s)
  PROVE  Quiet
<1>1. FramesQuiet
  BY ReplyQuiet DEF ReviveConversation
<1> QED
  BY <1>1, SideTablesQuiet DEF ReviveConversation

\* CheckCarrierKyc is quiet.
LEMMA CheckCarrierKycQuiet ==
  ASSUME TypeOK, DisputesAttached, NEW s \in Slots, CheckCarrierKyc(s)
  PROVE  Quiet
<1>1. FramesQuiet
  BY ReplyQuiet, GotoQuiet DEF CheckCarrierKyc, At, AcceptSteps
<1> QED
  BY <1>1, FramesOnlyQuiet DEF CheckCarrierKyc

\* ReadMissionToAccept is quiet.
LEMMA ReadMissionToAcceptQuiet ==
  ASSUME TypeOK, DisputesAttached, NEW s \in Slots, ReadMissionToAccept(s)
  PROVE  Quiet
<1>1. FramesQuiet
  BY ReplyQuiet, GotoQuiet DEF ReadMissionToAccept, At, AcceptSteps
<1> QED
  BY <1>1, FramesOnlyQuiet DEF ReadMissionToAccept

\* RereadMission is quiet.
LEMMA RereadMissionQuiet ==
  ASSUME TypeOK, DisputesAttached, NEW s \in Slots, RereadMission(s)
  PROVE  Quiet
<1>1. CASE MissionExists(req[s].mission)
  <2> DEFINE f == [req[s] EXCEPT !.at = "cancel_effects",
                               !.ad = mission[req[s].mission].ad,
                               !.status = mission[req[s].mission].status]
  <2>1. req' = [req EXCEPT ![s] = f]
    BY <1>1 DEF RereadMission, TypeOK
  <2>2. f.at = "cancel_effects"
    BY DEF TypeOK, Frames, FrameRecords
  <2>3. FramesQuiet
    BY <2>1, <2>2 DEF FramesQuiet, AcceptSteps, TypeOK
  <2> QED
    BY <2>3, FramesOnlyQuiet DEF RereadMission
<1>2. CASE ~MissionExists(req[s].mission)
  BY <1>2, ReplyQuiet, FramesOnlyQuiet DEF RereadMission
<1> QED
  BY <1>1, <1>2

\* LoadProof is quiet.
LEMMA LoadProofQuiet ==
  ASSUME TypeOK, DisputesAttached, NEW s \in Slots, LoadProof(s)
  PROVE  Quiet
<1> DEFINE pr == proof[<<req[s].mission, req[s].kind>>]
<1>1. CASE Verifiable(pr)
  <2>1. PICK step \in {"verify_count", "verify_commit"} :
          req' = [req EXCEPT ![s].at = step, ![s].code = pr.code]
    BY <1>1 DEF LoadProof
  <2>2. FramesQuiet
    BY <2>1 DEF FramesQuiet, AcceptSteps, TypeOK, Frames, FrameRecords
  <2> QED
    BY <2>2, FramesOnlyQuiet DEF LoadProof
<1>2. CASE ~Verifiable(pr)
  BY <1>2, ReplyQuiet, FramesOnlyQuiet DEF LoadProof
<1> QED
  BY <1>1, <1>2

----------------------------------------------------------------------------
(* Statements that write offers *)

\* Offers may be quiet while missions, payments and disputes are the same.
LEMMA OffersOnlyQuiet ==
  ASSUME TypeOK, DisputesAttached, FramesQuiet, OffersQuiet,
         UNCHANGED <<mission, payment, dispute>>
  PROVE  Quiet
BY SameMissionsQuiet, SameDisputesQuiet DEF Quiet, PaymentsQuiet

\* Erasing some offers is quiet.
LEMMA EraseOffersQuiet ==
  ASSUME TypeOK,
         \A o \in Offers :
           \/ offer'[o] = offer[o]
           \/ offer'[o] = [NoOffer EXCEPT !.status = "erased"]
  PROVE  OffersQuiet
<1>1. [NoOffer EXCEPT !.status = "erased"].status = "erased"
  BY DEF NoOffer
<1> QED
  BY <1>1 DEF OffersQuiet, OfferStatus

\* EraseConversation is quiet.
LEMMA EraseConversationQuiet ==
  ASSUME TypeOK, DisputesAttached, NEW s \in Slots, EraseConversation(s)
  PROVE  Quiet
<1>1. CASE Refuse(s)
  BY <1>1, RefuseQuiet
<1>2. CASE ~Refuse(s)
  <2>1. FramesQuiet
    BY <1>2, ReplyQuiet DEF EraseConversation
  <2>2. OffersQuiet
    BY <1>2, EraseOffersQuiet DEF EraseConversation
  <2>3. UNCHANGED <<mission, payment, dispute>>
    BY <1>2 DEF EraseConversation
  <2> QED
    BY <2>1, <2>2, <2>3, OffersOnlyQuiet
<1> QED
  BY <1>1, <1>2

\* InsertOffer is quiet.
LEMMA InsertOfferQuiet ==
  ASSUME TypeOK, DisputesAttached, NEW s \in Slots, InsertOffer(s)
  PROVE  Quiet
<1>1. CASE Refuse(s)
  BY <1>1, RefuseQuiet
<1>2. CASE ~Refuse(s)
  <2>1. FramesQuiet
    BY <1>2, GotoQuiet DEF InsertOffer, AcceptSteps
  <2>2. PICK o \in Offers :
          /\ offer[o].status = "absent"
          /\ offer' = [offer EXCEPT ![o] =
               [status |-> "PENDING", conv |-> req[s].conv,
                author |-> req[s].who, price |-> req[s].price,
                mission |-> None]]
    BY <1>2 DEF InsertOffer
  <2>3. OffersQuiet
    BY <2>2 DEF OffersQuiet, TypeOK
  <2> QED
    BY <1>2, <2>1, <2>3, OffersOnlyQuiet DEF InsertOffer
<1> QED
  BY <1>1, <1>2

\* WriteOfferEdit is quiet.
LEMMA WriteOfferEditQuiet ==
  ASSUME TypeOK, DisputesAttached, NEW s \in Slots, WriteOfferEdit(s)
  PROVE  Quiet
<1>1. CASE Refuse(s)
  BY <1>1, RefuseQuiet
<1>2. CASE ~Refuse(s)
  <2> DEFINE o == req[s].offer
  <2>1. FramesQuiet
    BY <1>2, ReplyQuiet DEF WriteOfferEdit
  <2>2. o \in Offers /\ offer[o] \in OfferRows
    BY DEF WriteOfferEdit, At, TypeOK, Frames, FrameRecords, OfferSteps
  <2>3. /\ offer[o].status = "PENDING"
        /\ offer' = [offer EXCEPT ![o] =
                        [offer[o] EXCEPT !.price = req[s].price]]
    BY <1>2, <2>2 DEF WriteOfferEdit, TypeOK
  <2>4. /\ offer'[o].status = "PENDING"
        /\ offer'[o].conv = offer[o].conv
        /\ offer'[o].mission = offer[o].mission
        /\ \A x \in Offers \ {o} : offer'[x] = offer[x]
    BY <2>2, <2>3 DEF TypeOK, OfferRows
  <2>5. OffersQuiet
    BY <2>2, <2>3, <2>4 DEF OffersQuiet, OfferStatus
  <2> QED
    BY <1>2, <2>1, <2>5, OffersOnlyQuiet DEF WriteOfferEdit
<1> QED
  BY <1>1, <1>2

\* WriteRejection is quiet.
LEMMA WriteRejectionQuiet ==
  ASSUME TypeOK, DisputesAttached, NEW s \in Slots, WriteRejection(s)
  PROVE  Quiet
<1>1. CASE Refuse(s)
  BY <1>1, RefuseQuiet
<1>2. CASE ~Refuse(s)
  <2> DEFINE o == req[s].offer
  <2>1. FramesQuiet
    BY <1>2, ReplyQuiet DEF WriteRejection
  <2>2. o \in Offers /\ offer[o] \in OfferRows
    BY DEF WriteRejection, At, TypeOK, Frames, FrameRecords, OfferSteps
  <2>3. /\ offer[o].status = "PENDING"
        /\ offer' = [offer EXCEPT ![o] =
                        [offer[o] EXCEPT !.status = "REJECTED"]]
    BY <1>2, <2>2 DEF WriteRejection, TypeOK
  <2>4. /\ offer'[o].status = "REJECTED"
        /\ offer'[o].conv = offer[o].conv
        /\ offer'[o].mission = offer[o].mission
        /\ \A x \in Offers \ {o} : offer'[x] = offer[x]
    BY <2>2, <2>3 DEF TypeOK, OfferRows
  <2>5. OffersQuiet
    BY <2>2, <2>3, <2>4 DEF OffersQuiet, OfferStatus
  <2> QED
    BY <1>2, <2>1, <2>5, OffersOnlyQuiet DEF WriteRejection
<1> QED
  BY <1>1, <1>2

\* DeleteMessage is quiet.
LEMMA DeleteMessageQuiet ==
  ASSUME TypeOK, DisputesAttached, NEW o \in Offers, DeleteMessage(o)
  PROVE  Quiet
<1>1. OffersQuiet
  BY EraseOffersQuiet DEF DeleteMessage, TypeOK
<1>2. FramesQuiet
  BY SameFramesQuiet DEF DeleteMessage
<1> QED
  BY <1>1, <1>2, OffersOnlyQuiet DEF DeleteMessage

----------------------------------------------------------------------------
(* Statements that write missions, their payments and disputes *)

\* Inserting a PENDING mission into a fresh row makes no deal.
LEMMA CreationQuiet ==
  ASSUME TypeOK, DisputesAttached, PaymentMatchesDeal, DealsArePaid,
         NEW m \in Missions, NEW a \in Ads, NEW u \in Users,
         NEW ps \in SUBSET Packages, FreshMission(m),
         mission' = [mission EXCEPT ![m] = Mission("PENDING", a, u, ps)],
         UNCHANGED <<payment, dispute>>
  PROVE  MissionsQuiet /\ DisputesAttached'
<1>1. mission[m].carrier = None /\ mission[m].price = payment[m].amount
  BY DEF PaymentMatchesDeal, DealsArePaid, FreshMission
<1>2. payment[m].status = "absent"
  BY DEF DealsArePaid, FreshMission
<1>3. mission[m].price = None
  BY <1>1, <1>2 DEF TypeOK, PaymentRows
<1> DEFINE r == Mission("PENDING", a, u, ps)
<1>4. r.carrier = None /\ r.price = None /\ r.status = "PENDING"
  BY DEF Mission
<1>5. \A x \in Missions : mission'[x] = IF x = m THEN r ELSE mission[x]
  BY DEF TypeOK
<1>6. MissionsQuiet
  BY <1>1, <1>3, <1>4, <1>5 DEF MissionsQuiet
<1>7. DisputesAttached'
  BY <1>4, <1>5 DEF DisputesAttached, MissionExists, NoRow
<1> QED
  BY <1>6, <1>7

\* Writing another status or other packages into an existing row is quiet.
LEMMA UpdateQuiet ==
  ASSUME TypeOK, NEW m \in Missions,
         NEW r, mission' = [mission EXCEPT ![m] = r],
         r.carrier = mission[m].carrier, r.price = mission[m].price,
         r.status \in MissionStatus
  PROVE  /\ MissionsQuiet
         /\ \A x \in Missions : MissionExists(x) => MissionExists(x)'
BY DEF MissionsQuiet, MissionExists, MissionStatus, NoRow, TypeOK

\* A new status alone keeps the deal of a mission, and the mission.
LEMMA StatusQuiet ==
  ASSUME TypeOK, NEW m \in Missions, NEW status \in MissionStatus,
         mission' = [mission EXCEPT ![m] =
                       [mission[m] EXCEPT !.status = status]]
  PROVE  /\ MissionsQuiet
         /\ \A x \in Missions : MissionExists(x) => MissionExists(x)'
         /\ MissionExists(m)'
<1> DEFINE r == [mission[m] EXCEPT !.status = status]
<1>1. /\ r.carrier = mission[m].carrier /\ r.price = mission[m].price
      /\ r.status = status
  BY DEF TypeOK, MissionRows
<1>2. MissionExists(m)'
  BY <1>1 DEF MissionExists, MissionStatus, NoRow, TypeOK
<1> QED
  BY <1>1, <1>2, UpdateQuiet

\* PublishAd is quiet.
LEMMA PublishAdQuiet ==
  ASSUME TypeOK, DisputesAttached, PaymentMatchesDeal,
         DealsArePaid, NEW a \in Ads, PublishAd(a)
  PROVE  Quiet
<1>1. FramesQuiet /\ OffersQuiet /\ PaymentsQuiet
  BY SameFramesQuiet, SameOffersQuiet DEF PublishAd, PaymentsQuiet
<1>2. CASE UNCHANGED mission
  BY <1>1, <1>2, SideTablesQuiet DEF PublishAd
<1>3. CASE ~UNCHANGED mission
  <2>1. PICK m \in Missions, ps \in SUBSET Owned(AdAuthor[a]) :
          /\ FreshMission(m)
          /\ mission' = [mission EXCEPT ![m] =
                           Mission("PENDING", a, AdAuthor[a], ps)]
    BY <1>3 DEF PublishAd
  <2>2. AdAuthor[a] \in Users /\ ps \in SUBSET Packages
    BY IdsAssumption DEF Owned
  <2>3. UNCHANGED <<payment, dispute>>
    BY DEF PublishAd
  <2> QED
    BY <1>1, <2>1, <2>2, <2>3, CreationQuiet DEF Quiet
<1> QED
  BY <1>2, <1>3

\* WriteConversation is quiet.
LEMMA WriteConversationQuiet ==
  ASSUME TypeOK, DisputesAttached, PaymentMatchesDeal,
         DealsArePaid, NEW s \in Slots, WriteConversation(s)
  PROVE  Quiet
<1> DEFINE c == req[s].conv
           a == req[s].conv[1]
<1>1. FramesQuiet /\ OffersQuiet /\ PaymentsQuiet
  BY ReplyQuiet, SameOffersQuiet DEF WriteConversation, PaymentsQuiet
<1>2. UNCHANGED <<payment, dispute, offer>>
  BY DEF WriteConversation
<1>3. CASE UNCHANGED mission
  BY <1>1, <1>2, <1>3, SideTablesQuiet
<1>4. CASE ~UNCHANGED mission
  <2>1. PICK m \in Missions, ps \in SUBSET Owned(Shipper(c)) :
          /\ FreshMission(m)
          /\ mission' = [mission EXCEPT ![m] =
                           Mission("PENDING", a, Shipper(c), ps)]
    BY <1>4 DEF WriteConversation
  <2>2. c \in Convs
    BY DEF WriteConversation, At, TypeOK, Frames, FrameRecords, ConvSteps
  <2>3. /\ a \in Ads /\ Shipper(c) \in Users
        /\ ps \in SUBSET Packages
    BY <2>2, IdsAssumption DEF Convs, Shipper, Owned
  <2> QED
    BY <1>1, <1>2, <2>1, <2>3, CreationQuiet DEF Quiet
<1> QED
  BY <1>3, <1>4

\* InsertMission is quiet.
LEMMA InsertMissionQuiet ==
  ASSUME TypeOK, DisputesAttached, PaymentMatchesDeal,
         DealsArePaid, NEW s \in Slots, InsertMission(s)
  PROVE  Quiet
<1>1. CASE Refuse(s)
  BY <1>1, RefuseQuiet
<1>2. CASE ~Refuse(s)
  <2>1. FramesQuiet /\ OffersQuiet /\ PaymentsQuiet
    BY <1>2, ReplyQuiet, SameOffersQuiet DEF InsertMission, PaymentsQuiet
  <2>2. UNCHANGED <<payment, dispute>>
    BY <1>2 DEF InsertMission
  <2>3. PICK m \in Missions, ps \in SUBSET Owned(req[s].who) :
          /\ FreshMission(m)
          /\ mission' = [mission EXCEPT ![m] =
                           Mission("PENDING", req[s].ad, req[s].who, ps)]
    BY <1>2 DEF InsertMission
  <2>4. /\ req[s].ad \in Ads /\ req[s].who \in Users
        /\ ps \in SUBSET Packages
    BY DEF InsertMission, At, TypeOK, Frames, FrameRecords, UserSteps, Owned
  <2> QED
    BY <2>1, <2>2, <2>3, <2>4, CreationQuiet DEF Quiet
<1> QED
  BY <1>1, <1>2

\* WritePackages is quiet.
LEMMA WritePackagesQuiet ==
  ASSUME TypeOK, DisputesAttached, NEW s \in Slots, WritePackages(s)
  PROVE  Quiet
<1>1. CASE Refuse(s)
  BY <1>1, RefuseQuiet
<1>2. CASE ~Refuse(s)
  <2>1. PICK m \in Missions : m = req[s].mission
    BY DEF WritePackages, At, TypeOK, Frames, FrameRecords, MissionSteps,
           PackageSteps, CancelSteps, CodeSteps
  <2>2. PICK ps \in {mission[m].packages \union {req[s].pkg},
                     mission[m].packages \ {req[s].pkg}} :
          mission' = [mission EXCEPT ![m] =
                        [mission[m] EXCEPT !.packages = ps]]
    BY <1>2, <2>1 DEF WritePackages, TypeOK
  <2> DEFINE r == [mission[m] EXCEPT !.packages = ps]
  <2>3. mission[m].status \in MissionStatus
    BY <1>2, <2>1, ExistingStatus DEF WritePackages
  <2>4. /\ r.carrier = mission[m].carrier /\ r.price = mission[m].price
        /\ r.status \in MissionStatus
    BY <2>1, <2>3 DEF TypeOK, MissionRows
  <2>5. /\ MissionsQuiet
        /\ \A x \in Missions : MissionExists(x) => MissionExists(x)'
    BY <2>1, <2>2, <2>4, UpdateQuiet
  <2>6. FramesQuiet /\ OffersQuiet /\ PaymentsQuiet
    BY <1>2, ReplyQuiet, SameOffersQuiet DEF WritePackages, PaymentsQuiet
  <2>7. DisputesAttached'
    BY <1>2, <2>5 DEF WritePackages, DisputesAttached
  <2> QED
    BY <2>5, <2>6, <2>7 DEF Quiet
<1> QED
  BY <1>1, <1>2

\* WriteCancellation is quiet.
LEMMA WriteCancellationQuiet ==
  ASSUME TypeOK, DisputesAttached, NEW s \in Slots, WriteCancellation(s)
  PROVE  Quiet
<1>1. CASE Refuse(s)
  BY <1>1, RefuseQuiet
<1>2. CASE ~Refuse(s)
  <2>1. PICK m \in Missions : m = req[s].mission
    BY DEF WriteCancellation, At, TypeOK, Frames, FrameRecords, MissionSteps,
           PackageSteps, CancelSteps, CodeSteps
  <2>2. mission' = [mission EXCEPT ![m] =
                      [mission[m] EXCEPT !.status = "CANCELLED"]]
    BY <1>2, <2>1 DEF WriteCancellation, TypeOK
  <2>3. "CANCELLED" \in MissionStatus
    BY DEF WriteCancellation, At, TypeOK, Frames, FrameRecords, MissionStatus
  <2>4. /\ MissionsQuiet
        /\ \A x \in Missions : MissionExists(x) => MissionExists(x)'
        /\ MissionExists(m)'
    BY <2>1, <2>2, <2>3, StatusQuiet
  <2>5. FramesQuiet
    BY <1>2, GotoQuiet DEF WriteCancellation, AcceptSteps
  <2>6. OffersQuiet /\ PaymentsQuiet
    BY <1>2, SameOffersQuiet DEF WriteCancellation, PaymentsQuiet
  <2>7. DisputesAttached'
    BY <1>2, <2>4 DEF WriteCancellation, DisputesAttached
  <2> QED
    BY <2>4, <2>5, <2>6, <2>7 DEF Quiet
<1> QED
  BY <1>1, <1>2

\* CommitDispute is quiet.
LEMMA CommitDisputeQuiet ==
  ASSUME TypeOK, DisputesAttached, NEW s \in Slots, CommitDispute(s)
  PROVE  Quiet
<1>1. CASE Refuse(s)
  BY <1>1, RefuseQuiet
<1>2. CASE ~Refuse(s)
  <2>1. PICK m \in Missions : m = req[s].mission
    BY DEF CommitDispute, At, TypeOK, Frames, FrameRecords, MissionSteps,
           PackageSteps, CancelSteps, CodeSteps
  <2>2. mission' = [mission EXCEPT ![m] =
                      [mission[m] EXCEPT !.status = "DISPUTED"]]
    BY <1>2, <2>1 DEF CommitDispute, TypeOK
  <2>3. "DISPUTED" \in MissionStatus
    BY DEF CommitDispute, At, TypeOK, Frames, FrameRecords, MissionStatus
  <2>4. /\ MissionsQuiet
        /\ \A x \in Missions : MissionExists(x) => MissionExists(x)'
        /\ MissionExists(m)'
    BY <2>1, <2>2, <2>3, StatusQuiet
  <2>5. FramesQuiet
    BY <1>2, ReplyQuiet DEF CommitDispute, AcceptSteps
  <2>6. OffersQuiet /\ PaymentsQuiet
    BY <1>2, SameOffersQuiet DEF CommitDispute, PaymentsQuiet
  <2>7. DisputesAttached'
    BY <1>2, <2>4 DEF CommitDispute, DisputesAttached, TypeOK
  <2> QED
    BY <2>4, <2>5, <2>6, <2>7 DEF Quiet
<1> QED
  BY <1>1, <1>2

\* CommitResolution is quiet.
LEMMA CommitResolutionQuiet ==
  ASSUME TypeOK, DisputesAttached, NEW s \in Slots, CommitResolution(s)
  PROVE  Quiet
<1>1. CASE Refuse(s)
  BY <1>1, RefuseQuiet
<1>2. CASE ~Refuse(s)
  <2>1. PICK m \in Missions : m = req[s].mission
    BY DEF CommitResolution, At, TypeOK, Frames, FrameRecords, MissionSteps,
           PackageSteps, CancelSteps, CodeSteps
  <2>2. mission' = [mission EXCEPT ![m] =
                      [mission[m] EXCEPT !.status = req[s].status]]
    BY <1>2, <2>1 DEF CommitResolution, TypeOK
  <2>3. req[s].status \in MissionStatus
    BY DEF CommitResolution, At, TypeOK, Frames, FrameRecords, MissionStatus
  <2>4. /\ MissionsQuiet
        /\ \A x \in Missions : MissionExists(x) => MissionExists(x)'
        /\ MissionExists(m)'
    BY <2>1, <2>2, <2>3, StatusQuiet
  <2>5. FramesQuiet
    BY <1>2, GotoQuiet DEF CommitResolution, AcceptSteps
  <2>6. OffersQuiet /\ PaymentsQuiet
    BY <1>2, SameOffersQuiet DEF CommitResolution, PaymentsQuiet
  <2>7. DisputesAttached'
    BY <1>2, <2>4 DEF CommitResolution, DisputesAttached, TypeOK
  <2> QED
    BY <2>4, <2>5, <2>6, <2>7 DEF Quiet
<1> QED
  BY <1>1, <1>2

\* CommitVerification is quiet.
LEMMA CommitVerificationQuiet ==
  ASSUME TypeOK, DisputesAttached, NEW s \in Slots, CommitVerification(s)
  PROVE  Quiet
<1>1. CASE Refuse(s)
  BY <1>1, RefuseQuiet
<1>2. CASE ~Refuse(s)
  <2>1. PICK m \in Missions : m = req[s].mission
    BY DEF CommitVerification, At, TypeOK, Frames, FrameRecords, MissionSteps,
           PackageSteps, CancelSteps, CodeSteps
  <2>2. PICK status \in {"IN_TRANSIT", "COMPLETED"} :
          mission' = [mission EXCEPT ![m] =
                        [mission[m] EXCEPT !.status = status]]
    BY <1>2, <2>1 DEF CommitVerification, TypeOK
  <2>3. /\ MissionsQuiet
        /\ \A x \in Missions : MissionExists(x) => MissionExists(x)'
    BY <2>1, <2>2, StatusQuiet DEF MissionStatus
  <2>4. FramesQuiet /\ OffersQuiet
    BY <1>2, ReplyQuiet, SameOffersQuiet DEF CommitVerification
  <2>5. PaymentsQuiet
    BY <1>2, <2>1 DEF CommitVerification, PaymentsQuiet, TypeOK
  <2>6. DisputesAttached'
    BY <1>2, <2>3 DEF CommitVerification, DisputesAttached
  <2> QED
    BY <2>3, <2>4, <2>5, <2>6 DEF Quiet
<1> QED
  BY <1>1, <1>2

\* The side effects of a status settle payments and create none.
LEMMA SideEffectsQuiet ==
  ASSUME TypeOK, DisputesAttached, NEW s \in Slots, ApplyStatusSideEffects(s),
         req[s].mission \in Missions
  PROVE  Quiet
<1>1. CASE Refuse(s)
  BY <1>1, RefuseQuiet
<1>2. CASE ~Refuse(s)
  <2>1. FramesQuiet
    BY <1>2, ReplyQuiet DEF ApplyStatusSideEffects
  <2>2. PaymentsQuiet
    BY <1>2
    DEF ApplyStatusSideEffects, SettledPayment, PaymentsQuiet, TypeOK
  <2>3. UNCHANGED <<mission, offer, dispute>>
    BY <1>2 DEF ApplyStatusSideEffects
  <2> QED
    BY <2>1, <2>2, <2>3, SameMissionsQuiet, SameOffersQuiet,
       SameDisputesQuiet DEF Quiet
<1> QED
  BY <1>1, <1>2

----------------------------------------------------------------------------
(* Deletions *)

\* Missions without a payment leave no deal, no accepted offer and no
\* dispute behind.
LEMMA EraseMissionsQuiet ==
  ASSUME TypeOK, DisputesAttached, PaymentMatchesDeal, DealsArePaid,
         NEW D \in SUBSET Missions, Erasable(D), EraseMissions(D)
  PROVE  MissionsQuiet /\ OffersQuiet /\ DisputesAttached'
<1> DEFINE gone == [NoMission EXCEPT !.status = "erased"]
<1>1. gone.status = "erased" /\ gone.carrier = None /\ gone.price = None
  BY DEF NoMission, Mission
<1>2. \A m \in Missions : mission'[m] = IF m \in D THEN gone ELSE mission[m]
  BY DEF EraseMissions
<1>3. \A m \in D : mission[m].carrier = None /\ mission[m].price = None
  BY DEF Erasable, PaymentMatchesDeal, TypeOK, PaymentRows
<1>4. MissionsQuiet
  BY <1>1, <1>2, <1>3 DEF MissionsQuiet
<1>5. DisputesAttached'
  BY <1>2 DEF EraseMissions, DisputesAttached, MissionExists
<1>6. ASSUME NEW o \in Offers
      PROVE  /\ offer'[o].status = offer[o].status
             /\ offer'[o].conv = offer[o].conv
             /\ offer[o].mission \notin D => offer'[o] = offer[o]
  BY DEF EraseMissions, TypeOK, OfferRows
<1>7. \A o \in Offers : offer[o].status = "ACCEPTED" =>
                          offer[o].mission \notin D
  BY DEF DealsArePaid, Erasable
<1>8. OffersQuiet
  BY <1>6, <1>7 DEF OffersQuiet, TypeOK, OfferRows, OfferStatus, NoRow
<1> QED
  BY <1>4, <1>5, <1>8

\* DeleteAd is quiet.
LEMMA DeleteAdQuiet ==
  ASSUME TypeOK, DisputesAttached, PaymentMatchesDeal,
         DealsArePaid, NEW a \in Ads, DeleteAd(a)
  PROVE  Quiet
<1> DEFINE D == {m \in Missions : mission[m].ad = a}
<1>1. Erasable(D) /\ EraseMissions(D) /\ D \in SUBSET Missions
  BY DEF DeleteAd
<1>2. MissionsQuiet /\ OffersQuiet /\ DisputesAttached'
  BY <1>1, EraseMissionsQuiet
<1>3. FramesQuiet /\ PaymentsQuiet
  BY SameFramesQuiet DEF DeleteAd, PaymentsQuiet
<1> QED
  BY <1>2, <1>3 DEF Quiet

\* EraseMission is quiet.
LEMMA EraseMissionQuiet ==
  ASSUME TypeOK, DisputesAttached, PaymentMatchesDeal,
         DealsArePaid, NEW s \in Slots, EraseMission(s)
  PROVE  Quiet
<1>1. CASE Refuse(s)
  BY <1>1, RefuseQuiet
<1>2. CASE ~Refuse(s)
  <2>1. PICK m \in Missions : m = req[s].mission
    BY DEF EraseMission, At, TypeOK, Frames, FrameRecords, MissionSteps
  <2>2. MissionsQuiet /\ OffersQuiet /\ DisputesAttached'
    BY <1>2, <2>1, EraseMissionsQuiet DEF EraseMission
  <2>3. FramesQuiet /\ PaymentsQuiet
    BY <1>2, ReplyQuiet DEF EraseMission, PaymentsQuiet
  <2> QED
    BY <2>2, <2>3 DEF Quiet
<1> QED
  BY <1>1, <1>2

----------------------------------------------------------------------------
(* The one step that makes a deal *)

\* What CommitAcceptance does to the deal of mission m and to offer o.
Engages(o, c, m, p) ==
  /\ payment[m].status = "absent"
  /\ mission[m].status = "PENDING"
  /\ offer[o].status \in OfferStatus
  /\ \A x \in Missions \ {m} :
       /\ mission'[x].carrier = mission[x].carrier
       /\ mission'[x].price = mission[x].price
       /\ mission'[x].status = "absent" <=> mission[x].status = "absent"
       /\ MissionExists(x) => MissionExists(x)'
  /\ mission'[m].carrier = Carrier(c)
  /\ mission'[m].price = p
  /\ mission'[m].status = "ACCEPTED"
  /\ payment' = [payment EXCEPT ![m] = [status |-> "PENDING", amount |-> p]]
  /\ offer'[o] = [offer[o] EXCEPT !.status = "ACCEPTED", !.mission = m]
  /\ \A x \in Offers \ {o} :
       \/ offer'[x] = offer[x]
       \/ /\ offer[x].status = "PENDING"
          /\ offer'[x] = [offer[x] EXCEPT !.status = "REJECTED"]
  /\ \A s \in Slots : req'[s] \in {req[s], Idle}
  /\ dispute' = dispute

\* An acceptance that commits makes one deal, of the offer and mission it
\* holds.
LEMMA CommitAcceptanceEngages ==
  ASSUME TypeOK, NEW s \in Slots, CommitAcceptance(s), ~Refuse(s)
  PROVE  /\ req[s].offer \in Offers /\ req[s].conv \in Convs
         /\ req[s].mission \in Missions /\ req[s].price \in Prices
         /\ req[s].at \in AcceptSteps
         /\ Engages(req[s].offer, req[s].conv, req[s].mission, req[s].price)
<1> DEFINE o == req[s].offer
           c == req[s].conv
           m == req[s].mission
           p == req[s].price
<1>1. /\ o \in Offers /\ c \in Convs /\ m \in Missions /\ p \in Prices
      /\ req[s].at \in AcceptSteps
  BY DEF CommitAcceptance, At, TypeOK, Frames, FrameRecords, ConvSteps,
         OfferSteps, PriceSteps, MissionSteps, AcceptSteps
<1>2. /\ payment[m].status = "absent" /\ mission[m].status = "PENDING"
      /\ offer[o].status \in OfferStatus
  BY <1>1 DEF CommitAcceptance, CanEngage, OfferExists, TypeOK, OfferRows
<1>3. ASSUME NEW x \in Missions \ {m}
      PROVE  /\ mission'[x].carrier = mission[x].carrier
             /\ mission'[x].price = mission[x].price
             /\ mission'[x].status = "absent" <=> mission[x].status = "absent"
             /\ mission[x].status \notin NoRow =>
                  mission'[x].status \notin NoRow
  <2>1. mission'[x] = EngagedMission(x, m, Carrier(c), p)
    BY DEF CommitAcceptance
  <2>2. mission[x] \in MissionRows
    BY DEF TypeOK
  <2> QED
    BY <2>1, <2>2 DEF EngagedMission, MissionRows, NoRow
<1>4. /\ mission'[m].carrier = Carrier(c)
      /\ mission'[m].price = p
      /\ mission'[m].status = "ACCEPTED"
  <2>1. mission'[m] = EngagedMission(m, m, Carrier(c), p)
    BY <1>1 DEF CommitAcceptance
  <2>2. mission[m] \in MissionRows
    BY <1>1 DEF TypeOK
  <2> QED
    BY <2>1, <2>2 DEF EngagedMission, MissionRows
<1>5. /\ payment' = [payment EXCEPT ![m] =
                       [status |-> "PENDING", amount |-> p]]
      /\ dispute' = dispute
      /\ offer'[o] = [offer[o] EXCEPT !.status = "ACCEPTED", !.mission = m]
  BY <1>1 DEF CommitAcceptance, SettledOffer
<1>6. \A x \in Offers \ {o} :
        \/ offer'[x] = offer[x]
        \/ /\ offer[x].status = "PENDING"
           /\ offer'[x] = [offer[x] EXCEPT !.status = "REJECTED"]
  BY DEF CommitAcceptance, SettledOffer
<1>7. \A x \in Slots : req'[x] \in {req[x], Idle}
  BY DEF CommitAcceptance, Reply, TypeOK
<1> QED
  BY <1>1, <1>2, <1>3, <1>4, <1>5, <1>6, <1>7 DEF Engages, MissionExists

----------------------------------------------------------------------------
(* Every step is quiet or makes a deal *)

\* A request that arrives is quiet.
LEMMA ArriveQuiet ==
  ASSUME TypeOK, DisputesAttached, NEW s \in Slots, Arrive(s)
  PROVE  Quiet
<1>1. CASE \E c \in Convs :
              OpenConversation(s, c)
  BY <1>1, OpenConversationQuiet
<1>2. CASE \E c \in Convs, u \in Users :
              RemoveConversation(s, c, u)
  BY <1>2, RemoveConversationQuiet
<1>3. CASE \E c \in Convs, u \in Users, p \in Prices :
              SendOffer(s, c, u, p)
  BY <1>3, SendOfferQuiet
<1>4. CASE \E o \in Offers, p \in Prices :
              EditOffer(s, o, p)
  BY <1>4, EditOfferQuiet
<1>5. CASE \E o \in Offers, u \in Users :
              AcceptOffer(s, o, u)
  BY <1>5, AcceptOfferQuiet
<1>6. CASE \E o \in Offers, u \in Users :
              RejectOffer(s, o, u)
  BY <1>6, RejectOfferQuiet
<1>7. CASE \E a \in Ads, u \in Users :
              CreateMission(s, a, u)
  BY <1>7, CreateMissionQuiet
<1>8. CASE \E m \in Missions, p \in Packages,
              step \in {"package_add", "package_remove"} :
              ChangePackages(s, m, p, step)
  BY <1>8, ChangePackagesQuiet DEF PackageSteps
<1>9. CASE \E m \in Missions :
              DeleteMission(s, m)
  BY <1>9, DeleteMissionQuiet
<1>10. CASE \E m \in Missions :
              CancelMission(s, m)
  BY <1>10, CancelMissionQuiet
<1>11. CASE \E m \in Missions, k \in ProofKinds :
              GenerateCode(s, m, k)
  BY <1>11, GenerateCodeQuiet
<1>12. CASE \E m \in Missions, k \in ProofKinds :
              SubmitCode(s, m, k)
  BY <1>12, SubmitCodeQuiet
<1>13. CASE \E m \in Missions :
              OpenDispute(s, m)
  BY <1>13, OpenDisputeQuiet
<1>14. CASE \E m \in Missions, outcome \in {"COMPLETED", "CANCELLED"} :
              ResolveDispute(s, m, outcome)
  BY <1>14, ResolveDisputeQuiet
<1> QED
  BY <1>1, <1>2, <1>3, <1>4, <1>5, <1>6, <1>7, <1>8,
     <1>9, <1>10, <1>11, <1>12, <1>13, <1>14 DEF Arrive

\* A request that goes on is quiet, unless it commits an acceptance.
LEMMA ContinueQuiet ==
  ASSUME TypeOK, DisputesAttached, PaymentMatchesDeal,
         DealsArePaid,
         NEW s \in Slots, Continue(s), ~CommitAcceptance(s)
  PROVE  Quiet
<1>1. CASE WriteConversation(s)
  BY <1>1, WriteConversationQuiet
<1>2. CASE HideConversation(s)
  BY <1>2, HideConversationQuiet
<1>3. CASE EraseConversation(s)
  BY <1>3, EraseConversationQuiet
<1>4. CASE InsertOffer(s)
  BY <1>4, InsertOfferQuiet
<1>5. CASE WakeConversation(s)
  BY <1>5, WakeConversationQuiet
<1>6. CASE ReviveConversation(s)
  BY <1>6, ReviveConversationQuiet
<1>7. CASE WriteOfferEdit(s)
  BY <1>7, WriteOfferEditQuiet
<1>8. CASE CheckCarrierKyc(s)
  BY <1>8, CheckCarrierKycQuiet
<1>9. CASE ReadMissionToAccept(s)
  BY <1>9, ReadMissionToAcceptQuiet
<1>10. CASE WriteRejection(s)
  BY <1>10, WriteRejectionQuiet
<1>11. CASE InsertMission(s)
  BY <1>11, InsertMissionQuiet
<1>12. CASE WritePackages(s)
  BY <1>12, WritePackagesQuiet
<1>13. CASE EraseMission(s)
  BY <1>13, EraseMissionQuiet
<1>14. CASE WriteCancellation(s)
  BY <1>14, WriteCancellationQuiet
<1>15. CASE RereadMission(s)
  BY <1>15, RereadMissionQuiet
<1>16. CASE CancelEffects(s)
  BY <1>16, SideEffectsQuiet
  DEF At, CancelEffects, TypeOK, Frames, FrameRecords, MissionSteps,
      CancelSteps
<1>17. CASE WriteCode(s)
  BY <1>17, WriteCodeQuiet
<1>18. CASE LoadProof(s)
  BY <1>18, LoadProofQuiet
<1>19. CASE CountAttempt(s)
  BY <1>19, CountAttemptQuiet
<1>20. CASE CommitVerification(s)
  BY <1>20, CommitVerificationQuiet
<1>21. CASE CommitDispute(s)
  BY <1>21, CommitDisputeQuiet
<1>22. CASE CommitResolution(s)
  BY <1>22, CommitResolutionQuiet
<1>23. CASE ResolveEffects(s)
  BY <1>23, SideEffectsQuiet
  DEF At, ResolveEffects, TypeOK, Frames, FrameRecords, MissionSteps,
      CancelSteps
<1> QED
  BY <1>1, <1>2, <1>3, <1>4, <1>5, <1>6, <1>7, <1>8,
     <1>9, <1>10, <1>11, <1>12, <1>13, <1>14, <1>15, <1>16,
     <1>17, <1>18, <1>19, <1>20, <1>21, <1>22, <1>23 DEF Continue

\* Every other step is quiet.
LEMMA StepIsQuietOrEngages ==
  ASSUME TypeOK, DisputesAttached, PaymentMatchesDeal,
         DealsArePaid, [Next]_vars,
         \A s \in Slots : CommitAcceptance(s) => Refuse(s)
  PROVE  Quiet
<1>1. CASE \E s \in Slots : Arrive(s)
  BY <1>1, ArriveQuiet
<1>2. CASE \E s \in Slots : Continue(s)
  BY <1>2, ContinueQuiet, RefuseQuiet
<1>3. CASE OneStatement
  <2>1. CASE \E u \in Users : BadgeGranted(u) \/ BadgeRevoked(u)
    BY <2>1, SameFramesQuiet, SideTablesQuiet DEF BadgeGranted, BadgeRevoked
  <2> QED
    BY <1>3, <2>1, PublishAdQuiet, DeleteAdQuiet, DeleteMessageQuiet
    DEF OneStatement
<1>4. CASE Restart
  <2>1. FramesQuiet
    BY <1>4, IdleNotAccepting DEF Restart, FramesQuiet
  <2> QED
    BY <1>4, <2>1, FramesOnlyQuiet DEF Restart
<1>5. CASE UNCHANGED vars
  BY <1>5, SameFramesQuiet, FramesOnlyQuiet DEF vars, db
<1> QED
  BY <1>1, <1>2, <1>3, <1>4, <1>5 DEF Next

----------------------------------------------------------------------------
(* The invariant is inductive *)

\* Settling a payment neither creates one nor changes its amount.
LEMMA PaymentsQuietRows ==
  ASSUME TypeOK, PaymentsQuiet, NEW m \in Missions
  PROVE  /\ payment'[m].status = "absent" <=> payment[m].status = "absent"
         /\ payment'[m].amount = payment[m].amount
BY DEF PaymentsQuiet, TypeOK, PaymentRows

\* A quiet step keeps the invariant.
LEMMA QuietKeepsInv ==
  ASSUME EngagementInv, TypeOK', Quiet
  PROVE  EngagementInv'
<1> USE DEF EngagementInv
<1>1. PaymentMatchesDeal'
  BY PaymentsQuietRows DEF Quiet, PaymentMatchesDeal, MissionsQuiet
<1>2. ASSUME NEW o \in Offers, offer'[o].status = "ACCEPTED"
      PROVE  /\ offer[o].status = "ACCEPTED"
             /\ offer'[o].conv = offer[o].conv
             /\ offer'[o].mission = offer[o].mission
             /\ offer[o].mission \in Missions
  BY <1>2 DEF Quiet, OffersQuiet, DealsArePaid, TypeOK, OfferRows
<1>3. DealsArePaid'
  <2>1. \A m \in Missions :
          mission'[m].status = "absent" => payment'[m].status = "absent"
    BY PaymentsQuietRows DEF Quiet, MissionsQuiet, DealsArePaid
  <2>2. \A o \in Offers : offer'[o].status = "ACCEPTED" =>
          /\ offer'[o].mission # None
          /\ payment'[offer'[o].mission].status # "absent"
    BY <1>2, PaymentsQuietRows, NoneAssumption DEF Quiet, DealsArePaid
  <2>3. ASSUME NEW s \in Slots, req'[s].at \in AcceptSteps
        PROVE  /\ offer'[req'[s].offer].status # "absent"
               /\ offer'[req'[s].offer].status \notin NoRow =>
                    offer'[req'[s].offer].conv = req'[s].conv
    <3> DEFINE o == req'[s].offer
    <3>1. /\ o \in Offers /\ offer[o].status # "absent"
          /\ offer[o].status \notin NoRow => offer[o].conv = req'[s].conv
      BY <2>3
      DEF Quiet, FramesQuiet, DealsArePaid, OfferExists, TypeOK, Frames,
          FrameRecords, OfferSteps
    <3>2. offer'[o].status \in OfferStatus \union NoRow
      BY <3>1 DEF TypeOK, OfferRows
    <3> QED
      BY <3>1, <3>2 DEF Quiet, OffersQuiet, OfferStatus, NoRow
  <2> QED
    BY <2>1, <2>2, <2>3 DEF DealsArePaid, OfferExists
<1>4. OneAcceptedOfferPerMission'
  BY <1>2 DEF OneAcceptedOfferPerMission
<1>5. AcceptedOfferBinds'
  BY <1>2, NoneAssumption DEF AcceptedOfferBinds, Quiet, MissionsQuiet
<1>6. DisputesAttached'
  BY DEF Quiet
<1> QED
  BY <1>1, <1>3, <1>4, <1>5, <1>6

\* The carrier of a conversation is a user.
LEMMA CarrierIsUser ==
  ASSUME NEW c \in Convs
  PROVE  Carrier(c) \in Users
BY IdsAssumption DEF Convs, Carrier

\* A deal that is made keeps the invariant: its mission had neither payment
\* nor accepted offer.
LEMMA EngageKeepsInv ==
  ASSUME EngagementInv, TypeOK', NEW o \in Offers, NEW c \in Convs,
         NEW m \in Missions, NEW p \in Prices, Engages(o, c, m, p),
         offer[o].conv = c
  PROVE  EngagementInv'
<1> USE DEF EngagementInv
<1>1. Carrier(c) # None
  BY CarrierIsUser, NoneAssumption
<1>2. /\ \A x \in Missions \ {m} : payment'[x] = payment[x]
      /\ payment'[m].status = "PENDING" /\ payment'[m].amount = p
  BY DEF Engages, TypeOK
<1>3. PaymentMatchesDeal'
  BY <1>1, <1>2 DEF Engages, PaymentMatchesDeal
<1>4. /\ offer'[o].status = "ACCEPTED" /\ offer'[o].mission = m
      /\ offer'[o].conv = c
  BY DEF Engages, TypeOK, OfferRows
<1>5. ASSUME NEW x \in Offers \ {o}
      PROVE  \/ offer'[x] = offer[x]
             \/ /\ offer[x].status = "PENDING"
                /\ offer'[x].status = "REJECTED"
                /\ offer'[x].conv = offer[x].conv
  BY DEF Engages, TypeOK, OfferRows
<1>6. ASSUME NEW x \in Offers \ {o}, offer'[x].status = "ACCEPTED"
      PROVE  /\ offer[x].status = "ACCEPTED"
             /\ offer'[x] = offer[x]
             /\ offer[x].mission \in Missions \ {m}
  BY <1>5, <1>6 DEF Engages, DealsArePaid, TypeOK, OfferRows
<1>7. DealsArePaid'
  <2>1. \A x \in Missions :
          mission'[x].status = "absent" => payment'[x].status = "absent"
    BY <1>2 DEF Engages, DealsArePaid
  <2>2. \A x \in Offers : offer'[x].status = "ACCEPTED" =>
          /\ offer'[x].mission # None
          /\ payment'[offer'[x].mission].status # "absent"
    BY <1>2, <1>4, <1>6, NoneAssumption DEF DealsArePaid
  <2>3. ASSUME NEW s \in Slots, req'[s].at \in AcceptSteps
        PROVE  /\ offer'[req'[s].offer].status # "absent"
               /\ offer'[req'[s].offer].status \notin NoRow =>
                    offer'[req'[s].offer].conv = req'[s].conv
    <3>1. req'[s] = req[s]
      BY <2>3, IdleNotAccepting DEF Engages
    <3>2. req[s].offer \in Offers
      BY <2>3, <3>1 DEF TypeOK, Frames, FrameRecords, OfferSteps
    <3>3. /\ offer[req[s].offer].status # "absent"
          /\ offer[req[s].offer].status \notin NoRow =>
               offer[req[s].offer].conv = req[s].conv
      BY <2>3, <3>1 DEF DealsArePaid, OfferExists
    <3>4. CASE req[s].offer = o
      <4>1. offer[o].status \notin NoRow
        BY DEF Engages, OfferStatus, NoRow
      <4>2. offer'[o].status \notin {"absent", "erased"}
        BY <1>4
      <4>3. req[s].conv = c
        BY <3>3, <3>4, <4>1
      <4> QED
        BY <3>1, <3>4, <4>2, <4>3, <1>4
    <3>5. CASE req[s].offer # o
      BY <3>1, <3>2, <3>3, <3>5, <1>5 DEF NoRow
    <3> QED
      BY <3>4, <3>5
  <2> QED
    BY <2>1, <2>2, <2>3 DEF DealsArePaid, OfferExists
<1>8. OneAcceptedOfferPerMission'
  BY <1>4, <1>6 DEF OneAcceptedOfferPerMission
<1>9. AcceptedOfferBinds'
  <2>1. ASSUME NEW x \in Offers, offer'[x].status = "ACCEPTED"
        PROVE  /\ offer'[x].mission # None
               /\ mission'[offer'[x].mission].carrier =
                    Carrier(offer'[x].conv)
    <3>1. CASE x = o
      BY <3>1, <1>4, NoneAssumption DEF Engages
    <3>2. CASE x # o
      BY <2>1, <3>2, <1>6, NoneAssumption DEF AcceptedOfferBinds, Engages
    <3> QED
      BY <3>1, <3>2
  <2> QED
    BY <2>1 DEF AcceptedOfferBinds
<1>10. DisputesAttached'
  BY DEF Engages, DisputesAttached, MissionExists, NoRow
<1> QED
  BY <1>3, <1>7, <1>8, <1>9, <1>10

\* The invariant holds when the tables are empty.
LEMMA EngagementInit == Init => EngagementInv
<1> SUFFICES ASSUME Init PROVE EngagementInv
  OBVIOUS
<1>1. TypeOK
  BY TypeInit
<1>2. DisputesAttached
  BY DEF Init, StoreInit, DisputesAttached
<1>3. PaymentMatchesDeal
  BY DEF Init, StoreInit, PaymentMatchesDeal, NoPayment, NoMission, Mission
<1>4. /\ \A o \in Offers : offer[o].status = "absent"
      /\ \A s \in Slots : req[s] = Idle
      /\ \A m \in Missions : payment[m].status = "absent"
  BY DEF Init, StoreInit, NoOffer, NoPayment
<1>5. DealsArePaid /\ OneAcceptedOfferPerMission /\ AcceptedOfferBinds
  BY <1>4, IdleNotAccepting
  DEF DealsArePaid, OneAcceptedOfferPerMission, AcceptedOfferBinds
<1> QED
  BY <1>1, <1>2, <1>3, <1>5 DEF EngagementInv

\* Every step keeps the invariant.
LEMMA EngagementStep == EngagementInv /\ [Next]_vars => EngagementInv'
<1> SUFFICES ASSUME EngagementInv, [Next]_vars PROVE EngagementInv'
  OBVIOUS
<1>1. TypeOK'
  BY TypeStep DEF EngagementInv
<1>2. CASE \A s \in Slots : CommitAcceptance(s) => Refuse(s)
  BY <1>1, <1>2, StepIsQuietOrEngages, QuietKeepsInv DEF EngagementInv
<1>3. CASE \E s \in Slots : CommitAcceptance(s) /\ ~Refuse(s)
  <2>1. PICK s \in Slots : CommitAcceptance(s) /\ ~Refuse(s)
    BY <1>3
  <2>2. PICK o \in Offers, c \in Convs, m \in Missions, p \in Prices :
          /\ o = req[s].offer /\ c = req[s].conv /\ req[s].at \in AcceptSteps
          /\ Engages(o, c, m, p)
    BY <2>1, CommitAcceptanceEngages DEF EngagementInv
  <2>3. offer[o].conv = c
    BY <2>2
    DEF EngagementInv, DealsArePaid, OfferExists, Engages, OfferStatus, NoRow
  <2> QED
    BY <1>1, <2>2, <2>3, EngageKeepsInv
<1> QED
  BY <1>2, <1>3

\* Whatever requests interleave and whenever the process restarts, types,
\* deals, payments, disputes and accepted offers stay consistent.
THEOREM EngagementInvariant == Spec => []EngagementInv
<1>1. Init => EngagementInv
  BY EngagementInit
<1>2. EngagementInv /\ [Next]_vars => EngagementInv'
  BY EngagementStep
<1> QED
  BY <1>1, <1>2, PTL DEF Spec

\* Every table keeps rows of its type, with its NOT NULL columns filled, and
\* every request in flight the operands of its next statements.
THEOREM TypeInvariant == Spec => []TypeOK
BY EngagementInvariant, PTL DEF EngagementInv

\* No two accepted offers name the same mission (OffersService).
THEOREM OneAcceptedOffer == Spec => []OneAcceptedOfferPerMission
BY EngagementInvariant, PTL DEF EngagementInv

\* An accepted offer stays the contract of an engaged mission.
THEOREM AcceptedOffersBind == Spec => []AcceptedOfferBinds
BY EngagementInvariant, PTL DEF EngagementInv

\* Carriers, prices and payments go together.
THEOREM PaymentsMatchDeals == Spec => []PaymentMatchesDeal
BY EngagementInvariant, PTL DEF EngagementInv

(***************************************************************************)
(* The refinement: the marketplace implements the EngagementLedger.  The    *)
(* initial states map to its initial state, a quiet step to the settlement  *)
(* of one payment or to a stutter, and a committed acceptance to the one    *)
(* Engage of a mission.                                                     *)
(***************************************************************************)
\* Before any request, the ledger has no deal and no payment.
LEMMA LedgerInit == Init => Ledger!Init
BY DEF Init, StoreInit, NoMission, Mission, NoPayment, Deals,
       Ledger!Init, Ledger!NoDeal

\* A quiet step keeps the deals and settles at most one payment.
LEMMA QuietRefines ==
  ASSUME TypeOK, Quiet
  PROVE  [Ledger!Next]_<<Deals, payment>>
<1>1. UNCHANGED Deals
  BY DEF Quiet, MissionsQuiet, Deals
<1>2. CASE payment' = payment
  BY <1>1, <1>2
<1>3. CASE payment' # payment
  <2>1. PICK m \in Missions, outcome \in {"COMPLETED", "CANCELLED"} :
          /\ payment[m].status = "PENDING"
          /\ payment' = [payment EXCEPT ![m].status = outcome]
    BY <1>3 DEF Quiet, PaymentsQuiet
  <2>2. Ledger!Settle(m, outcome)
    BY <1>1, <2>1 DEF Ledger!Settle, Deals
  <2> QED
    BY <2>2 DEF Ledger!Next
<1> QED
  BY <1>2, <1>3

\* A committed acceptance finds no deal, and makes one.
LEMMA EngageRefines ==
  ASSUME EngagementInv, NEW o \in Offers, NEW c \in Convs, NEW m \in Missions,
         NEW p \in Prices, Engages(o, c, m, p)
  PROVE  Ledger!Next
<1>1. payment[m].status = "absent"
  BY DEF Engages
<1>2. Deals[m] = [carrier |-> None, price |-> None]
  BY <1>1
  DEF EngagementInv, PaymentMatchesDeal, TypeOK, PaymentRows, Deals
<1>3. Deals' = [Deals EXCEPT ![m] = [carrier |-> Carrier(c), price |-> p]]
  <2>1. Deals'[m] = [carrier |-> Carrier(c), price |-> p]
    BY DEF Engages, Deals
  <2>2. \A x \in Missions \ {m} : Deals'[x] = Deals[x]
    BY DEF Engages, Deals
  <2>3. /\ Deals = [x \in Missions |-> Deals[x]]
        /\ Deals' = [x \in Missions |-> Deals'[x]]
    BY DEF Deals
  <2> QED
    BY <2>1, <2>2, <2>3
<1>4. payment' = [payment EXCEPT ![m] =
                    [status |-> "PENDING", amount |-> p]]
  BY DEF Engages
<1>5. Ledger!Engage(m, Carrier(c), p)
  BY <1>1, <1>2, <1>3, <1>4 DEF Ledger!Engage, Ledger!NoDeal, Deals
<1> QED
  BY <1>5, CarrierIsUser DEF Ledger!Next

\* Every step of the marketplace is a step of the ledger or a stutter.
LEMMA StepRefines ==
  EngagementInv /\ [Next]_vars => [Ledger!Next]_<<Deals, payment>>
<1> SUFFICES ASSUME EngagementInv, [Next]_vars
             PROVE  [Ledger!Next]_<<Deals, payment>>
  OBVIOUS
<1>1. CASE \A s \in Slots : CommitAcceptance(s) => Refuse(s)
  BY <1>1, StepIsQuietOrEngages, QuietRefines DEF EngagementInv
<1>2. CASE \E s \in Slots : CommitAcceptance(s) /\ ~Refuse(s)
  <2>1. PICK s \in Slots : CommitAcceptance(s) /\ ~Refuse(s)
    BY <1>2
  <2>2. PICK o \in Offers, c \in Convs, m \in Missions,
             p \in Prices : Engages(o, c, m, p)
    BY <2>1, CommitAcceptanceEngages DEF EngagementInv
  <2> QED
    BY <2>2, EngageRefines
<1> QED
  BY <1>1, <1>2

\* Every behaviour of the marketplace is a behaviour of the ledger, for every
\* number of requests in flight and with restarts: a mission is engaged at
\* most once, and its payment is settled at most once.
THEOREM LedgerIsImplemented == Spec => ImplementsLedger
<1>1. Init => Ledger!Init
  BY LedgerInit
<1>2. EngagementInv /\ [Next]_vars => [Ledger!Next]_<<Deals, payment>>
  BY StepRefines
<1> QED
  BY <1>1, <1>2, EngagementInvariant, PTL
  DEF Spec, ImplementsLedger, Ledger!Spec
=============================================================================
