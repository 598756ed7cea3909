------------------------------- MODULE Store -------------------------------
(***************************************************************************)
(* The PostgreSQL tables the handlers of the marketplace share, and the     *)
(* requests that are being served.                                          *)
(*                                                                          *)
(* A request occupies a slot from the moment its first read has passed its  *)
(* guards until it answers.  Its frame holds the label of the next          *)
(* statement to run (at) and the values read earlier that later statements  *)
(* still use.  Statements that the code awaits one by one are steps of      *)
(* their own, so other requests run between them; a $transaction is one     *)
(* step, taken when it commits.  A request whose first read fails its       *)
(* guards changes nothing, and is simply not begun.                         *)
(***************************************************************************)
EXTENDS Integers, FiniteSets

CONSTANTS
  Users, Ads, Missions, Offers, Packages, Prices,
  AdType,           \* [Ads -> {"SHIPPING", "DELIVERY"}], immutable
  AdAuthor,         \* [Ads -> Users], immutable
  PackageOwner,     \* [Packages -> Users], immutable
  Verified,         \* users whose identity was verified beforehand
  Slots,            \* requests served at the same time (bound)
  Ops,              \* the kinds of requests of this instance
  MAX_OTP_ATTEMPTS, \* ProofService.MAX_OTP_ATTEMPTS (5 in the code)
  MaxCodes,         \* codes generated per proof (bound)
  None

MissionStatus == {"PENDING", "ACCEPTED", "IN_TRANSIT", "COMPLETED",
                  "CANCELLED", "DISPUTED"}
AdStatus      == {"OPEN", "IN_PROGRESS", "COMPLETED"}
ConvStatus    == {"ACTIVE", "ARCHIVED", "DELETED"}
OfferStatus   == {"PENDING", "ACCEPTED", "REJECTED"}
PaymentStatus == {"PENDING", "COMPLETED", "CANCELLED"}
PackageStatus == {"PENDING", "PICKED_UP", "DELIVERED"}
ProofKinds    == {"PICKUP", "DELIVERY"}

\* A row that was never inserted is absent; ids are never reused, so a
\* deleted row stays erased.
NoRow == {"absent", "erased"}

\* The trio (advertisement, shipper, carrier) is unique, and one member of
\* the pair is the author: the other user identifies the conversation.
Convs == {c \in Ads \X Users : c[2] # AdAuthor[c[1]]}

Shipper(c) == IF AdType[c[1]] = "SHIPPING" THEN AdAuthor[c[1]] ELSE c[2]
Carrier(c) == IF AdType[c[1]] = "SHIPPING" THEN c[2] ELSE AdAuthor[c[1]]
Parties(c) == {Shipper(c), Carrier(c)}
Owned(u)   == {p \in Packages : PackageOwner[p] = u}

ASSUME IdsAssumption ==
  /\ AdType \in [Ads -> {"SHIPPING", "DELIVERY"}]
  /\ AdAuthor \in [Ads -> Users]
  /\ PackageOwner \in [Packages -> Users]
  /\ Verified \subseteq Users

ASSUME NoneAssumption ==
  /\ None \notin Users /\ None \notin Ads /\ None \notin Missions
  /\ None \notin Offers /\ None \notin Packages /\ None \notin Prices
  /\ None \notin Convs /\ None \notin MissionStatus /\ None \notin ProofKinds

ASSUME BoundsAssumption ==
  /\ IsFiniteSet(Slots)
  /\ MAX_OTP_ATTEMPTS \in Nat \ {0}
  /\ MaxCodes \in Nat

VARIABLES
  ad,       \* status of each advertisement
  mission, conv, offer, payment, dispute, proof,
  pkg,      \* status of each package
  kyc,      \* users whose idCardVerifiedAt is set
  req       \* the frame of each slot

db   == <<ad, mission, conv, offer, payment, dispute, proof, pkg, kyc>>
vars == <<ad, mission, conv, offer, payment, dispute, proof, pkg, kyc, req>>

----------------------------------------------------------------------------
Steps == {"idle",
  "dossier_write", "conv_hide", "conv_retain", "conv_delete",
  "offer_insert", "offer_wake", "offer_revive", "offer_edit",
  "accept_kyc", "accept_read", "accept_commit", "offer_reject",
  "mission_insert", "package_add", "package_remove", "mission_delete",
  "cancel_write", "cancel_reread", "cancel_effects",
  "code_write", "verify_load", "verify_count", "verify_commit",
  "dispute_open", "resolve_commit", "resolve_effects"}

Mission(status, a, shipper, packages) ==
  [status |-> status, ad |-> a, shipper |-> shipper, carrier |-> None,
   price |-> None, packages |-> packages]

NoMission == Mission("absent", None, None, {})
NoConv    == [status |-> "absent", mission |-> None, hidden |-> {}]
NoOffer   == [status |-> "absent", conv |-> None, author |-> None,
              price |-> None, mission |-> None]
NoPayment == [status |-> "absent", amount |-> None]
NoProof   == [code |-> 0, used |-> FALSE, attempts |-> 0]

Idle == [at |-> "idle", who |-> None, ad |-> None, mission |-> None,
         conv |-> None, offer |-> None, pkg |-> None, kind |-> None,
         price |-> None, status |-> None, code |-> 0]

FrameRecords ==
  [at : Steps, who : Users \union {None}, ad : Ads \union {None},
   mission : Missions \union {None}, conv : Convs \union {None},
   offer : Offers \union {None}, pkg : Packages \union {None},
   kind : ProofKinds \union {None}, price : Prices \union {None},
   status : MissionStatus \union {None}, code : Nat]

\* A frame holds the operands that the statements still to run use.
AcceptSteps == {"accept_kyc", "accept_read", "accept_commit"}
CodeSteps   == {"code_write", "verify_load", "verify_count", "verify_commit"}
ConvSteps   == AcceptSteps \union
  {"dossier_write", "conv_hide", "conv_retain", "conv_delete",
   "offer_insert", "offer_wake", "offer_revive"}
OfferSteps  == AcceptSteps \union {"offer_edit", "offer_reject"}
PriceSteps  == AcceptSteps \union {"offer_edit", "offer_insert"}
UserSteps   == {"conv_hide", "conv_retain", "conv_delete", "offer_insert",
                "mission_insert"}
PackageSteps == {"package_add", "package_remove"}
CancelSteps  == {"cancel_write", "cancel_effects"}
MissionSteps == AcceptSteps \union CodeSteps \union
  PackageSteps \union CancelSteps \union
  {"mission_delete", "cancel_reread",
   "dispute_open", "resolve_commit", "resolve_effects"}

Frames == {f \in FrameRecords :
  /\ f.at \in ConvSteps    => f.conv # None
  /\ f.at \in OfferSteps   => f.offer # None
  /\ f.at \in PriceSteps   => f.price # None
  /\ f.at \in UserSteps    => f.who # None
  /\ f.at \in MissionSteps => f.mission # None
  /\ f.at \in PackageSteps => f.pkg # None
  /\ f.at \in CodeSteps    => f.kind # None
  /\ f.at \in CancelSteps  => f.status # None
  /\ f.at = "mission_insert" => f.ad # None
  /\ f.at \in {"resolve_commit", "resolve_effects"} =>
       f.status \in {"COMPLETED", "CANCELLED"}}

\* The rows of each table; a column that is NOT NULL is never None.
MissionRows ==
  {r \in [status : MissionStatus \union NoRow, ad : Ads \union {None},
          shipper : Users \union {None}, carrier : Users \union {None},
          price : Prices \union {None}, packages : SUBSET Packages] :
     r.status \in MissionStatus => r.ad # None /\ r.shipper # None}
ConvRows ==
  [status : ConvStatus \union NoRow, mission : Missions \union {None},
   hidden : SUBSET Users]
OfferRows ==
  {r \in [status : OfferStatus \union NoRow, conv : Convs \union {None},
          author : Users \union {None}, price : Prices \union {None},
          mission : Missions \union {None}] :
     r.status \in OfferStatus =>
       r.conv # None /\ r.author # None /\ r.price # None}
PaymentRows ==
  {r \in [status : PaymentStatus \union {"absent"},
          amount : Prices \union {None}] :
     r.status = "absent" <=> r.amount = None}
ProofRows == [code : Nat, used : BOOLEAN, attempts : Nat]

\* The type invariant: every table holds rows of its type and every request
\* in flight the operands of what it still has to do.
TypeOK ==
  /\ ad \in [Ads -> AdStatus \union NoRow]
  /\ mission \in [Missions -> MissionRows]
  /\ conv \in [Convs -> ConvRows]
  /\ offer \in [Offers -> OfferRows]
  /\ payment \in [Missions -> PaymentRows]
  /\ dispute \in [Missions -> {"absent", "OPEN", "RESOLVED"}]
  /\ proof \in [Missions \X ProofKinds -> ProofRows]
  /\ pkg \in [Packages -> PackageStatus]
  /\ kyc \subseteq Users
  /\ req \in [Slots -> Frames]

StoreInit ==
  /\ ad = [a \in Ads |-> "absent"]
  /\ mission = [m \in Missions |-> NoMission]
  /\ conv = [c \in Convs |-> NoConv]
  /\ offer = [o \in Offers |-> NoOffer]
  /\ payment = [m \in Missions |-> NoPayment]
  /\ dispute = [m \in Missions |-> "absent"]
  /\ proof = [x \in Missions \X ProofKinds |-> NoProof]
  /\ pkg = [p \in Packages |-> "PENDING"]
  /\ kyc = Verified
  /\ req = [s \in Slots |-> Idle]

----------------------------------------------------------------------------
AdExists(a)      == ad[a] \notin NoRow
MissionExists(m) == mission[m].status \notin NoRow
ConvExists(c)    == conv[c].status \notin NoRow
OfferExists(o)   == offer[o].status \notin NoRow
FreshMission(m)  == mission[m].status = "absent"

Begin(s, frame) == req[s] = Idle /\ req' = [req EXCEPT ![s] = frame]
At(s, step)     == req[s].at = step
Goto(s, step)   == req' = [req EXCEPT ![s].at = step]
Reply(s)        == req' = [req EXCEPT ![s] = Idle]
\* An error answer after the first read: nothing is written.
Refuse(s)       == Reply(s) /\ UNCHANGED db

\* Fault: the row of transactions no longer refuses the statement.
ErasableAnyway(D) == TRUE

\* DELETE of the mission rows D with the foreign keys of the schema: proofs,
\* dispute and package links cascade, conversations and offers lose the
\* reference, a row of transactions refuses the statement.
Erasable(D) == \A m \in D : payment[m].status = "absent"

EraseMissions(D) ==
  /\ mission' = [m \in Missions |->
       IF m \in D THEN [NoMission EXCEPT !.status = "erased"] ELSE mission[m]]
  /\ dispute' = [m \in Missions |-> IF m \in D THEN "absent" ELSE dispute[m]]
  /\ proof' = [x \in Missions \X ProofKinds |->
       IF x[1] \in D THEN NoProof ELSE proof[x]]
  /\ conv' = [c \in Convs |->
       IF conv[c].mission \in D THEN [conv[c] EXCEPT !.mission = None]
       ELSE conv[c]]
  /\ offer' = [o \in Offers |->
       IF offer[o].mission \in D THEN [offer[o] EXCEPT !.mission = None]
       ELSE offer[o]]
=============================================================================
