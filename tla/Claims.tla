------------------------------- MODULE Claims -------------------------------
(***************************************************************************)
(* What comments and documentation of the repository say of every state,    *)
(* and the handlers do not keep: each is refuted by a run of its own.       *)
(***************************************************************************)
EXTENDS SerialMarketplace

\* missions.service.ts: a failure half way must not leave a mission
\* CANCELLED with its transaction still PENDING.  Claimed of every state in
\* which no request is being served.
NoHalfCancellation ==
  AtRest => \A m \in Missions :
    mission[m].status = "CANCELLED" => payment[m].status # "PENDING"

\* DOCUMENTATION.md: a transaction is CANCELLED if its mission is cancelled.
\* Claimed of every state: no mission is on the road with a CANCELLED payment.
TransportIsPaidFor ==
  \A m \in Missions :
    mission[m].status = "IN_TRANSIT" => payment[m].status # "CANCELLED"

\* messages.service.ts: the guarded write keeps the chat from showing a price
\* other than the price of the engaged mission.
ChatPriceIsMissionPrice ==
  \A o \in Offers : offer[o].status = "ACCEPTED" =>
    offer[o].price = mission[offer[o].mission].price

\* missions.controller.ts: no package joins a mission once a carrier has
\* accepted it, so those of a mission on the road have all been picked up.
NoParcelLeftBehind ==
  \A m \in Missions : mission[m].status = "IN_TRANSIT" =>
    \A p \in mission[m].packages : pkg[p] # "PENDING"
=============================================================================
