-------------------------- MODULE EngagementLedger --------------------------
(***************************************************************************)
(* What the marketplace promises about money, whatever requests interleave  *)
(* and whenever the process restarts: a mission is engaged at most once,    *)
(* with one carrier at one price; the payment of that price appears in the  *)
(* same step, is paid or cancelled at most once, and neither the deal nor   *)
(* the payment is ever changed or erased.                                   *)
(***************************************************************************)
CONSTANTS Missions, Users, Prices, None

VARIABLES deal, payment

NoDeal == [carrier |-> None, price |-> None]

Init ==
  /\ deal = [m \in Missions |-> NoDeal]
  /\ payment = [m \in Missions |-> [status |-> "absent", amount |-> None]]

Engage(m, u, p) ==
  /\ deal[m] = NoDeal
  /\ payment[m].status = "absent"
  /\ deal' = [deal EXCEPT ![m] = [carrier |-> u, price |-> p]]
  /\ payment' = [payment EXCEPT ![m] = [status |-> "PENDING", amount |-> p]]

Settle(m, outcome) ==
  /\ payment[m].status = "PENDING"
  /\ payment' = [payment EXCEPT ![m].status = outcome]
  /\ UNCHANGED deal

Next ==
  \E m \in Missions :
    \/ \E u \in Users, p \in Prices : Engage(m, u, p)
    \/ \E outcome \in {"COMPLETED", "CANCELLED"} : Settle(m, outcome)

Spec == Init /\ [][Next]_<<deal, payment>>
=============================================================================
