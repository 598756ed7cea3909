--------------------------- MODULE MissionContract ---------------------------
(***************************************************************************)
(* The life of a mission as its two parties are told it (the state machine  *)
(* of DOCUMENTATION.md with the payment): a change of phase and what it     *)
(* does to the money are one step.                                          *)
(***************************************************************************)
CONSTANT Missions

VARIABLES phase, money

Init ==
  /\ phase = [m \in Missions |-> "none"]
  /\ money = [m \in Missions |-> "absent"]

Move(m, from, to) == phase[m] \in from /\ phase' = [phase EXCEPT ![m] = to]
Pay(m, to) ==
  money[m] = "PENDING" /\ money' = [money EXCEPT ![m] = to]

Propose(m)  == Move(m, {"none"}, "open") /\ UNCHANGED money

\* One candidate is retained, every other open one it competes with is void.
Agree(m, losers) ==
  /\ phase[m] = "open"
  /\ money[m] = "absent"
  /\ \A x \in losers : phase[x] = "open"
  /\ phase' = [x \in Missions |-> IF x = m THEN "agreed"
                                  ELSE IF x \in losers THEN "void" ELSE phase[x]]
  /\ money' = [money EXCEPT ![m] = "PENDING"]

PickUp(m)   == Move(m, {"agreed"}, "carried") /\ UNCHANGED money
Deliver(m)  == Move(m, {"carried"}, "honoured") /\ Pay(m, "COMPLETED")
Abandon(m)  == Move(m, {"open"}, "void") /\ UNCHANGED money
CallOff(m)  == Move(m, {"agreed"}, "void") /\ Pay(m, "CANCELLED")
Contest(m)  == Move(m, {"agreed", "carried"}, "contested") /\ UNCHANGED money
Uphold(m)   == Move(m, {"contested"}, "honoured") /\ UNCHANGED money
Reverse(m)  == Move(m, {"contested"}, "void") /\ Pay(m, "CANCELLED")

\* Missions that nobody owes money for may be deleted, together with their
\* advertisement or alone.
Withdraw(D) ==
  /\ \A m \in D : phase[m] \in {"open", "void"} /\ money[m] = "absent"
  /\ phase' = [m \in Missions |-> IF m \in D THEN "gone" ELSE phase[m]]
  /\ UNCHANGED money

Next ==
  \/ \E m \in Missions :
       \/ Propose(m) \/ PickUp(m) \/ Deliver(m) \/ Abandon(m) \/ CallOff(m)
       \/ Contest(m) \/ Uphold(m) \/ Reverse(m)
       \/ \E losers \in SUBSET (Missions \ {m}) : Agree(m, losers)
  \/ \E D \in SUBSET Missions : Withdraw(D)

Spec == Init /\ [][Next]_<<phase, money>>
=============================================================================
