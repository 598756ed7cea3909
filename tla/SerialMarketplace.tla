-------------------------- MODULE SerialMarketplace --------------------------
(***************************************************************************)
(* What the handlers guarantee when requests are served one at a time (one  *)
(* slot, no restart): the guards they read still hold when they write.      *)
(***************************************************************************)
EXTENDS Marketplace

AtRest == \A s \in Slots : req[s] = Idle

\* The phase of a mission.  A cancellation counts from its side effects on.
Phase(m) ==
  LET unsettled == payment[m].status = "PENDING"
  IN CASE mission[m].status = "absent"     -> "none"
       [] mission[m].status = "erased"     -> "gone"
       [] mission[m].status = "PENDING"    -> "open"
       [] mission[m].status = "ACCEPTED"   -> "agreed"
       [] mission[m].status = "IN_TRANSIT" -> "carried"
       [] mission[m].status = "DISPUTED"   -> "contested"
       [] mission[m].status = "COMPLETED"  -> "honoured"
       [] mission[m].status = "CANCELLED" /\ ~unsettled -> "void"
       [] OTHER -> IF dispute[m] = "RESOLVED" THEN "contested" ELSE "agreed"

Contract == INSTANCE MissionContract WITH
  phase <- [m \in Missions |-> Phase(m)],
  money <- [m \in Missions |-> payment[m].status]

\* Served one at a time, every request moves a mission along the documented
\* state machine and settles its payment as one change.
ImplementsContract == Contract!Spec

\* Served one at a time, a dispute is OPEN exactly while its mission waits
\* for the arbitration (MissionsController: "le litige resterait OPEN").
OpenDisputeIffDisputed ==
  \A m \in Missions :
    dispute[m] = "OPEN" <=> mission[m].status = "DISPUTED"

\* Served one at a time, the packages of a mission are frozen once a carrier
\* has accepted it (MissionsController: "le périmètre est figé").
EngagedPackagesFrozen ==
  [][\A m \in Missions : mission[m].carrier # None =>
       mission'[m].packages = mission[m].packages]_mission

\* At rest, an advertisement that has only ever had one mission shows where
\* that mission stands: the side effects and the commits agree on it.
AdFollowsSoleMission ==
  \A m \in Missions :
    /\ AtRest
    /\ MissionExists(m)
    /\ \A x \in Missions \ {m} : mission[x].status = "absent"
    => ad[mission[m].ad] =
         CASE mission[m].status \in {"ACCEPTED", "IN_TRANSIT", "DISPUTED"}
                -> "IN_PROGRESS"
           [] mission[m].status = "COMPLETED" -> "COMPLETED"
           [] OTHER -> "OPEN"
=============================================================================
