------------------------------ MODULE Aftercare ------------------------------
(***************************************************************************)
(* What follows a mission: the parties rate each other (RatingsService),    *)
(* and the team follows a dispute in a ticket of an external tracker        *)
(* (DisputesService, GithubIssuesTracker), which no handler awaits.         *)
(***************************************************************************)
EXTENDS Marketplace

VARIABLES
  rating,   \* rows of mission_ratings: whom a user rated for a mission
  rater,    \* ratings in flight: <<mission, rater, rated>>
  ticket,   \* the tracker's ticket of each dispute, external
  number,   \* disputes whose githubIssueNumber is set
  filing,   \* how far the ticket of each dispute is from having its number
  seen,     \* what the resolution in each slot read of number
  closing,  \* the outcomes that the tracker is being told, per dispute
  verdict   \* history: the outcome that each resolution committed

care == <<rating, rater, ticket, number, filing, seen, closing, verdict>>
allVars == <<vars, care>>

NoTicket == [state |-> "none", outcome |-> None]

AftercareInit ==
  /\ Init
  /\ rating = [x \in Missions \X Users |-> None]
  /\ rater = {}
  /\ ticket = [m \in Missions |-> NoTicket]
  /\ number = {}
  /\ filing = [m \in Missions |-> "idle"]
  /\ seen = [s \in Slots |-> FALSE]
  /\ closing = [m \in Missions |-> {}]
  /\ verdict = [m \in Missions |-> None]

----------------------------------------------------------------------------
(* Ratings *)

\* Fault: a mission that was engaged may be rated at once.
RateableEarly(m, u) ==
  /\ MissionExists(m)
  /\ u \in {mission[m].shipper, mission[m].carrier}

\* The guards of create, on one read of the mission.
Rateable(m, u) ==
  /\ mission[m].status = "COMPLETED"
  /\ u \in {mission[m].shipper, mission[m].carrier}
  /\ mission[m].carrier # None

RateMission(m, u) ==
  /\ "rate" \in Ops
  /\ Rateable(m, u)
  /\ rater' = rater \union {<<m, u,
       IF u = mission[m].shipper THEN mission[m].carrier
                                 ELSE mission[m].shipper>>}
  /\ UNCHANGED <<vars, rating, ticket, number, filing, seen, closing, verdict>>

\* The insert, refused to the same rater of the same mission.
InsertRating(x) ==
  /\ x \in rater
  /\ rater' = rater \ {x}
  /\ rating' = IF MissionExists(x[1]) /\ rating[<<x[1], x[2]>>] = None
               THEN [rating EXCEPT ![<<x[1], x[2]>>] = x[3]] ELSE rating
  /\ UNCHANGED <<vars, ticket, number, filing, seen, closing, verdict>>

----------------------------------------------------------------------------
(* The tracker *)

\* openTicket: the issue is created, or the call fails and is logged.
FileTicket(m) ==
  /\ filing[m] = "asked"
  /\ \/ /\ ticket' = [ticket EXCEPT ![m].state = "open"]
        /\ filing' = [filing EXCEPT ![m] = "answered"]
     \/ /\ filing' = [filing EXCEPT ![m] = "idle"]
        /\ ticket' = ticket
  /\ UNCHANGED <<vars, rating, rater, number, seen, closing, verdict>>

\* The number is stored when the tracker has answered.
StoreNumber(m) ==
  /\ filing[m] = "answered"
  /\ filing' = [filing EXCEPT ![m] = "idle"]
  /\ number' = IF dispute[m] # "absent" THEN number \union {m} ELSE number
  /\ UNCHANGED <<vars, rating, rater, ticket, seen, closing, verdict>>

\* closeTicket: a comment with the outcome, then the closing; either call may
\* fail, and the second is tried whatever the first did.
CloseTicket(m, outcome) ==
  /\ outcome \in closing[m]
  /\ closing' = [closing EXCEPT ![m] = @ \ {outcome}]
  /\ \E state \in {ticket[m].state, "closed"}, told \in {ticket[m].outcome, outcome} :
       ticket' = [ticket EXCEPT ![m] = [state |-> state, outcome |-> told]]
  /\ UNCHANGED <<vars, rating, rater, number, filing, seen, verdict>>

----------------------------------------------------------------------------
(* What the steps of the marketplace start *)

\* A dispute that a commit opened is filed, after the side effects of its
\* status.
FilesTickets ==
  filing' = [m \in Missions |->
    IF dispute[m] = "absent" /\ dispute'[m] = "OPEN" THEN "asked" ELSE filing[m]]

\* A resolution reads the number with the dispute.
ReadsNumber(s) ==
  seen' = IF At(s, "idle") /\ req'[s].at = "resolve_commit"
          THEN [seen EXCEPT ![s] = req'[s].mission \in number] ELSE seen

\* Fault: the tracker is told before the dispute is known to be still open.
TellsTrackerEarly(s) ==
  closing' = IF At(s, "resolve_commit") /\ seen[s]
             THEN [closing EXCEPT ![req[s].mission] = @ \union {req[s].status}]
             ELSE closing

\* closeTrackerTicket, after the side effects: without a number nothing is
\* told.
TellsTracker(s) ==
  closing' = IF At(s, "resolve_effects") /\ seen[s]
             THEN [closing EXCEPT ![req[s].mission] = @ \union {req[s].status}]
             ELSE closing

RecordsVerdict(s) ==
  verdict' = [m \in Missions |->
    IF dispute[m] = "OPEN" /\ dispute'[m] = "RESOLVED" THEN req[s].status
    ELSE verdict[m]]

\* Ratings go with their mission.
CascadesRatings ==
  rating' = [x \in Missions \X Users |->
    IF mission'[x[1]].status = "erased" THEN None ELSE rating[x]]

Serve(s) ==
  /\ Arrive(s) \/ Continue(s)
  /\ FilesTickets /\ ReadsNumber(s) /\ TellsTracker(s) /\ RecordsVerdict(s)
  /\ CascadesRatings
  /\ UNCHANGED <<rater, ticket, number>>

\* Deleting an advertisement takes its missions along.
ServeAtOnce ==
  /\ OneStatement
  /\ CascadesRatings
  /\ UNCHANGED <<rater, ticket, number, filing, seen, closing, verdict>>

\* A restart forgets what nobody awaited.
RestartCare ==
  /\ "restart" \in Ops
  /\ \/ \E s \in Slots : req[s] # Idle
     \/ rater # {}
     \/ \E m \in Missions : filing[m] # "idle" \/ closing[m] # {}
  /\ req' = [s \in Slots |-> Idle]
  /\ rater' = {}
  /\ filing' = [m \in Missions |-> "idle"]
  /\ closing' = [m \in Missions |-> {}]
  /\ UNCHANGED <<db, rating, ticket, number, seen, verdict>>

AftercareNext ==
  \/ \E s \in Slots : Serve(s)
  \/ ServeAtOnce
  \/ RestartCare
  \/ \E m \in Missions, u \in Users : RateMission(m, u)
  \/ \E x \in rater : InsertRating(x)
  \/ \E m \in Missions :
       \/ FileTicket(m) \/ StoreNumber(m)
       \/ \E outcome \in closing[m] : CloseTicket(m, outcome)

AftercareSpec == AftercareInit /\ [][AftercareNext]_allVars

----------------------------------------------------------------------------
\* What a completed mission may become: a dispute reopens it, or a submission
\* that loaded the pickup code finds its use undone by a newer code.
StaysDelivered(m) ==
  \/ mission[m].status = "COMPLETED"
  \/ dispute[m] # "absent"
  \/ mission[m].status = "IN_TRANSIT" /\ proof[<<m, "PICKUP">>].code > 1

\* A rating is of the other party of the deal, once, and stays true to it: the
\* mission still exists, between the same two users, and is still completed
\* unless it was disputed or its pickup code was generated anew
\* (RatingsService.create reads the mission once and inserts later; disputes,
\* late codes and cancellations run meanwhile).
RatingsMatchDeal ==
  \A m \in Missions, u \in Users : rating[<<m, u>>] # None =>
    /\ MissionExists(m)
    /\ u # rating[<<m, u>>]
    /\ {u, rating[<<m, u>>]} = {mission[m].shipper, mission[m].carrier}
    /\ StaysDelivered(m)

\* The team never reads in a ticket an outcome that was not written: a ticket
\* is closed for a resolved dispute only, and its comment tells the verdict of
\* the resolution that won (DisputesService.resolve, "une seule écrit").
TicketTellsVerdict ==
  \A m \in Missions :
    /\ ticket[m].state = "closed" => dispute[m] = "RESOLVED"
    /\ ticket[m].outcome \in {None, verdict[m]}
=============================================================================
