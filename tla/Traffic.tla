------------------------------- MODULE Traffic -------------------------------
(***************************************************************************)
(* The requests that the parts of the platform around the marketplace       *)
(* serve: a worker runs one handler, statement by statement, as a slot does *)
(* in Store.                                                                *)
(*                                                                          *)
(* load is the mix of a behaviour: the kinds of requests that arrive, the   *)
(* users who have an account at the start, those who may open one, and the  *)
(* addresses and numbers that forms are filled with.  It is chosen at the   *)
(* start among Loads and never changes, so that one instance can look at    *)
(* several mixes.                                                           *)
(***************************************************************************)
EXTENDS Integers, FiniteSets

CONSTANTS
  Users, Emails, Phones,
  Workers,  \* requests served at the same time (bound)
  Loads,    \* the mixes of requests of the instance
  Nil

ASSUME NilAssumption ==
  Nil \notin Users /\ Nil \notin Emails /\ Nil \notin Phones

ASSUME LoadsAssumption ==
  \A l \in Loads :
    /\ l.members \subseteq Users /\ l.newcomers \subseteq Users
    /\ l.emails \subseteq Emails /\ l.phones \subseteq Phones

VARIABLES
  load,
  task      \* what each worker is doing

Free == [at |-> "idle", user |-> Nil, kind |-> Nil, addr |-> Nil,
         phone |-> Nil, seen |-> Nil, row |-> Nil, next |-> "idle"]

Arrives(kind) == kind \in load.kinds

\* A worker takes a request, goes on with it, or answers.
Start(w, frame) == task[w] = Free /\ task' = [task EXCEPT ![w] = frame]
Doing(w, step)  == task[w].at = step
Then(w, step)   == task' = [task EXCEPT ![w].at = step]
Answer(w)       == task' = [task EXCEPT ![w] = Free]

TrafficInit == load \in Loads /\ task = [w \in Workers |-> Free]
=============================================================================
