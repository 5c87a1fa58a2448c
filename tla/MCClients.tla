----------------------------- MODULE MCClients -----------------------------
(***************************************************************************)
(* Clients on small sets, see Clients.cfg.                                 *)
(***************************************************************************)
EXTENDS Clients, FiniteSets, TLC

MCOwner == "e1" :> "u1" @@ "e2" :> "u2"
MCEmployeeChoices == {{"u1"}}
MCEmploymentChoices == {{"e1"}}

\* lock numbers in which an operation and a person alternate
MCRank == "o1" :> 1 @@ "p1" :> 2 @@ "p2" :> 3 @@ "o2" :> 4

Empty == [f \in Cells!Fields |-> 0]

\* The second day of the plan starts empty, the first with one or two
\* times; a model that is not in part starts in one of its initial states.
MCInit ==
  /\ Init
  /\ part \notin {"events", "fixed"} => nextId = 1 /\ scope = {}
  /\ server["d2"] = Empty /\ server["d1"]["departure_time"] = 2
  /\ part # "cells" => server["d1"]["arrival_time"] = 0

\* At most two users and employments are out of service at a time, one of them before
\* the last update, and one save of the first day that the browser has given up is with
\* the server.
MCBound ==
  /\ Cardinality((Employments \ valid) \cup (Users \ active)) <= (IF puts = MaxPuts THEN 2 ELSE 1)
  /\ late["d2"] = {} /\ Cardinality(late["d1"]) <= 1

\* Administrators are alike.
MCSymmetry == Permutations(Admins)

MCSpec == MCInit /\ [][Next]_vars
=============================================================================
