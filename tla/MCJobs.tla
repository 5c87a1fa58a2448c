------------------------------- MODULE MCJobs -------------------------------
(***************************************************************************)
(* BackgroundJobs on small sets, see Jobs.cfg.                             *)
(***************************************************************************)
EXTENDS BackgroundJobs, TLC

MCOwner == "e1" :> "u1" @@ "e2" :> "u1" @@ "e3" :> "u2"

\* A model that is not in part starts in one of its initial states.
MCInit == Init /\ (part # "locking" => emp = [e \in Employments |-> "none"])

\* Web requests use the connections of one worker only.
MCBound == web["w2"] = {}

MCSpec == MCInit /\ [][Next]_vars
=============================================================================
