------------------------- MODULE MCEmploymentGroups -------------------------
(* Three employments of two users, two groups, for TLC. *)
EXTENDS EmploymentGroups, TLC

CONSTANTS e1, e2, e3, u1, u2, g1, g2

MCEmp == {e1, e2, e3}
MCGroup == {g1, g2}
MCUser == {u1, u2}
MCOwner == e1 :> u1 @@ e2 :> u1 @@ e3 :> u2
=============================================================================
